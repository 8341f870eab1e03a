--------------------------- MODULE ResourcesProofs ---------------------------
(***************************************************************************)
(* Proofs about the program of Resources: its mappings of memory, its files,  *)
(* its files in memory, its sockets and its addresses, for every number of     *)
(* threads, every region, content, text, size and table of the system.  What   *)
(* is proved of a service uses its part of the specification alone.            *)
(***************************************************************************)
EXTENDS Resources, FiniteSetTheorems, SequenceTheorems, TLAPS
-----------------------------------------------------------------------------
(* Mapping of memory.                                                       *)

MemoryTypes ==
  /\ pc \in [Threads -> {"idle", "checked", "requested", "unmapped", "cleaning"}]
  /\ region \in [Threads -> Regions \cup {{}}]
  /\ virt \in [Threads -> BOOLEAN]
  /\ busy \subseteq Regions

\* The drivers that have asked the list for their region and not yet given it back.
Holders == {d \in Threads : virt[d] \/ pc[d] \in {"requested", "unmapped"}}

\* A holder's region is on the list, and no other holder's; what is disputed is neither.
\* What is on the list is a holder's, or starts at address 0.
Listed ==
  /\ \A d \in Holders : region[d] \in busy \/ region[d] \subseteq disputed
  /\ \A d, e \in Holders : d # e => region[d] \cap region[e] \subseteq disputed
  /\ \A r \in busy : MemoryPart!Start(r) = 0 \/ \E d \in Holders : region[d] = r

\* Only an idle driver has a pointer, and none does more than ask without a region.
Pointed ==
  /\ \A d \in Threads : virt[d] => pc[d] = "idle"
  /\ \A d \in Threads : virt[d] \/ pc[d] # "idle" => region[d] \in Regions

MemoryInv == MemoryTypes /\ Listed /\ Pointed

\* What the proofs use of the constants.
LEMMA RegionFacts == Regions \subseteq SUBSET Nat /\ {} \notin Regions
BY ResourcesAssumption DEF MemoryPart!MemoryMapAssumption

LEMMA MemoryInit == MemoryPart!Init /\ port = "linux_drv" => MemoryInv
<1> QED
  BY DEF MemoryPart!Init, MemoryPart!NoRegion, MemoryInv, MemoryTypes, Listed, Pointed, Holders

\* A driver asks for a region, which is free or not.
LEMMA MemoryCheck ==
  ASSUME MemoryInv, port = "linux_drv", NEW d \in Threads, NEW r \in Regions,
         MemoryPart!CheckRegion(d, r)
  PROVE  MemoryInv'
<1>1. CASE UNCHANGED <<busy, pc, region, virt, disputed>>
  BY <1>1 DEF MemoryInv, MemoryTypes, Listed, Pointed, Holders
<1>2. ASSUME ~virt[d], pc[d] = "idle", pc' = pc \/ pc' = [pc EXCEPT ![d] = "checked"],
             region' = [region EXCEPT ![d] = r], UNCHANGED <<busy, virt, disputed>>
      PROVE  MemoryInv'
  <2>1. MemoryTypes'
    BY <1>2 DEF MemoryInv, MemoryTypes
  <2>2. Holders' = Holders /\ d \notin Holders
    BY <1>2 DEF MemoryInv, MemoryTypes, Holders
  <2>3. \A e \in Holders : region'[e] = region[e]
    BY <1>2, <2>2 DEF MemoryInv, MemoryTypes, Holders
  <2>4. Listed'
    BY <1>2, <2>2, <2>3 DEF MemoryInv, Listed
  <2>5. Pointed'
    BY <1>2 DEF MemoryInv, MemoryTypes, Pointed
  <2> QED
    BY <2>1, <2>4, <2>5 DEF MemoryInv
<1>3. MemoryPart!Accepts(d) => ~virt[d]
  BY DEF MemoryPart!Accepts
<1> QED
  BY <1>1, <1>2, <1>3 DEF MemoryPart!CheckRegion, MemoryPart!Refuses

\* It puts the region on the list, or finds that another has come between, and disputes it.
LEMMA MemoryRequest ==
  ASSUME MemoryInv, NEW d \in Threads, MemoryPart!RequestRegion(d)
  PROVE  MemoryInv'
<1>1. /\ pc[d] = "checked" /\ d \notin Holders /\ region[d] \in Regions
      /\ pc' = [pc EXCEPT ![d] = "requested"] /\ UNCHANGED <<region, virt>>
  BY DEF MemoryPart!RequestRegion, MemoryInv, Pointed, Holders
<1>2. MemoryTypes' /\ Pointed'
  BY <1>1 DEF MemoryInv, MemoryTypes, Pointed, MemoryPart!RequestRegion
<1>3. Holders' = Holders \cup {d}
  BY <1>1 DEF MemoryInv, MemoryTypes, Holders
<1>4. CASE MemoryPart!Overlaps(region[d])
  <2>1. busy' = busy /\ disputed' = disputed \cup region[d]
    BY <1>4 DEF MemoryPart!RequestRegion
  <2> QED
    BY <1>1, <1>2, <1>3, <2>1 DEF MemoryInv, Listed
<1>5. CASE ~MemoryPart!Overlaps(region[d])
  <2>1. /\ busy' = busy \cup {region[d]} /\ disputed' = disputed
        /\ \A s \in busy : s \cap region[d] = {}
    BY <1>5 DEF MemoryPart!RequestRegion, MemoryPart!Overlaps
  <2>2. \A e \in Holders : region[e] \cap region[d] \subseteq disputed
    BY <2>1 DEF MemoryInv, Listed
  <2> QED
    BY <1>1, <1>2, <1>3, <2>1, <2>2 DEF MemoryInv, Listed
<1> QED
  BY <1>4, <1>5

\* A holder takes its region off the list.
LEMMA MemoryGiveBack ==
  ASSUME MemoryInv, NEW d \in Holders,
         \/ busy' = busy \ {region[d]}
         \/ MemoryPart!Start(region[d]) = 0 /\ busy' = busy,
         region' = region \/ region' = [region EXCEPT ![d] = {}],
         pc' = [pc EXCEPT ![d] = "idle"], ~virt[d], UNCHANGED <<virt, disputed>>
  PROVE  MemoryInv'
<1>1. d \in Threads /\ Holders \subseteq Threads
  BY DEF Holders
<1>2. MemoryTypes'
  BY <1>1 DEF MemoryInv, MemoryTypes
<1>3. Holders' = Holders \ {d}
  BY <1>1 DEF MemoryInv, MemoryTypes, Holders
<1>4. \A e \in Holders \ {d} : region'[e] = region[e]
  BY <1>1 DEF MemoryInv, MemoryTypes
<1>5. \A e \in Holders \ {d} : region[e] = region[d] => region[e] \subseteq disputed
  BY DEF MemoryInv, Listed
<1>6. Listed'
  BY <1>3, <1>4, <1>5 DEF MemoryInv, Listed
<1>7. Pointed'
  BY <1>1 DEF MemoryInv, MemoryTypes, Pointed
<1> QED
  BY <1>2, <1>6, <1>7 DEF MemoryInv

\* Who has nothing gives back what another has, which is disputed then.
LEMMA MemoryCleaning ==
  ASSUME MemoryInv, NEW d \in Threads, pc[d] = "cleaning", MemoryPart!ReleaseRegion(d)
  PROVE  MemoryInv'
<1>1. /\ d \notin Holders /\ UNCHANGED virt /\ pc' = [pc EXCEPT ![d] = "idle"]
      /\ region' = [region EXCEPT ![d] = {}]
  BY DEF MemoryPart!ReleaseRegion, MemoryPart!NoRegion, MemoryInv, Pointed, Holders
<1>2. MemoryTypes' /\ Pointed'
  BY <1>1 DEF MemoryInv, MemoryTypes, Pointed, MemoryPart!ReleaseRegion
<1>3. Holders' = Holders /\ \A e \in Holders : region'[e] = region[e]
  BY <1>1 DEF MemoryInv, MemoryTypes, Holders
<1>4. /\ busy' \subseteq busy /\ disputed \subseteq disputed'
      /\ \A s \in busy \ busy' : s \subseteq disputed'
  BY DEF MemoryPart!ReleaseRegion
<1>5. Listed'
  <2>1. ASSUME NEW e \in Holders
        PROVE  region[e] \in busy' \/ region[e] \subseteq disputed'
    BY <1>4 DEF MemoryInv, Listed
  <2>2. \A e, f \in Holders : e # f => region[e] \cap region[f] \subseteq disputed'
    BY <1>4 DEF MemoryInv, Listed
  <2>3. \A r \in busy' : MemoryPart!Start(r) = 0 \/ \E e \in Holders : region[e] = r
    BY <1>4 DEF MemoryInv, Listed
  <2> QED
    BY <1>3, <2>1, <2>2, <2>3 DEF Listed
<1> QED
  BY <1>2, <1>5 DEF MemoryInv

\* The mapping itself, and the two calls that end it.
LEMMA MemoryMapping ==
  ASSUME MemoryInv, NEW d \in Threads,
         MemoryPart!Remap(d) \/ MemoryPart!UnmapVirt(d) \/ MemoryPart!ReleaseRegion(d)
  PROVE  MemoryInv'
<1> DEFINE Moves(place, b) ==
      /\ pc' = [pc EXCEPT ![d] = place] /\ virt' = [virt EXCEPT ![d] = b]
      /\ UNCHANGED <<busy, region, disputed>>
<1>1. CASE pc[d] = "requested" /\ Moves("idle", TRUE)
  <2>1. Holders' = Holders /\ MemoryTypes'
    BY <1>1 DEF MemoryInv, MemoryTypes, Holders
  <2>2. Pointed'
    BY <1>1 DEF MemoryInv, MemoryTypes, Pointed
  <2> QED
    BY <1>1, <2>1, <2>2 DEF MemoryInv, Listed
<1>2. CASE MemoryPart!UnmapVirt(d)
  <2>1. /\ pc[d] = "idle" /\ (virt[d] \/ region[d] # {})
        /\ Moves(IF virt[d] THEN "unmapped" ELSE "cleaning", FALSE)
    BY <1>2 DEF MemoryPart!UnmapVirt, MemoryPart!NoRegion
  <2>2. Holders' = Holders /\ MemoryTypes'
    BY <2>1 DEF MemoryInv, MemoryTypes, Pointed, Holders
  <2>3. Pointed'
    BY <2>1 DEF MemoryInv, MemoryTypes, Pointed
  <2> QED
    BY <2>1, <2>2, <2>3 DEF MemoryInv, Listed
<1>3. ASSUME pc[d] \in {"requested", "unmapped"}
      PROVE  d \in Holders /\ ~virt[d]
  BY <1>3 DEF MemoryInv, Pointed, Holders
<1>4. CASE MemoryPart!Remap(d)
  BY <1>1, <1>3, <1>4, MemoryGiveBack DEF MemoryPart!Remap
<1>5. CASE MemoryPart!ReleaseRegion(d)
  <2>1. CASE pc[d] = "unmapped"
    BY <1>3, <1>5, <2>1, MemoryGiveBack DEF MemoryPart!ReleaseRegion, MemoryPart!NoRegion
  <2> QED
    BY <1>5, <2>1, MemoryCleaning DEF MemoryPart!ReleaseRegion
<1> QED
  BY <1>2, <1>4, <1>5

\* All steps of the ports: the others do not keep a list.
LEMMA MemoryStep ==
  ASSUME port = "linux_drv" => MemoryInv, MemoryPart!Next
  PROVE  port' = port /\ (port = "linux_drv" => MemoryInv')
<1>1. PICK d \in Threads :
        \/ MemoryPart!Phy2VirtUnmap(d)
        \/ \E r \in Regions : MemoryPart!Phy2VirtMap(d, r)
  BY DEF MemoryPart!Next
<1>2. CASE \E r \in Regions : MemoryPart!LinuxDrvMap(d, r)
  BY <1>2, MemoryCheck, MemoryRequest, MemoryMapping
  DEF MemoryPart!LinuxDrvMap, MemoryPart!CheckRegion, MemoryPart!Refuses,
      MemoryPart!RequestRegion, MemoryPart!Remap
<1>3. CASE MemoryPart!LinuxDrvUnmap(d)
  BY <1>3, MemoryMapping
  DEF MemoryPart!LinuxDrvUnmap, MemoryPart!UnmapVirt, MemoryPart!ReleaseRegion
<1>4. CASE \E r \in Regions :
        \/ MemoryPart!LinuxApplMap(d, r) \/ MemoryPart!EcosMap(d, r)
        \/ MemoryPart!VxworksMap(d, r) \/ MemoryPart!Win32Map(d, r)
        \/ MemoryPart!NucleusMap(d, r) \/ MemoryPart!RtemsMap(d, r)
        \/ MemoryPart!GenericMap(d, r)
  BY <1>4 DEF MemoryPart!LinuxApplMap, MemoryPart!EcosMap, MemoryPart!VxworksMap,
    MemoryPart!Win32Map, MemoryPart!NucleusMap, MemoryPart!RtemsMap, MemoryPart!GenericMap,
    MemoryPart!Assigns, MemoryPart!Refuses
<1>5. CASE \/ MemoryPart!LinuxApplUnmap(d) \/ MemoryPart!EcosUnmap(d)
           \/ MemoryPart!VxworksUnmap(d) \/ MemoryPart!Win32Unmap(d)
           \/ MemoryPart!NucleusUnmap(d) \/ MemoryPart!RtemsUnmap(d)
           \/ MemoryPart!GenericUnmap(d)
  BY <1>5 DEF MemoryPart!LinuxApplUnmap, MemoryPart!EcosUnmap, MemoryPart!VxworksUnmap,
    MemoryPart!Win32Unmap, MemoryPart!NucleusUnmap, MemoryPart!RtemsUnmap,
    MemoryPart!GenericUnmap, MemoryPart!Clears
<1> QED
  BY <1>1, <1>2, <1>3, <1>4, <1>5 DEF MemoryPart!Phy2VirtMap, MemoryPart!Phy2VirtUnmap

\* RegionsKept with what it needs to last.
RegionsInv == part = "memory" /\ port = "linux_drv" => MemoryInv

\* The memory of the kernel, for any regions, any number of drivers and any order of their
\* calls: an address that two drivers have mapped, or that is mapped and not reserved, is one
\* which another driver took between a look and a request, or gave back without having it;
\* and what is reserved is some driver's, but for regions at address 0.
THEOREM Mapping == Spec => []RegionsKept
<1>1. Init => RegionsInv
  BY MemoryInit DEF Init, RegionsInv
<1>2. RegionsInv /\ [Next]_vars => RegionsInv'
  <2> SUFFICES ASSUME RegionsInv, [Next]_vars, part' = "memory", port' = "linux_drv"
      PROVE  MemoryInv'
    BY DEF RegionsInv
  <2>1. CASE part = "memory" /\ MemoryPart!Next
    BY <2>1, MemoryStep DEF RegionsInv
  <2>2. CASE UNCHANGED vars
    BY <2>2 DEF vars, shared, memoryVars, RegionsInv, MemoryInv, MemoryTypes, Listed,
                Pointed, Holders
  <2> QED
    BY <2>1, <2>2 DEF Next, Rest
<1>3. RegionsInv => RegionsKept
  <2> SUFFICES ASSUME MemoryInv PROVE MemoryPart!OneUser /\ MemoryPart!ListTrue
    BY DEF RegionsInv, RegionsKept, MemoryPart!OneUser, MemoryPart!ListTrue
  <2>1. MemoryPart!Mapped \subseteq Holders
    BY DEF MemoryPart!Mapped, Holders
  <2>2. Holders \subseteq Threads /\ MemoryPart!Holders = Holders
    BY DEF Holders, MemoryPart!Holders
  <2> QED
    BY <2>1, <2>2 DEF MemoryInv, Listed, MemoryPart!OneUser, MemoryPart!ListTrue
<1> QED
  BY <1>1, <1>2, <1>3, PTL DEF Spec

-----------------------------------------------------------------------------
(* Loading and writing files.                                               *)

Words == Seq(Nat)

FileTypes ==
  /\ file \in Words /\ saved \in Words /\ faulty \in BOOLEAN
  /\ pc \in [Threads -> {"idle", "statted", "opened", "reading", "writing", "closing"}]
  /\ told \in [Threads -> {"none", "success", "error"}]
  /\ alloc \in [Threads -> Nat] /\ size \in [Threads -> Nat] /\ passed \in [Threads -> Nat]
  /\ data \in [Threads -> Words] /\ quiet \in [Threads -> BOOLEAN]

Writers == {t \in Threads : pc[t] \in {"writing", "closing"}}

\* The streams are those of calls under way, the memory is that of a load that goes on or
\* has succeeded, and a stub has neither.
Held ==
  /\ streams = {t \in Threads : pc[t] \in {"opened", "reading", "writing", "closing"}}
  /\ \A t \in Threads : pc[t] = "reading" =>
       alloc[t] = size[t] + 1 /\ Len(data[t]) <= size[t]
  /\ \A t \in Threads : pc[t] \in {"statted", "opened"} => data[t] = << >>
  /\ \A t \in Threads : alloc[t] > 0 => pc[t] = "reading" \/ (pc[t] = "idle" /\ told[t] = "success")
  /\ port \in FilePart!Stubs => \A t \in Threads : pc[t] = "idle" /\ alloc[t] = 0

\* A writer that nobody has disturbed is alone, and the file is what it has passed on; what
\* the last one has reported is in the file until the next one begins.
Written ==
  port \notin FilePart!Stubs =>
    /\ \A t \in Writers : passed[t] <= Len(data[t])
    /\ \A t \in Writers : quiet[t] =>
         /\ Writers = {t} /\ Len(file) = passed[t]
         /\ \A i \in 1 .. Len(file) : file[i] = data[t][i]
    /\ saved # << >> => Writers = {} /\ (faulty \/ file = saved)

\* A reader that nobody has disturbed has the beginning of the file, and knows its length.
Loaded ==
  \A t \in Threads : quiet[t] /\ pc[t] \in {"statted", "opened", "reading"} =>
    /\ Writers = {} /\ size[t] = Len(file)
    /\ \A i \in 1 .. Len(data[t]) : i <= Len(file) => data[t][i] = file[i]

FileInv == FileTypes /\ Held /\ Written /\ Loaded

LEMMA WordFacts ==
  /\ << >> \in Words /\ Contents \subseteq Words
  /\ \A s \in Words : Len(s) \in Nat
  /\ \A s \in Words, n \in Nat : Append(s, n) \in Words
BY ResourcesAssumption DEF FilePart!FileAccessAssumption, Words

LEMMA FileInit == FilePart!Init => FileInv
<1> SUFFICES ASSUME FilePart!Init PROVE FileInv
  OBVIOUS
<1>1. FileTypes
  BY WordFacts DEF FilePart!Init, FilePart!Unknown, FileTypes
<1>2. Held /\ Written /\ Loaded
  BY DEF FilePart!Init, FilePart!Unknown, Held, Written, Loaded, Writers
<1> QED
  BY <1>1, <1>2 DEF FileInv

Load(t) ==
  \/ FilePart!Stat(t) \/ FilePart!OpenRead(t) \/ FilePart!Allocate(t)
  \/ FilePart!ReadOn(t) \/ FilePart!ReadDone(t)

LEMMA LoadTypes ==
  ASSUME FileTypes, NEW t \in Threads, Load(t)
  PROVE  FileTypes'
<1> USE DEF FileTypes, FilePart!At, FilePart!Returns, FilePart!noWrite
<1>1. CASE FilePart!Stat(t)
  <2>1. quiet' \in [Threads -> BOOLEAN] /\ alloc' \in [Threads -> Nat]
        /\ data' \in [Threads -> Words] /\ size' \in [Threads -> Nat]
    BY <1>1, WordFacts DEF FilePart!Stat
  <2> QED
    BY <1>1, <2>1 DEF FilePart!Stat
<1>2. CASE FilePart!OpenRead(t)
  BY <1>2 DEF FilePart!OpenRead
<1>3. CASE FilePart!Allocate(t)
  BY <1>3 DEF FilePart!Allocate
<1>4. CASE FilePart!ReadOn(t)
  <2>1. file[FilePart!Next_(t)] \in Nat
    BY <1>4, WordFacts DEF FilePart!ReadOn, FilePart!Next_, Words
  <2>2. data' \in [Threads -> Words]
    BY <1>4, <2>1, WordFacts DEF FilePart!ReadOn
  <2> QED
    BY <1>4, <2>2 DEF FilePart!ReadOn
<1>5. CASE FilePart!ReadDone(t)
  BY <1>5 DEF FilePart!ReadDone
<1> QED
  BY <1>1, <1>2, <1>3, <1>4, <1>5 DEF Load

\* A step of one reader keeps the invariant if it does so for that reader.
LEMMA OneReader ==
  ASSUME FileInv, FileTypes', port \notin FilePart!Stubs, NEW t \in Threads,
         UNCHANGED <<port, file, passed, saved, faulty>>,
         pc[t] \notin {"writing", "closing"}, pc'[t] \notin {"writing", "closing"},
         \A u \in Threads \ {t} :
           /\ pc'[u] = pc[u] /\ quiet'[u] = quiet[u] /\ data'[u] = data[u]
           /\ size'[u] = size[u] /\ alloc'[u] = alloc[u] /\ told'[u] = told[u]
           /\ u \in streams' <=> u \in streams,
         streams' \subseteq Threads,
         t \in streams' <=> pc'[t] \in {"opened", "reading"},
         pc'[t] = "reading" => alloc'[t] = size'[t] + 1 /\ Len(data'[t]) <= size'[t],
         pc'[t] \in {"statted", "opened"} => data'[t] = << >>,
         alloc'[t] > 0 => pc'[t] = "reading" \/ (pc'[t] = "idle" /\ told'[t] = "success"),
         quiet'[t] /\ pc'[t] \in {"statted", "opened", "reading"} =>
           /\ Writers = {} /\ size'[t] = Len(file)
           /\ \A i \in 1 .. Len(data'[t]) : i <= Len(file) => data'[t][i] = file[i]
  PROVE  FileInv'
<1>1. Writers' = Writers
  BY DEF Writers
<1>2. Held'
  <2>1. \A u \in Threads : u \in streams' <=> pc'[u] \in {"opened", "reading", "writing", "closing"}
    BY DEF FileInv, Held
  <2>2. ASSUME NEW u \in Threads
        PROVE  /\ pc'[u] = "reading" => alloc'[u] = size'[u] + 1 /\ Len(data'[u]) <= size'[u]
               /\ pc'[u] \in {"statted", "opened"} => data'[u] = << >>
               /\ alloc'[u] > 0 => pc'[u] = "reading" \/ (pc'[u] = "idle" /\ told'[u] = "success")
    BY DEF FileInv, Held
  <2> QED
    BY <2>1, <2>2 DEF Held
<1>3. Written'
  BY <1>1 DEF FileInv, Written, Writers
<1>4. Loaded'
  <2> SUFFICES ASSUME NEW u \in Threads, quiet'[u], pc'[u] \in {"statted", "opened", "reading"}
               PROVE  /\ Writers = {} /\ size'[u] = Len(file)
                      /\ \A i \in 1 .. Len(data'[u]) : i <= Len(file) => data'[u][i] = file[i]
    BY <1>1 DEF Loaded
  <2>1. CASE u = t
    BY <2>1
  <2>2. CASE u # t
    <3>1. quiet[u] /\ pc[u] \in {"statted", "opened", "reading"} /\ size'[u] = size[u]
          /\ data'[u] = data[u]
      BY <2>2
    <3> QED
      BY <3>1 DEF FileInv, Loaded
  <2> QED
    BY <2>1, <2>2
<1> QED
  BY <1>2, <1>3, <1>4 DEF FileInv

\* The steps of a load.
LEMMA LoadKept ==
  ASSUME FileInv, port \notin FilePart!Stubs, NEW t \in Threads, Load(t)
  PROVE  FileInv' /\ port' = port
<1>1. FileTypes' /\ UNCHANGED <<port, file, passed, saved, faulty>>
  BY LoadTypes
  DEF FileInv, Load, FilePart!Stat, FilePart!OpenRead, FilePart!Allocate, FilePart!ReadOn,
      FilePart!ReadDone, FilePart!noWrite
<1>2. /\ pc[t] \in {"idle", "statted", "opened", "reading"}
      /\ pc'[t] \in {"idle", "statted", "opened", "reading"}
      /\ \A u \in Threads \ {t} :
           /\ pc'[u] = pc[u] /\ quiet'[u] = quiet[u] /\ data'[u] = data[u]
           /\ size'[u] = size[u] /\ alloc'[u] = alloc[u] /\ told'[u] = told[u]
           /\ u \in streams' <=> u \in streams
  BY DEF FileInv, FileTypes, Load, FilePart!Stat, FilePart!OpenRead, FilePart!Allocate,
         FilePart!ReadOn, FilePart!ReadDone, FilePart!At, FilePart!Returns, FilePart!noWrite
<1>3. streams \subseteq Threads /\ streams' \subseteq Threads
  BY DEF FileInv, Held, Load, FilePart!Stat, FilePart!OpenRead, FilePart!Allocate,
         FilePart!ReadOn, FilePart!ReadDone, FilePart!At, FilePart!Returns, FilePart!noWrite
<1>4. /\ t \in streams <=> pc[t] \in {"opened", "reading"}
      /\ pc[t] = "reading" => alloc[t] = size[t] + 1 /\ Len(data[t]) <= size[t]
      /\ pc[t] \in {"statted", "opened"} => data[t] = << >>
      /\ alloc[t] > 0 => pc[t] = "reading" \/ (pc[t] = "idle" /\ told[t] = "success")
      /\ quiet[t] /\ pc[t] \in {"statted", "opened", "reading"} =>
           /\ Writers = {} /\ size[t] = Len(file)
           /\ \A i \in 1 .. Len(data[t]) : i <= Len(file) => data[t][i] = file[i]
  BY <1>2 DEF FileInv, Held, Loaded
<1>5. /\ Len(data[t]) \in Nat /\ Len(<< >>) = 0 /\ size[t] \in Nat /\ alloc[t] \in Nat
      /\ Len(file) \in Nat
  BY WordFacts DEF FileInv, FileTypes
<1>6. /\ t \in streams' <=> pc'[t] \in {"opened", "reading"}
      /\ alloc'[t] > 0 => pc'[t] = "reading" \/ (pc'[t] = "idle" /\ told'[t] = "success")
  BY <1>4, <1>5
  DEF FileInv, FileTypes, Load, FilePart!Stat, FilePart!OpenRead, FilePart!Allocate,
      FilePart!ReadOn, FilePart!ReadDone, FilePart!At, FilePart!Returns, FilePart!noWrite
<1>7. /\ pc'[t] = "reading" => alloc'[t] = size'[t] + 1 /\ Len(data'[t]) <= size'[t]
      /\ pc'[t] \in {"statted", "opened"} => data'[t] = << >>
      /\ quiet'[t] /\ pc'[t] \in {"statted", "opened", "reading"} =>
           /\ Writers = {} /\ size'[t] = Len(file)
           /\ \A i \in 1 .. Len(data'[t]) : i <= Len(file) => data'[t][i] = file[i]
  <2>1. CASE FilePart!Stat(t)
    <3>1. FilePart!Writers = Writers
      BY DEF FilePart!Writers, Writers
    <3>2. /\ data'[t] = << >> /\ (quiet'[t] <=> Writers = {})
          /\ (pc'[t] = "statted" /\ size'[t] = Len(file)) \/ pc'[t] = "idle"
      BY <2>1, <3>1 DEF FileInv, FileTypes, FilePart!Stat, FilePart!At, FilePart!Returns
    <3> QED
      BY <1>5, <3>2
  <2>2. CASE FilePart!OpenRead(t) \/ FilePart!Allocate(t) \/ FilePart!ReadDone(t)
    BY <1>4, <1>5, <2>2
    DEF FileInv, FileTypes, FilePart!OpenRead, FilePart!Allocate, FilePart!ReadDone,
        FilePart!At, FilePart!Returns, FilePart!noWrite
  <2>3. CASE FilePart!ReadOn(t)
    <3>1. /\ pc[t] = "reading" /\ UNCHANGED <<pc, told, streams, alloc, size, quiet>>
          /\ Len(data[t]) + 1 <= size[t] /\ Len(data[t]) + 1 <= Len(file)
          /\ data'[t] = Append(data[t], file[Len(data[t]) + 1])
      BY <2>3 DEF FileInv, FileTypes, FilePart!ReadOn, FilePart!Next_
    <3>2. /\ Len(data'[t]) = Len(data[t]) + 1
          /\ \A i \in 1 .. Len(data[t]) : data'[t][i] = data[t][i]
          /\ data'[t][Len(data[t]) + 1] = file[Len(data[t]) + 1]
      <4>1. data[t] \in Seq(Nat) /\ file[Len(data[t]) + 1] \in Nat
        BY <1>5, <3>1 DEF FileInv, FileTypes, Words
      <4> QED
        BY <3>1, <4>1
    <3>3. \A i \in 1 .. Len(data'[t]) : i \in 1 .. Len(data[t]) \/ i = Len(data[t]) + 1
      BY <1>5, <3>2
    <3> QED
      BY <1>4, <1>5, <3>1, <3>2, <3>3
  <2> QED
    BY <2>1, <2>2, <2>3 DEF Load
<1> QED
  BY <1>1, <1>2, <1>3, <1>6, <1>7, OneReader

Write(t, d) ==
  FilePart!OpenWrite(t, d) \/ FilePart!PassOn(t) \/ FilePart!Written(t) \/ FilePart!CloseWrite(t)

\* What a word passed on makes of the file: the rest stays as it was.
LEMMA FilePassed ==
  ASSUME FileTypes, NEW t \in Threads, FilePart!PassOn(t)
  PROVE  /\ file' \in Words
         /\ Len(file) = passed[t] =>
              /\ Len(file') = passed[t] + 1
              /\ \A i \in 1 .. passed[t] : file'[i] = file[i]
              /\ file'[passed[t] + 1] = data[t][passed[t] + 1]
<1> DEFINE n == passed[t] + 1
           m == IF n > Len(file) THEN n ELSE Len(file)
           g == [i \in 1 .. m |-> IF i = n THEN data[t][n] ELSE IF i <= Len(file) THEN file[i] ELSE 0]
<1>1. file \in Seq(Nat) /\ data[t] \in Seq(Nat) /\ passed[t] \in Nat /\ passed[t] < Len(data[t])
  BY DEF FileTypes, Words, FilePart!PassOn
<1>2. passed'[t] = n
  BY DEF FileTypes, FilePart!PassOn
<1>3. file' = g
  BY <1>2 DEF FilePart!PassOn, FilePart!Hole
<1>4. n \in Nat /\ Len(file) \in Nat /\ Len(data[t]) \in Nat /\ m \in Nat
  BY <1>1
<1>5. data[t][n] \in Nat /\ \A i \in 1 .. Len(file) : file[i] \in Nat
  <2>1. n \in 1 .. Len(data[t])
    BY <1>1, <1>4
  <2> HIDE DEF n
  <2> QED
    BY <1>1, <2>1
<1>6. \A i \in 1 .. m : g[i] \in Nat
  BY <1>4, <1>5
<1> HIDE DEF m
<1>7. g \in Seq(Nat) /\ Len(g) = m
  BY <1>4, <1>6
<1>8. ASSUME Len(file) = passed[t]
      PROVE  /\ m = n /\ n \in 1 .. m
             /\ \A i \in 1 .. passed[t] : i \in 1 .. m /\ i # n /\ i <= Len(file)
  BY <1>1, <1>4, <1>8 DEF m
<1> QED
  BY <1>3, <1>7, <1>8 DEF Words

LEMMA WriteTypes ==
  ASSUME FileTypes, NEW t \in Threads, NEW d \in Contents, Write(t, d)
  PROVE  FileTypes'
<1>1. CASE FilePart!OpenWrite(t, d)
  <2>1. /\ file' \in Words /\ saved' \in Words /\ faulty' \in BOOLEAN
        /\ data' \in [Threads -> Words]
    BY <1>1, WordFacts DEF FileTypes, FilePart!OpenWrite, FilePart!Unknown
  <2>2. quiet' \in [Threads -> BOOLEAN] /\ size' = size
    BY <1>1 DEF FileTypes, FilePart!OpenWrite
  <2>3. alloc' \in [Threads -> Nat] /\ passed' \in [Threads -> Nat]
    BY <1>1 DEF FileTypes, FilePart!OpenWrite
  <2>4. /\ pc' \in [Threads -> {"idle", "statted", "opened", "reading", "writing", "closing"}]
        /\ told' \in [Threads -> {"none", "success", "error"}]
    BY <1>1 DEF FileTypes, FilePart!OpenWrite, FilePart!At, FilePart!Returns
  <2> QED
    BY <2>1, <2>2, <2>3, <2>4 DEF FileTypes
<1>2. CASE FilePart!PassOn(t)
  <2>1. file' \in Words
    BY <1>2, FilePassed
  <2> QED
    BY <1>2, <2>1 DEF FileTypes, FilePart!PassOn, FilePart!call
<1>3. CASE FilePart!Written(t)
  BY <1>3 DEF FileTypes, FilePart!Written, FilePart!At, FilePart!Returns
<1>4. CASE FilePart!CloseWrite(t)
  <2>1. data[t] \in Words /\ << >> \in Words
    BY WordFacts DEF FileTypes
  <2>2. saved' \in Words /\ faulty' \in BOOLEAN
    BY <1>4, <2>1 DEF FilePart!CloseWrite, FilePart!Unknown
  <2> QED
    BY <1>4, <2>2 DEF FileTypes, FilePart!CloseWrite, FilePart!At, FilePart!Returns
<1> QED
  BY <1>1, <1>2, <1>3, <1>4 DEF Write

\* The steps of a write.
LEMMA WriteKept ==
  ASSUME FileInv, port \notin FilePart!Stubs, NEW t \in Threads, NEW d \in Contents, Write(t, d)
  PROVE  FileInv' /\ port' = port
<1>1. FileTypes' /\ port' = port
  BY WriteTypes
  DEF FileInv, Write, FilePart!OpenWrite, FilePart!PassOn, FilePart!Written, FilePart!CloseWrite
<1>2. FileTypes
  BY DEF FileInv
<1> USE DEF FilePart!At, FilePart!Returns
<1>3. CASE FilePart!OpenWrite(t, d)
  <2>1. pc[t] = "idle" /\ t \notin streams /\ t \notin Writers
    BY <1>3 DEF FilePart!OpenWrite, FileInv, Held, Writers
  <2>2. /\ \A u \in Threads \ {t} : /\ pc'[u] = pc[u] /\ data'[u] = data[u] /\ told'[u] = told[u]
                                    /\ alloc'[u] = alloc[u] /\ passed'[u] = passed[u]
        /\ size' = size /\ alloc'[t] = 0
    BY <1>2, <1>3 DEF FileTypes, FilePart!OpenWrite
  <2>3. CASE pc'[t] = "writing"
    <3>1. /\ file' = << >> /\ saved' = << >> /\ streams' = streams \cup {t}
          /\ passed'[t] = 0 /\ \A u \in Threads : quiet'[u] => u = t /\ Writers = {}
      <4>1. FilePart!Writers = Writers
        BY DEF FilePart!Writers, Writers
      <4> QED
        BY <1>2, <1>3, <2>3, <4>1 DEF FileTypes, FilePart!OpenWrite, FilePart!Unknown
    <3>2. Writers' = Writers \cup {t}
      BY <2>2, <2>3 DEF Writers
    <3>3. Held'
      BY <1>1, <2>2, <2>3, <3>1 DEF FileInv, Held
    <3>4. Written'
      <4>1. Len(file') = 0 /\ \A u \in Threads : Len(data'[u]) \in Nat
        BY <1>1, <3>1, WordFacts DEF FileTypes
      <4>2. \A u \in Writers' : passed'[u] <= Len(data'[u])
        <5>1. \A u \in Writers : passed[u] <= Len(data[u]) /\ u \in Threads /\ u # t
          BY <2>1 DEF FileInv, Written, Writers
        <5> QED
          BY <2>2, <3>1, <3>2, <4>1, <5>1
      <4> QED
        BY <3>1, <3>2, <4>1, <4>2 DEF Written, Writers
    <3>5. Loaded'
      BY <2>3, <3>1 DEF Loaded
    <3> QED
      BY <1>1, <3>3, <3>4, <3>5 DEF FileInv
  <2>4. CASE pc'[t] # "writing"
    <3>1. /\ pc' = pc /\ data'[t] = << >>
          /\ UNCHANGED <<file, streams, passed, quiet, saved, faulty>>
      BY <1>2, <1>3, <2>4 DEF FileTypes, FilePart!OpenWrite
    <3>2. Writers' = Writers /\ Writers \subseteq Threads \ {t}
      BY <2>1, <3>1 DEF Writers
    <3>3. Held'
      BY <1>1, <2>1, <2>2, <3>1 DEF FileInv, Held
    <3>4. Written'
      BY <1>1, <2>2, <3>1, <3>2 DEF FileInv, Written
    <3>5. Loaded'
      BY <2>1, <2>2, <3>1, <3>2 DEF FileInv, Loaded
    <3> QED
      BY <1>1, <3>3, <3>4, <3>5 DEF FileInv
  <2> QED
    BY <2>3, <2>4
<1>4. ASSUME t \in Writers
      PROVE  /\ \A u \in Threads : quiet[u] => pc[u] \notin {"statted", "opened", "reading"}
             /\ saved = << >>
             /\ passed[t] \in Nat /\ passed[t] <= Len(data[t]) /\ Len(data[t]) \in Nat
             /\ \A u \in Writers : quiet[u] =>
                  /\ u = t /\ Writers = {t} /\ Len(file) = passed[t]
                  /\ \A i \in 1 .. Len(file) : file[i] = data[t][i]
  <2>1. t \in Threads /\ Writers # {}
    BY <1>4 DEF Writers
  <2>2. \A u \in Threads : quiet[u] => pc[u] \notin {"statted", "opened", "reading"}
    BY <2>1 DEF FileInv, Loaded
  <2>3. passed[t] \in Nat /\ Len(data[t]) \in Nat
    BY <1>2, WordFacts DEF FileTypes
  <2>4. /\ saved = << >> /\ passed[t] <= Len(data[t])
        /\ \A u \in Writers : quiet[u] =>
             /\ Writers = {u} /\ Len(file) = passed[u]
             /\ \A i \in 1 .. Len(file) : file[i] = data[u][i]
    BY <1>4, <2>1 DEF FileInv, Written
  <2>5. \A u \in Writers : quiet[u] => u = t
    BY <1>4, <2>4
  <2> QED
    BY <2>2, <2>3, <2>4, <2>5
<1>5. CASE FilePart!PassOn(t)
  <2>1. /\ t \in Writers /\ UNCHANGED <<pc, size, data, told, streams, alloc, quiet, saved, faulty>>
        /\ passed[t] < Len(data[t]) /\ passed' = [passed EXCEPT ![t] = @ + 1]
    BY <1>5 DEF FilePart!PassOn, FilePart!call, Writers
  <2>2. Writers' = Writers
    BY <2>1 DEF Writers
  <2>3. Held'
    BY <1>1, <2>1 DEF FileInv, Held
  <2>4. Loaded'
    BY <1>4, <2>1 DEF Loaded
  <2>5. Written'
    <3>1. \A u \in Writers : passed'[u] <= Len(data[u])
      <4>1. \A u \in Writers : passed[u] <= Len(data[u]) /\ u \in Threads
        BY DEF FileInv, Written, Writers
      <4> QED
        BY <1>2, <1>4, <2>1, <4>1 DEF FileTypes
    <3>2. ASSUME NEW u \in Writers, quiet[u]
          PROVE  /\ Writers = {u} /\ Len(file') = passed'[u]
                 /\ \A i \in 1 .. Len(file') : file'[i] = data[u][i]
      <4>1. /\ u = t /\ Writers = {t} /\ Len(file) = passed[t]
            /\ \A i \in 1 .. passed[t] : file[i] = data[t][i]
        BY <1>4, <2>1, <3>2
      <4>2. /\ Len(file') = passed[t] + 1
            /\ \A i \in 1 .. passed[t] : file'[i] = file[i]
            /\ file'[passed[t] + 1] = data[t][passed[t] + 1]
        BY <1>2, <1>5, <4>1, FilePassed
      <4>3. passed'[t] = passed[t] + 1
        BY <1>2, <2>1 DEF FileTypes
      <4>4. \A i \in 1 .. passed[t] + 1 : i \in 1 .. passed[t] \/ i = passed[t] + 1
        BY <1>4, <2>1
      <4> QED
        BY <4>1, <4>2, <4>3, <4>4
    <3> QED
      BY <1>4, <2>1, <2>2, <3>1, <3>2 DEF Written
  <2> QED
    BY <1>1, <2>3, <2>4, <2>5 DEF FileInv
<1>6. ASSUME FilePart!Written(t) \/ FilePart!CloseWrite(t)
      PROVE  /\ t \in Writers /\ UNCHANGED <<file, alloc, size, data, passed, quiet>>
             /\ Held'
             /\ \A u \in Threads \ {t} : pc'[u] = pc[u]
             /\ pc'[t] \in {"idle", "closing"}
  <2>1. /\ t \in Writers /\ UNCHANGED <<file, alloc, size, data, passed, quiet>>
        /\ \A u \in Threads \ {t} : pc'[u] = pc[u] /\ told'[u] = told[u]
        /\ pc[t] \in {"writing", "closing"}
        /\ \/ pc'[t] = "idle" /\ streams' = streams \ {t}
           \/ pc'[t] = "closing" /\ streams' = streams
    BY <1>2, <1>6 DEF FileTypes, FilePart!Written, FilePart!CloseWrite, Writers
  <2>2. Held'
    <3>1. /\ streams = {u \in Threads : pc[u] \in {"opened", "reading", "writing", "closing"}}
          /\ alloc[t] \in Nat /\ ~(alloc[t] > 0) /\ UNCHANGED <<port, alloc, size, data>>
      BY <1>1, <1>2, <2>1 DEF FileInv, FileTypes, Held
    <3>2. \A u \in Threads :
            u \in streams' <=> pc'[u] \in {"opened", "reading", "writing", "closing"}
      BY <2>1, <3>1
    <3>3. streams' \subseteq Threads
      BY <2>1, <3>1
    <3>4. ASSUME NEW u \in Threads
          PROVE  /\ pc'[u] = "reading" => alloc[u] = size[u] + 1 /\ Len(data[u]) <= size[u]
                 /\ pc'[u] \in {"statted", "opened"} => data[u] = << >>
                 /\ alloc[u] > 0 => pc'[u] = "reading" \/ (pc'[u] = "idle" /\ told'[u] = "success")
      BY <2>1, <3>1 DEF FileInv, Held
    <3> QED
      BY <3>1, <3>2, <3>3, <3>4 DEF Held
  <2> QED
    BY <2>1, <2>2
<1>7. ASSUME FilePart!Written(t) \/ FilePart!CloseWrite(t)
      PROVE  Loaded'
  BY <1>4, <1>6, <1>7 DEF Loaded
<1>8. CASE FilePart!Written(t)
  <2>1. saved' = << >>
    BY <1>4, <1>6, <1>8 DEF FilePart!Written
  <2>2. Writers' \subseteq Writers /\ (t \in Writers' => Writers' = Writers)
    BY <1>6, <1>8 DEF Writers
  <2>3. Written'
    BY <1>1, <1>4, <1>6, <1>8, <2>1, <2>2 DEF FileInv, Written
  <2> QED
    BY <1>1, <1>6, <1>7, <1>8, <2>3 DEF FileInv
<1>9. CASE FilePart!CloseWrite(t)
  <2>1. Writers' = Writers \ {t}
    BY <1>2, <1>6, <1>9 DEF FileTypes, FilePart!CloseWrite, Writers
  <2>2. Written'
    <3>1. saved' # << >> => quiet[t] /\ saved' = data[t] /\ faulty' = (passed[t] < Len(data[t]))
      BY <1>9 DEF FilePart!CloseWrite, FilePart!Unknown
    <3>2. saved' # << >> => Writers' = {} /\ (faulty' \/ file = saved')
      <4> SUFFICES ASSUME saved' # << >> PROVE Writers' = {} /\ (faulty' \/ file = saved')
        OBVIOUS
      <4>1. /\ Writers = {t} /\ Len(file) = passed[t]
            /\ \A i \in 1 .. Len(file) : file[i] = data[t][i]
        BY <1>4, <1>6, <1>9, <3>1
      <4>2. file \in Seq(Nat) /\ data[t] \in Seq(Nat)
        BY <1>2 DEF FileTypes, Words
      <4>3. passed[t] = Len(data[t]) => file = data[t]
        BY <4>1, <4>2, SeqEqual
      <4>4. passed[t] < Len(data[t]) \/ passed[t] = Len(data[t])
        BY <1>4, <1>6, <1>9
      <4>5. Writers' = {}
        BY <2>1, <4>1
      <4>6. CASE passed[t] < Len(data[t])
        BY <3>1, <4>5, <4>6
      <4>7. CASE passed[t] = Len(data[t])
        BY <3>1, <4>3, <4>5, <4>7
      <4> QED
        BY <4>4, <4>6, <4>7
    <3> QED
      BY <1>1, <1>4, <1>6, <1>9, <2>1, <3>2 DEF FileInv, Written
  <2> QED
    BY <1>1, <1>6, <1>7, <1>9, <2>2 DEF FileInv
<1> QED
  BY <1>1, <1>3, <1>5, <1>8, <1>9 DEF Write

\* The calls of the stubs, which do nothing.
LEMMA StubKept ==
  ASSUME FileInv, port \in FilePart!Stubs, NEW t \in Threads,
         \/ FilePart!NoLoad(port, t)
         \/ \E d \in Contents : FilePart!Pretends(port, t, d)
  PROVE  FileInv' /\ port' = port
<1>1. /\ UNCHANGED <<port, file, streams, alloc, size, data, passed, quiet, faulty>>
      /\ pc' = pc /\ saved' \in {saved} \cup Contents
      /\ told' \in [Threads -> {"none", "success", "error"}]
  BY DEF FileInv, FileTypes, FilePart!NoLoad, FilePart!Pretends, FilePart!Returns, FilePart!At,
         FilePart!noWrite
<1>2. FileTypes'
  BY <1>1, WordFacts DEF FileInv, FileTypes
<1>3. \A u \in Threads : pc[u] = "idle" /\ alloc[u] = 0
  BY DEF FileInv, Held
<1>4. Held'
  BY <1>1, <1>3 DEF FileInv, Held
<1>5. Written' /\ Loaded'
  BY <1>1, <1>3 DEF FileInv, Written, Loaded
<1> QED
  BY <1>1, <1>2, <1>4, <1>5 DEF FileInv

\* The calls of all ports.
LEMMA FileCases ==
  ASSUME NEW t \in Threads, FilePart!FileCall(t)
  PROVE  \/ port \notin FilePart!Stubs /\ (Load(t) \/ \E d \in Contents : Write(t, d))
         \/ port \in FilePart!Stubs /\ FilePart!NoLoad(port, t)
         \/ port \in FilePart!Stubs /\ \E d \in Contents : FilePart!Pretends(port, t, d)
<1>1. CASE FilePart!FileLoad(t)
  BY <1>1
  DEF FilePart!FileLoad, FilePart!LinuxApplLoad, FilePart!SunOsLoad, FilePart!EcosLoad,
      FilePart!VxworksLoad, FilePart!Win32Load, FilePart!NucleusLoad, FilePart!RtemsLoad,
      FilePart!GenericLoad, FilePart!Loads, FilePart!NoLoad, FilePart!Stubs, Load
<1>2. ASSUME NEW d \in Contents, FilePart!FileWrite(t, d)
      PROVE  \/ port \notin FilePart!Stubs /\ Write(t, d)
             \/ port \in FilePart!Stubs /\ FilePart!Pretends(port, t, d)
  BY <1>2
  DEF FilePart!FileWrite, FilePart!LinuxApplWrite, FilePart!SunOsWrite, FilePart!EcosWrite,
      FilePart!VxworksWrite, FilePart!Win32Write, FilePart!NucleusWrite, FilePart!RtemsWrite,
      FilePart!GenericWrite, FilePart!Writes, FilePart!Pretends, FilePart!Stubs, Write
<1> QED
  BY <1>1, <1>2 DEF FilePart!FileCall

LEMMA FileStep ==
  ASSUME FileInv, NEW t \in Threads, FilePart!FileCall(t)
  PROVE  FileInv' /\ port' = port
<1>1. CASE port \notin FilePart!Stubs
  BY <1>1, FileCases, LoadKept, WriteKept
<1>2. CASE port \in FilePart!Stubs
  BY <1>2, FileCases, StubKept
<1> QED
  BY <1>1, <1>2

\* What the invariant says of the calls that have ended, and of what is in the file.
LEMMA FileProperties ==
  ASSUME FileInv
  PROVE  FilePart!NothingLeft /\ FilePart!WriteKept
<1>1. FilePart!NothingLeft
  BY DEF FileInv, Held, FilePart!NothingLeft
<1>2. FilePart!WriteKept
  BY DEF FileInv, Written, FilePart!WriteKept, FilePart!WriteTold, FilePart!Unknown
<1> QED
  BY <1>1, <1>2

\* A load that succeeds has read the whole file, if nobody has disturbed it.
LEMMA LoadWhole ==
  ASSUME FileInv, NEW t \in Threads, FilePart!FileCall(t)
  PROVE  FilePart!LoadIsFile
<1> SUFFICES ASSUME NEW u \in Threads,
                    pc[u] = "reading", pc'[u] = "idle", told'[u] = "success"
             PROVE  Len(data[u]) < alloc[u] /\ (quiet[u] => data[u] = file)
  BY DEF FilePart!LoadIsFile
<1>1. /\ alloc[u] = size[u] + 1 /\ Len(data[u]) <= size[u]
      /\ size[u] \in Nat /\ Len(data[u]) \in Nat
  BY WordFacts DEF FileInv, FileTypes, Held
<1>2. port \notin FilePart!Stubs
  BY DEF FileInv, Held
<1>3. Len(data[u]) = size[u]
  <2>1. ASSUME NEW d \in Contents, Write(t, d) PROVE FALSE
    <3>1. pc'[u] = "reading"
      BY <2>1
      DEF FileInv, FileTypes, Write, FilePart!OpenWrite, FilePart!PassOn, FilePart!Written,
          FilePart!CloseWrite, FilePart!At, FilePart!Returns, FilePart!call
    <3> QED
      BY <3>1
  <2>2. CASE Load(t)
    <3>1. t = u /\ FilePart!ReadDone(t)
      BY <2>2
      DEF FileInv, FileTypes, Load, FilePart!Stat, FilePart!OpenRead, FilePart!Allocate,
          FilePart!ReadOn, FilePart!ReadDone, FilePart!At, FilePart!Returns, FilePart!noWrite
    <3>2. Len(data[u]) + 1 > size[u]
      BY <3>1 DEF FileInv, FileTypes, FilePart!ReadDone, FilePart!Returns, FilePart!Next_
    <3> QED
      BY <1>1, <3>2
  <2> QED
    BY <1>2, <2>1, <2>2, FileCases
<1>4. ASSUME quiet[u] PROVE data[u] = file
  <2>1. /\ Len(data[u]) = Len(file)
        /\ \A i \in 1 .. Len(data[u]) : i <= Len(file) => data[u][i] = file[i]
    BY <1>3, <1>4 DEF FileInv, Loaded
  <2>2. \A i \in 1 .. Len(data[u]) : data[u][i] = file[i]
    BY <1>1, <2>1
  <2>3. data[u] \in Seq(Nat) /\ file \in Seq(Nat)
    BY DEF FileInv, FileTypes, Words
  <2> QED
    BY <2>1, <2>2, <2>3, SeqEqual
<1> QED
  BY <1>1, <1>3, <1>4

-----------------------------------------------------------------------------
(* Files in memory.                                                         *)

\* A set of entries has a first one: the one with the fewest entries before it.
LEMMA FirstOne ==
  ASSUME NEW S, S \subseteq TextPart!Entries, S # {}
  PROVE  TextPart!First(S) \in S
<1> DEFINE Entries == TextPart!Entries
           Before(m) == {d \in S : d < m}
           Family == {Before(m) : m \in S}
<1>1. /\ Entries \subseteq Nat /\ IsFiniteSet(Entries)
      /\ S \subseteq Nat
  BY ResourcesAssumption, FS_Interval DEF TextPart!MemFileAssumption, TextPart!Entries
<1>2. FiniteSubsetsOf(Entries) = SUBSET Entries
  BY <1>1, FS_FiniteSubsetsOfFinite
<1>3. IsWellFoundedOn(StrictSubsetOrdering(Entries), SUBSET Entries)
  BY <1>2, FS_StrictSubsetOrderingWellFounded
<1>4. Family \subseteq SUBSET Entries /\ Family # {}
  OBVIOUS
<1> HIDE DEF Family
<1>5. PICK f \in Family :
        \A g \in Family : ~ (<<g, f>> \in StrictSubsetOrdering(Entries))
  BY <1>3, <1>4, WFMin
<1>6. PICK m \in S : f = Before(m)
  BY <1>5 DEF Family
<1>7. ASSUME NEW n \in S, n < m
      PROVE  FALSE
  <2>1. Before(n) \in Family
    BY DEF Family
  <2>2. n \in Nat /\ m \in Nat /\ n \in Before(m) /\ n \notin Before(n)
    BY <1>1, <1>7
  <2> HIDE DEF Before
  <2>3. \A d \in S : d < n => d < m
    BY <1>1, <1>7, <2>2
  <2>4. Before(n) \subseteq Before(m)
    BY <2>3 DEF Before
  <2>5. <<Before(n), Before(m)>> \in StrictSubsetOrdering(Entries)
    BY <1>4, <1>6, <2>1, <2>2, <2>4, <1>5 DEF StrictSubsetOrdering
  <2> QED
    BY <1>5, <1>6, <2>1, <2>5
<1>8. \A n \in S : m <= n
  BY <1>1, <1>7
<1> QED
  BY <1>8 DEF TextPart!First

TextTypes ==
  /\ pBuffer \in [TextPart!Entries -> Threads \cup {TextPart!Null}]
  /\ currPos \in [TextPart!Entries -> Nat]
  /\ found \in [Threads -> 0 .. NumEntries] /\ stream \in [Threads -> 0 .. NumEntries]
  /\ mem \in [Threads -> [TextPart!Cells -> Int]]
  /\ text \in [Threads -> Words]

\* A stream is an entry that has its user's buffer, and stands where the text ends; what an
\* open has found has no buffer, until that open takes it.
Taken ==
  /\ \A u \in Threads : stream[u] # 0 =>
       pBuffer[stream[u]] = u /\ currPos[stream[u]] = Len(text[u]) /\ found[u] = 0
  /\ \A u \in Threads : found[u] # 0 =>
       /\ pBuffer[found[u]] = TextPart!Null
       /\ \A v \in Threads : v # u => found[v] = 0

\* The buffer has the text and its end, and nothing behind the buffer is stored.
Readable ==
  \A u \in Threads : stream[u] # 0 /\ Len(text[u]) < BufSize =>
    /\ \A i \in TextPart!Cells : i < Len(text[u]) => mem[u][i] = text[u][i + 1]
    /\ Len(text[u]) > 0 => Len(text[u]) \in TextPart!Cells /\ mem[u][Len(text[u])] = 0
    /\ \A i \in TextPart!Cells : i >= BufSize => mem[u][i] = -1

TextInv == TextTypes /\ Taken /\ Readable

LEMMA TextFacts ==
  /\ TextPart!Null \notin Threads
  /\ NumEntries \in Nat \ {0} /\ BufSize \in Nat \ {0} /\ MaxText \in Nat
  /\ << >> \in Words /\ Texts \subseteq Words
  /\ \A s \in Words : Len(s) \in Nat
BY ResourcesAssumption DEF TextPart!MemFileAssumption, Words

LEMMA TextInit == TextPart!Init => TextInv
<1> SUFFICES ASSUME TextPart!Init PROVE TextInv
  OBVIOUS
<1>1. TextTypes
  BY TextFacts DEF TextPart!Init, TextPart!None, TextPart!Untouched, TextTypes
<1>2. Taken /\ Readable
  BY DEF TextPart!Init, TextPart!None, Taken, Readable
<1> QED
  BY <1>1, <1>2 DEF TextInv

\* An open finds an entry without a buffer, alone.
LEMMA LookKept ==
  ASSUME TextInv, NEW u \in Threads, NEW p, TextPart!OpenLook(p, u)
  PROVE  TextInv'
<1> USE TextFacts
<1>1. /\ stream[u] = 0 /\ found[u] = 0 /\ \A v \in Threads : found[v] = 0
      /\ found' = [found EXCEPT ![u] = TextPart!First(TextPart!Free)]
      /\ TextPart!Free # {}
      /\ UNCHANGED <<pBuffer, currPos, stream, mem, text>>
  BY DEF TextPart!OpenLook, TextPart!None
<1>2. TextPart!First(TextPart!Free) \in TextPart!Free
  BY <1>1, FirstOne DEF TextPart!Free
<1>3. /\ TextPart!First(TextPart!Free) \in 1 .. NumEntries
      /\ pBuffer[TextPart!First(TextPart!Free)] = TextPart!Null
  BY <1>2 DEF TextPart!Free, TextPart!Entries
<1>4. TextTypes'
  BY <1>1, <1>3 DEF TextInv, TextTypes
<1>5. Taken'
  BY <1>1, <1>3 DEF TextInv, TextTypes, Taken
<1>6. Readable'
  BY <1>1 DEF TextInv, Readable
<1> QED
  BY <1>4, <1>5, <1>6 DEF TextInv

\* It takes the entry, whose buffer is its own and empty.
LEMMA TakeKept ==
  ASSUME TextInv, NEW u \in Threads, NEW p, TextPart!OpenTake(p, u)
  PROVE  TextInv'
<1> USE TextFacts
<1> DEFINE e == found[u]
<1>1. /\ e # 0 /\ e \in TextPart!Entries
      /\ pBuffer' = [pBuffer EXCEPT ![e] = u]
      /\ currPos' = [currPos EXCEPT ![e] = 0]
      /\ stream' = [stream EXCEPT ![u] = e]
      /\ found' = [found EXCEPT ![u] = 0]
      /\ mem' = [mem EXCEPT ![u] = [i \in TextPart!Cells |-> -1]]
      /\ text' = [text EXCEPT ![u] = << >>]
  BY DEF TextPart!OpenTake, TextPart!None, TextPart!Untouched, TextInv, TextTypes,
         TextPart!Entries
<1>2. /\ pBuffer[e] = TextPart!Null
      /\ \A v \in Threads : v # u => found[v] = 0
  BY <1>1 DEF TextInv, Taken
<1>3. \A v \in Threads : v # u =>
        /\ stream'[v] = stream[v] /\ text'[v] = text[v] /\ mem'[v] = mem[v]
        /\ found'[v] = 0
  BY <1>1, <1>2 DEF TextInv, TextTypes
<1>4. stream'[u] = e /\ text'[u] = << >> /\ mem'[u] = [i \in TextPart!Cells |-> -1] /\ found'[u] = 0
  BY <1>1 DEF TextInv, TextTypes
<1>5. /\ pBuffer'[e] = u /\ currPos'[e] = 0
      /\ \A d \in TextPart!Entries : d # e => pBuffer'[d] = pBuffer[d] /\ currPos'[d] = currPos[d]
  BY <1>1 DEF TextInv, TextTypes
<1>6. TextTypes'
  BY <1>1 DEF TextInv, TextTypes, TextPart!Entries
<1>7. Taken'
  <2>1. ASSUME NEW v \in Threads, v # u, stream[v] # 0
        PROVE  stream[v] \in TextPart!Entries /\ stream[v] # e
    BY <1>2, <2>1 DEF TextInv, TextTypes, Taken, TextPart!Entries
  <2>2. \A v \in Threads : stream'[v] # 0 =>
          pBuffer'[stream'[v]] = v /\ currPos'[stream'[v]] = Len(text'[v]) /\ found'[v] = 0
    BY <1>3, <1>4, <1>5, <2>1 DEF TextInv, Taken
  <2>3. \A v \in Threads : found'[v] = 0
    BY <1>3, <1>4
  <2> QED
    BY <2>2, <2>3 DEF Taken
<1>8. Readable'
  <2>1. Len(<< >>) = 0 /\ TextPart!Cells \subseteq Nat
    BY DEF TextPart!Cells
  <2> QED
    BY <1>3, <1>4, <2>1 DEF TextInv, Readable
<1> QED
  BY <1>6, <1>7, <1>8 DEF TextInv

\* A close gives the entry back, which no other thread has.
LEMMA CloseKept ==
  ASSUME TextInv, NEW u \in Threads, NEW p, TextPart!Closes(p, u)
  PROVE  TextInv'
<1> USE TextFacts
<1> DEFINE e == stream[u]
<1>1. /\ e # 0 /\ e \in TextPart!Entries
      /\ pBuffer' = [pBuffer EXCEPT ![e] = TextPart!Null]
      /\ currPos' = [currPos EXCEPT ![e] = 0]
      /\ stream' = [stream EXCEPT ![u] = 0]
      /\ UNCHANGED <<found, mem, text>>
  BY DEF TextPart!Closes, TextPart!None, TextInv, TextTypes, TextPart!Entries
<1>2. TextTypes'
  BY <1>1 DEF TextInv, TextTypes, TextPart!Entries
<1>3. /\ stream'[u] = 0
      /\ \A v \in Threads : v # u => stream'[v] = stream[v]
      /\ \A d \in TextPart!Entries : d # e => pBuffer'[d] = pBuffer[d] /\ currPos'[d] = currPos[d]
      /\ pBuffer'[e] = TextPart!Null
  BY <1>1 DEF TextInv, TextTypes
<1>4. ASSUME NEW v \in Threads, stream'[v] # 0
      PROVE  /\ stream'[v] = stream[v] /\ stream[v] \in TextPart!Entries /\ stream[v] # e
  BY <1>1, <1>3, <1>4 DEF TextInv, TextTypes, Taken, TextPart!Entries
<1>5. ASSUME NEW v \in Threads, found[v] # 0
      PROVE  pBuffer'[found[v]] = TextPart!Null
  BY <1>3, <1>5 DEF TextInv, TextTypes, Taken, TextPart!Entries
<1>6. Taken'
  BY <1>1, <1>3, <1>4, <1>5 DEF TextInv, Taken
<1>7. Readable'
  BY <1>1, <1>4 DEF TextInv, Readable
<1> QED
  BY <1>2, <1>6, <1>7 DEF TextInv

\* Characters are stored in a buffer, which stays one.
LEMMA StoredType ==
  ASSUME NEW b \in [TextPart!Cells -> Int], NEW k \in Nat, NEW t \in Words,
         NEW m \in 0 .. Len(t)
  PROVE  TextPart!Stored(b, k, t, m) \in [TextPart!Cells -> Int]
<1>1. Len(t) \in Nat /\ TextPart!Cells \subseteq Nat /\ \A i \in 1 .. Len(t) : t[i] \in Int
  BY TextFacts DEF Words, TextPart!Cells
<1>2. ASSUME NEW i \in TextPart!Cells, i \in k .. k + m - 1
      PROVE  t[i - k + 1] \in Int
  <2>1. i - k + 1 \in 1 .. Len(t)
    BY <1>1, <1>2
  <2> QED
    BY <1>1, <2>1
<1> QED
  BY <1>2 DEF TextPart!Stored, TextPart!End

\* A buffer of text s after a print of t: the text, what is printed, the end, the rest.
Longer(c, b, s, t) ==
  LET n == Len(s) + Len(t) IN
    /\ n \in TextPart!Cells /\ c[n] = 0
    /\ \A i \in TextPart!Cells : i > n => c[i] = b[i]
    /\ \A i \in TextPart!Cells : i < Len(s) => c[i] = b[i] /\ (s \o t)[i + 1] = s[i + 1]
    /\ \A i \in TextPart!Cells : Len(s) <= i /\ i < n => c[i] = (s \o t)[i + 1]

LEMMA StoredText ==
  ASSUME NEW b \in [TextPart!Cells -> Int], NEW s \in Words, NEW t \in Words,
         Len(s) + Len(t) < MaxText
  PROVE  Longer(TextPart!Stored(b, Len(s), t, Len(t)), b, s, t)
<1> DEFINE c == TextPart!Stored(b, Len(s), t, Len(t))
           n == Len(s) + Len(t)
           w == s \o t
<1> USE TextFacts
<1>1. /\ w \in Words /\ Len(w) = n
      /\ \A i \in 1 .. n : w[i] = IF i <= Len(s) THEN s[i] ELSE t[i - Len(s)]
  BY DEF Words
<1> HIDE DEF w
<1>2. Len(s) \in Nat /\ Len(t) \in Nat /\ \A i \in 1 .. Len(t) : t[i] \in Nat
  BY DEF Words
<1>3. c = [i \in TextPart!Cells |->
             IF i \in Len(s) .. Len(s) + Len(t) - 1 THEN t[i - Len(s) + 1]
             ELSE IF i = n THEN 0 ELSE b[i]]
  BY DEF TextPart!Stored, TextPart!End
<1> HIDE DEF c
<1>4. TextPart!Cells \subseteq Nat /\ n \in TextPart!Cells
  BY <1>2 DEF TextPart!Cells
<1>5. ASSUME NEW i \in TextPart!Cells
      PROVE  /\ Len(s) <= i /\ i < n => c[i] = t[i - Len(s) + 1] /\ c[i] = w[i + 1]
             /\ i = n => c[i] = 0
             /\ i > n \/ i < Len(s) => c[i] = b[i]
  <2>1. CASE Len(s) <= i /\ i < n
    <3>1. c[i] = t[i - Len(s) + 1]
      BY <1>2, <1>3, <1>4, <2>1
    <3>2. PICK j \in 1 .. n : j = i + 1 /\ ~ (j <= Len(s))
      BY <1>2, <1>4, <2>1
    <3>3. w[j] = t[j - Len(s)]
      BY <1>1, <3>2, Zenon
    <3>4. j - Len(s) = i - Len(s) + 1
      BY <1>2, <1>4, <3>2
    <3>5. c[i] = w[i + 1]
      BY <3>1, <3>2, <3>3, <3>4
    <3> QED
      BY <1>2, <1>4, <2>1, <3>1, <3>5
  <2>2. CASE ~ (Len(s) <= i /\ i < n)
    BY <1>2, <1>3, <1>4, <2>2
  <2> QED
    BY <2>1, <2>2
<1>6. \A i \in TextPart!Cells : i < Len(s) => w[i + 1] = s[i + 1]
  BY <1>1, <1>2, <1>4
<1> QED
  BY <1>1, <1>4, <1>5, <1>6 DEF Longer, c, w

\* A print adds its text to its own buffer, as far as it fits.
LEMMA PrintKept ==
  ASSUME TextInv, NEW u \in Threads, NEW p, NEW t \in Texts, NEW n \in 0 .. Len(t) + 1,
         stream[u] # 0 /\ Len(text[u]) + Len(t) < BufSize => n = Len(t) + 1,
         TextPart!Prints(p, u, t, n)
  PROVE  TextInv'
<1> USE TextFacts
<1> DEFINE e == stream[u]
           c == IF n = 0 THEN mem[u] ELSE TextPart!Stored(mem[u], currPos[e], t, n - 1)
<1>1. /\ e # 0 /\ e \in TextPart!Entries /\ Len(text[u]) + Len(t) < MaxText
      /\ pBuffer[e] = u /\ currPos[e] = Len(text[u]) /\ found[u] = 0
      /\ currPos' = [currPos EXCEPT ![e] = @ + Len(t)]
      /\ text' = [text EXCEPT ![u] = @ \o t]
      /\ UNCHANGED <<pBuffer, found, stream>>
  BY DEF TextPart!Prints, TextPart!None, TextInv, TextTypes, Taken, TextPart!Entries
<1>2. mem' = [mem EXCEPT ![u] = c]
  BY <1>1 DEF TextPart!Prints, TextPart!None, TextInv, TextTypes
<1>3. /\ mem[u] \in [TextPart!Cells -> Int] /\ text[u] \in Words /\ t \in Words
      /\ text[u] \o t \in Words /\ Len(text[u] \o t) = Len(text[u]) + Len(t)
      /\ Len(text[u]) \in Nat /\ Len(t) \in Nat
  BY DEF TextInv, TextTypes, Words
<1>4. c \in [TextPart!Cells -> Int]
  <2>1. CASE n = 0
    BY <1>3, <2>1
  <2>2. CASE n # 0
    <3>1. n - 1 \in 0 .. Len(t)
      BY <1>3, <2>2
    <3>2. TextPart!Stored(mem[u], Len(text[u]), t, n - 1) \in [TextPart!Cells -> Int]
      BY <1>3, <3>1, StoredType
    <3> QED
      BY <1>1, <2>2, <3>2
  <2> QED
    BY <2>1, <2>2
<1>5. \A v \in Threads : v # u => text'[v] = text[v] /\ mem'[v] = mem[v]
  BY <1>1, <1>2 DEF TextInv, TextTypes
<1>6. text'[u] = text[u] \o t /\ mem'[u] = c
  BY <1>1, <1>2 DEF TextInv, TextTypes
<1>7. /\ currPos'[e] = Len(text'[u])
      /\ \A d \in TextPart!Entries : d # e => currPos'[d] = currPos[d]
  BY <1>1, <1>3, <1>6 DEF TextInv, TextTypes
<1> HIDE DEF c
<1>8. TextTypes'
  BY <1>1, <1>2, <1>3, <1>4 DEF TextInv, TextTypes, TextPart!Entries
<1>9. Taken'
  <2>1. ASSUME NEW v \in Threads, v # u, stream[v] # 0
        PROVE  stream[v] \in TextPart!Entries /\ stream[v] # e
    BY <1>1, <2>1 DEF TextInv, TextTypes, Taken, TextPart!Entries
  <2> QED
    BY <1>1, <1>5, <1>7, <2>1 DEF TextInv, Taken
<1>10. ASSUME Len(text'[u]) < BufSize
       PROVE  /\ \A i \in TextPart!Cells : i < Len(text'[u]) => mem'[u][i] = text'[u][i + 1]
              /\ Len(text'[u]) \in TextPart!Cells /\ mem'[u][Len(text'[u])] = 0
              /\ \A i \in TextPart!Cells : i >= BufSize => mem'[u][i] = -1
  <2> DEFINE s == text[u]
             b == mem[u]
             w == text'[u]
             k == Len(s) + Len(t)
  <2>1. Len(w) = k /\ w = s \o t /\ Len(s) < BufSize /\ n = Len(t) + 1 /\ k < BufSize
    BY <1>1, <1>3, <1>6, <1>10
  <2>2. mem'[u] = TextPart!Stored(b, Len(s), t, Len(t))
    BY <1>1, <1>3, <1>6, <2>1 DEF c
  <2>3. /\ \A i \in TextPart!Cells : i < Len(s) => b[i] = s[i + 1]
        /\ \A i \in TextPart!Cells : i >= BufSize => b[i] = -1
    BY <1>1, <2>1 DEF TextInv, Readable
  <2>4. Longer(mem'[u], b, s, t)
    <3>1. /\ b \in [TextPart!Cells -> Int] /\ s \in Words /\ t \in Words
          /\ Len(s) + Len(t) < MaxText
      BY <1>1, <1>3
    <3> HIDE DEF s, b
    <3> QED
      BY <2>2, <3>1, StoredText
  <2>5. TextPart!Cells \subseteq Nat /\ Len(s) \in Nat /\ k \in Nat
    BY <1>3 DEF TextPart!Cells
  <2>8. /\ k \in TextPart!Cells /\ mem'[u][k] = 0
        /\ \A i \in TextPart!Cells : i > k => mem'[u][i] = b[i]
        /\ \A i \in TextPart!Cells : i < Len(s) => mem'[u][i] = b[i] /\ w[i + 1] = s[i + 1]
        /\ \A i \in TextPart!Cells : Len(s) <= i /\ i < k => mem'[u][i] = w[i + 1]
    BY <2>1, <2>4 DEF Longer
  <2> HIDE DEF s, b, w, k
  <2>6. \A i \in TextPart!Cells : i < k => mem'[u][i] = w[i + 1]
    BY <2>1, <2>3, <2>4, <2>5, <2>8
  <2>7. \A i \in TextPart!Cells : i >= BufSize => mem'[u][i] = -1
    BY <2>1, <2>3, <2>5, <2>8
  <2> QED
    BY <2>1, <2>8, <2>6, <2>7 DEF w
<1>11. ASSUME NEW v \in Threads, stream'[v] # 0, Len(text'[v]) < BufSize
       PROVE  /\ \A i \in TextPart!Cells : i < Len(text'[v]) => mem'[v][i] = text'[v][i + 1]
              /\ Len(text'[v]) > 0 =>
                   Len(text'[v]) \in TextPart!Cells /\ mem'[v][Len(text'[v])] = 0
              /\ \A i \in TextPart!Cells : i >= BufSize => mem'[v][i] = -1
  <2>1. CASE v = u
    BY <1>10, <1>11, <2>1
  <2>2. CASE v # u
    BY <1>1, <1>5, <1>11, <2>2 DEF TextInv, Readable
  <2> QED
    BY <2>1, <2>2
<1>12. Readable'
  BY <1>11 DEF Readable
<1> QED
  BY <1>8, <1>9, <1>12 DEF TextInv

LEMMA TextStep ==
  ASSUME TextInv, TextPart!Next
  PROVE  TextInv'
<1> USE TextFacts
<1>1. PICK u \in Threads :
        \/ TextPart!EcosOpen(u) \/ TextPart!Win32Open(u) \/ TextPart!NucleusOpen(u)
        \/ TextPart!EcosClose(u) \/ TextPart!Win32Close(u) \/ TextPart!NucleusClose(u)
        \/ \E t \in Texts :
             TextPart!EcosFPrintf(u, t) \/ TextPart!Win32FPrintf(u, t) \/ TextPart!NucleusFPrintf(u, t)
  BY DEF TextPart!Next
<1>2. ASSUME NEW p, TextPart!Opens(p, u)
      PROVE  TextInv'
  BY <1>2, LookKept, TakeKept DEF TextPart!Opens
<1>3. CASE TextPart!EcosOpen(u) \/ TextPart!Win32Open(u) \/ TextPart!NucleusOpen(u)
  BY <1>2, <1>3 DEF TextPart!EcosOpen, TextPart!Win32Open, TextPart!NucleusOpen
<1>4. CASE TextPart!EcosClose(u) \/ TextPart!Win32Close(u) \/ TextPart!NucleusClose(u)
  BY <1>4, CloseKept DEF TextPart!EcosClose, TextPart!Win32Close, TextPart!NucleusClose
<1>5. ASSUME NEW t \in Texts, TextPart!EcosFPrintf(u, t)
      PROVE  TextInv'
  <2> DEFINE pos == currPos[stream[u]]
             n == IF pos > BufSize \/ Len(t) < BufSize - pos THEN Len(t) + 1 ELSE BufSize - pos
  <2>1. stream[u] # 0 /\ TextPart!Prints("ecos", u, t, n)
    BY <1>5 DEF TextPart!EcosFPrintf, TextPart!None
  <2>2. pos = Len(text[u]) /\ pos \in Nat /\ Len(t) \in Nat
    BY <2>1 DEF TextInv, TextTypes, Taken
  <2>3. n \in 0 .. Len(t) + 1 /\ (pos + Len(t) < BufSize => n = Len(t) + 1)
    BY <2>2
  <2> HIDE DEF n
  <2> QED
    BY <2>1, <2>2, <2>3, PrintKept
<1>6. ASSUME NEW t \in Texts, TextPart!Win32FPrintf(u, t) \/ TextPart!NucleusFPrintf(u, t)
      PROVE  TextInv'
  <2>1. Len(t) \in Nat /\ Len(t) + 1 \in 0 .. Len(t) + 1
    OBVIOUS
  <2> QED
    BY <1>6, <2>1, PrintKept DEF TextPart!Win32FPrintf, TextPart!NucleusFPrintf
<1> QED
  BY <1>1, <1>3, <1>4, <1>5, <1>6

LEMMA TextProperties ==
  ASSUME TextInv
  PROVE  TextPart!OneStream /\ TextPart!TextWhole
<1> USE TextFacts
<1>1. TextPart!OneStream
  BY DEF TextInv, Taken, TextPart!OneStream, TextPart!Openers, TextPart!None
<1>2. TextPart!TextWhole
  <2> SUFFICES ASSUME NEW u \in Threads, stream[u] # 0, Len(text[u]) \in 1 .. BufSize - 1
               PROVE  /\ \A i \in 1 .. Len(text[u]) : mem[u][i - 1] = text[u][i]
                      /\ mem[u][Len(text[u])] = 0
                      /\ \A i \in BufSize .. MaxText : mem[u][i] = -1
    BY DEF TextPart!TextWhole, TextPart!Openers, TextPart!None, TextPart!End, TextPart!Untouched
  <2> DEFINE n == Len(text[u])
  <2>1. /\ n \in 1 .. BufSize - 1 /\ n \in TextPart!Cells
        /\ \A i \in TextPart!Cells : i < n => mem[u][i] = text[u][i + 1]
        /\ mem[u][n] = 0
        /\ \A i \in TextPart!Cells : i >= BufSize => mem[u][i] = -1
    BY DEF TextInv, Readable
  <2> HIDE DEF n
  <2>2. ASSUME NEW i \in 1 .. n
        PROVE  mem[u][i - 1] = text[u][i]
    <3>1. i - 1 \in TextPart!Cells /\ i - 1 < n /\ (i - 1) + 1 = i
      BY <2>1 DEF TextPart!Cells
    <3> QED
      BY <2>1, <3>1
  <2>3. \A i \in BufSize .. MaxText : mem[u][i] = -1
    BY <2>1 DEF TextPart!Cells
  <2> QED
    BY <2>1, <2>2, <2>3 DEF n
<1> QED
  BY <1>1, <1>2

-----------------------------------------------------------------------------
(* Files of both kinds.                                                     *)

\* FilesKept and what LoadsFile needs, with what they need to last.
FilesInv ==
  /\ part = "files" => FileInv
  /\ part = "texts" => TextInv

LEMMA FilesInit == Init => FilesInv
BY FileInit, TextInit DEF Init, FilesInv

LEMMA FilesStep == FilesInv /\ [Next]_vars => FilesInv'
<1> SUFFICES ASSUME FilesInv, [Next]_vars PROVE FilesInv'
  OBVIOUS
<1>1. CASE UNCHANGED vars
  <2>1. UNCHANGED <<part, port, pc, told, streams, pBuffer, file, alloc, size, data, passed,
                    quiet, saved, faulty, currPos, found, stream, mem, text>>
    BY <1>1 DEF vars, shared, fileVars, textVars
  <2>2. FileInv => FileInv'
    BY <2>1 DEF FileInv, FileTypes, Held, Written, Loaded, Writers
  <2>3. TextInv => TextInv'
    BY <2>1 DEF TextInv, TextTypes, Taken, Readable
  <2> QED
    BY <2>1, <2>2, <2>3 DEF FilesInv
<1>2. CASE part = "files" /\ part' = "files" /\ \E t \in FileUsers : FilePart!FileCall(t)
  <2>1. PICK t \in Threads : FilePart!FileCall(t)
    BY <1>2 DEF FileUsers, Threads
  <2> QED
    BY <1>2, <2>1, FileStep DEF FilesInv
<1>3. CASE part = "texts" /\ part' = "texts" /\ TextPart!Next
  BY <1>3, TextStep DEF FilesInv
<1>4. CASE part' \notin {"files", "texts"}
  BY <1>4 DEF FilesInv
<1> QED
  BY <1>1, <1>2, <1>3, <1>4 DEF Next, Rest

\* The streams of files: however a call ends its stream is closed and its memory given back,
\* and what an undisturbed write has reported is what the file holds.  The files in memory:
\* no two users have the same entry, and each finds in its buffer what it has printed.  For
\* any threads, contents, entries, sizes of the buffer and texts, on every port.
THEOREM FilesRight == Spec => []FilesKept
<1>1. FilesInv => FilesKept
  BY FileProperties, TextProperties DEF FilesInv, FilesKept
<1> QED
  BY <1>1, FilesInit, FilesStep, PTL DEF Spec

\* A load that succeeds, undisturbed by a write, has read the whole file with a word behind
\* it, for any number of loads and writes at once.
THEOREM LoadsRight == Spec => LoadsFile
<1>1. ASSUME FilesInv, [Next]_vars
      PROVE  [part = "files" => FilePart!LoadIsFile]_pc
  <2>1. CASE UNCHANGED vars
    BY <2>1 DEF vars, shared
  <2>2. CASE part = "files" /\ \E t \in FileUsers : FilePart!FileCall(t)
    <3>1. PICK t \in Threads : FilePart!FileCall(t)
      BY <2>2 DEF FileUsers, Threads
    <3> QED
      BY <1>1, <2>2, <3>1, LoadWhole DEF FilesInv
  <2>3. CASE part # "files"
    BY <2>3
  <2> QED
    BY <1>1, <2>1, <2>2, <2>3 DEF Next
<1> QED
  BY <1>1, FilesInit, FilesStep, PTL DEF Spec, LoadsFile

-----------------------------------------------------------------------------
(* Sockets.                                                                 *)

Fds == SocketPart!Fds
Users == Pair \cup Single \cup Lone

Descriptors ==
  {d \in [kind : {"free", "new", "listening", "stream"},
          addr : Addresses \cup {SocketPart!Nowhere},
          conn : SocketPart!Conns \cup {0}, side : SocketPart!Sides \cup {0}] :
     d.kind = "stream" => d.conn \in SocketPart!Conns /\ d.side \in SocketPart!Sides}
Ways == [taken : Nat, sent : Nat, got : Nat, shut : BOOLEAN, ended : BOOLEAN]

SocketTypes ==
  /\ desc \in [Fds -> Descriptors]
  /\ queue \in [Fds -> Seq(SocketPart!Conns)]
  /\ sock \in [Users -> Fds \cup {0}] /\ conn \in [Users -> Fds \cup {0}]
  /\ bound \in [Users -> Addresses \cup {SocketPart!Nowhere}]

\* What the system keeps are the sockets of the threads, each of one of them.
Owned ==
  /\ \A f \in Fds : desc[f].kind # "free" <=> \E t \in Users : sock[t] = f \/ conn[t] = f
  /\ \A t, u \in Users : sock[t] # 0 /\ sock[t] = sock[u] => t = u
  /\ \A t, u \in Users : conn[t] # 0 /\ conn[t] = conn[u] => t = u
  /\ \A t, u \in Users : sock[t] # 0 => sock[t] # conn[u]
  /\ \A t \in Users : t \notin made => sock[t] = 0

\* What a thread was told of its address is so, and no address has two sockets.
Named ==
  port \notin SocketPart!Stubs \cup {"win32"} =>
    /\ \A t \in Users : bound[t] # SocketPart!Nowhere =>
         sock[t] \in Fds /\ desc[sock[t]].addr = bound[t]
    /\ \A f, g \in Fds : desc[f].addr # SocketPart!Nowhere /\ desc[f].addr = desc[g].addr => f = g

\* What was reported as sent is what the system took, and who has come to the end has all of it.
Right(x) == x \in Ways /\ x.sent = x.taken /\ (x.ended => x.shut /\ x.got = x.taken)

Streams ==
  /\ streams = [c \in SocketPart!Conns |-> [s \in SocketPart!Sides |-> streams[c][s]]]
  /\ \A c \in SocketPart!Conns, s \in SocketPart!Sides : Right(streams[c][s])

SocketInv == SocketTypes /\ Owned /\ Named /\ Streams

LEMMA SocketFacts ==
  /\ SocketPart!Threads = Users /\ 0 \notin Fds
  /\ Fds \subseteq Nat /\ SocketPart!Conns \subseteq Nat
BY ResourcesAssumption DEF ResourcesAssumption, SocketPart!PortSocketAssumption, SocketPart!Threads,
   Users, Fds, SocketPart!Fds, SocketPart!Conns

\* The lowest of some numbers is one of them: else the numbers that are not above any of them
\* would be as many as those among them that have one before them.
LEMMA LowestOf ==
  ASSUME NEW S \in SUBSET Nat, S # {}
  PROVE  SocketPart!Lowest(S) \in S
<1>1. CASE \E f \in S : \A g \in S : f <= g
  BY <1>1 DEF SocketPart!Lowest
<1>2. CASE ~\E f \in S : \A g \in S : f <= g
  <2> DEFINE B == {n \in Nat : \A g \in S : n <= g}
             next == [n \in B |-> n + 1]
  <2>1. PICK m : m \in S
    OBVIOUS
  <2>2. IsFiniteSet(B)
    <3>1. B \subseteq 0 .. m /\ m \in Nat
      BY <2>1
    <3>2. IsFiniteSet(0 .. m)
      BY <3>1, FS_Interval
    <3> HIDE DEF B
    <3> QED
      BY <3>1, <3>2, FS_Subset
  <2>3. 0 \in B
    OBVIOUS
  <2>4. next \in [B -> B \ {0}]
    <3> SUFFICES ASSUME NEW n \in B PROVE n + 1 \in B
      OBVIOUS
    <3>1. n \notin S
      BY <1>2
    <3>2. ASSUME NEW g \in S PROVE n + 1 <= g
      <4>1. g \in Nat /\ n \in Nat /\ n <= g /\ n # g
        BY <3>1
      <4> QED
        BY <4>1
    <3>3. n + 1 \in Nat
      OBVIOUS
    <3> QED
      BY <3>2, <3>3
  <2>5. IsFiniteSet(B \ {0}) /\ Cardinality(B \ {0}) < Cardinality(B)
    <3>1. Cardinality(B) \in Nat
      BY <2>2, FS_CardinalityType
    <3> HIDE DEF B, next
    <3>2. IsFiniteSet(B \ {0}) /\ Cardinality(B \ {0}) = Cardinality(B) - 1
      BY <2>2, <2>3, FS_RemoveElement
    <3> QED
      BY <3>1, <3>2
  <2>6. \E x, y \in B : x # y /\ next[x] = next[y]
    <3> HIDE DEF B, next
    <3> QED
      BY <2>2, <2>4, <2>5, FS_PigeonHole
  <2> QED
    BY <2>6
<1> QED
  BY <1>1, <1>2

LEMMA LowestFree ==
  /\ SocketPart!FreeFds # {} => SocketPart!Lowest(SocketPart!FreeFds) \in SocketPart!FreeFds
  /\ SocketPart!FreeConns # {} => SocketPart!Lowest(SocketPart!FreeConns) \in SocketPart!FreeConns
<1>1. SocketPart!FreeFds \in SUBSET Nat /\ SocketPart!FreeConns \in SUBSET Nat
  BY SocketFacts DEF SocketPart!FreeFds, SocketPart!FreeConns, Fds
<1> QED
  BY <1>1, LowestOf

LEMMA SocketInit == SocketPart!Init => SocketInv
<1> SUFFICES ASSUME SocketPart!Init PROVE SocketInv
  OBVIOUS
<1> USE SocketFacts DEF SocketPart!Init, Fds
<1>1. SocketTypes
  <2>1. \A f \in Fds : desc[f] = SocketPart!Free /\ queue[f] = << >>
    OBVIOUS
  <2> QED
    BY <2>1 DEF SocketTypes, Descriptors, SocketPart!Free, SocketPart!None, SocketPart!Nowhere
<1>2. Owned
  BY DEF Owned, SocketPart!Free, SocketPart!None
<1>3. Named
  BY DEF Named, SocketPart!Free
<1>4. Streams
  BY DEF Streams, Right, Ways, SocketPart!Unused
<1> QED
  BY <1>1, <1>2, <1>3, <1>4 DEF SocketInv

\* What leaves the table and its owners alone.
LEMMA SocketsRest ==
  ASSUME SocketInv, UNCHANGED <<port, desc, queue, sock, conn, bound>>, made \subseteq made',
         Streams'
  PROVE  SocketInv'
BY DEF SocketInv, SocketTypes, Owned, Named

\* Sockets that the system ends leave the streams of others as they are.
LEMMA GoneStreams ==
  ASSUME Streams, NEW S, SocketPart!Gone(S)
  PROVE  Streams'
<1> DEFINE pending == {c \in SocketPart!Conns :
                         \E f \in S : \E i \in 1 .. Len(queue[f]) : queue[f][i] = c}
           ends == {e \in SocketPart!Conns \X SocketPart!Sides :
                      \E f \in S : desc[f].conn = e[1] /\ desc[f].side = e[2]}
           over == {c \in SocketPart!Conns : \A s \in SocketPart!Sides :
                      SocketPart!Open(c, s) => <<c, s>> \in ends \/ c \in pending}
<1>1. streams' = [c \in SocketPart!Conns |-> [s \in SocketPart!Sides |->
        IF c \in over THEN SocketPart!Unused
        ELSE [streams[c][s] EXCEPT !.shut = @ \/ <<c, s>> \in ends]]]
  BY DEF SocketPart!Gone
<1> HIDE DEF over, ends, pending
<1>2. ASSUME NEW c \in SocketPart!Conns, NEW s \in SocketPart!Sides
      PROVE  Right(streams'[c][s])
  <2> DEFINE x == streams[c][s]
             b == x.shut \/ <<c, s>> \in ends
  <2>1. streams'[c][s] = SocketPart!Unused \/ streams'[c][s] = [x EXCEPT !.shut = b]
    BY <1>1
  <2>2. b \in BOOLEAN /\ Right(x) /\ (x.shut => b)
    BY DEF Streams, Right, Ways
  <2> HIDE DEF x, b
  <2>3. Right([x EXCEPT !.shut = b])
    BY <2>2 DEF Right, Ways
  <2>4. Right(SocketPart!Unused)
    BY DEF Right, Ways, SocketPart!Unused
  <2> QED
    BY <2>1, <2>3, <2>4
<1>3. streams' = [c \in SocketPart!Conns |-> [s \in SocketPart!Sides |-> streams'[c][s]]]
  BY <1>1
<1> QED
  BY <1>2, <1>3 DEF Streams

\* Their owners forget them.
LEMMA Released ==
  ASSUME SocketInv, NEW S \in SUBSET Fds, SocketPart!Gone(S), port' = port,
         sock' \in [Users -> Fds \cup {0}], conn' \in [Users -> Fds \cup {0}],
         bound' \in [Users -> Addresses \cup {SocketPart!Nowhere}],
         \A t \in Users : /\ sock'[t] = IF sock[t] \in S THEN 0 ELSE sock[t]
                          /\ conn'[t] = IF conn[t] \in S THEN 0 ELSE conn[t]
                          /\ t \notin made' => sock'[t] = 0,
         port \notin SocketPart!Stubs \cup {"win32"} => \A t \in Users :
           bound'[t] # SocketPart!Nowhere => bound'[t] = bound[t] /\ sock[t] \notin S
  PROVE  SocketInv'
<1>0. 0 \notin Fds
  BY SocketFacts
<1>1. \A f \in Fds : /\ desc'[f] = IF f \in S THEN SocketPart!Free ELSE desc[f]
                     /\ queue'[f] = IF f \in S THEN << >> ELSE queue[f]
  BY DEF SocketPart!Gone, Fds
<1>2. desc' = [f \in Fds |-> desc'[f]] /\ queue' = [f \in Fds |-> queue'[f]]
  BY DEF SocketPart!Gone, Fds
<1>3. SocketTypes'
  <2>1. ASSUME NEW f \in Fds PROVE queue'[f] \in Seq(SocketPart!Conns)
    <3>1. << >> \in Seq(SocketPart!Conns) /\ queue[f] \in Seq(SocketPart!Conns)
      BY DEF SocketInv, SocketTypes
    <3> QED
      BY <1>1, <3>1
  <2>2. ASSUME NEW f \in Fds PROVE desc'[f] \in Descriptors
    <3>1. SocketPart!Free \in Descriptors /\ desc[f] \in Descriptors
      BY DEF SocketInv, SocketTypes, Descriptors, SocketPart!Free, SocketPart!None
    <3> QED
      BY <1>1, <3>1
  <2> QED
    BY <1>2, <2>1, <2>2 DEF SocketTypes
<1>4. Owned'
  <2>1. ASSUME NEW f \in Fds
        PROVE  desc'[f].kind # "free" <=> f \notin S /\ desc[f].kind # "free"
    BY <1>1 DEF SocketPart!Free
  <2>2. ASSUME NEW f \in Fds, NEW t \in Users
        PROVE  sock'[t] = f \/ conn'[t] = f <=> f \notin S /\ (sock[t] = f \/ conn[t] = f)
    BY <1>0
  <2>3. /\ \A t, u \in Users : sock'[t] # 0 /\ sock'[t] = sock'[u] => t = u
        /\ \A t, u \in Users : conn'[t] # 0 /\ conn'[t] = conn'[u] => t = u
        /\ \A t, u \in Users : sock'[t] # 0 => sock'[t] # conn'[u]
    BY DEF SocketInv, Owned
  <2>4. \A f \in Fds : desc[f].kind # "free" <=> \E t \in Users : sock[t] = f \/ conn[t] = f
    BY DEF SocketInv, Owned
  <2>5. \A f \in Fds : desc'[f].kind # "free" <=> \E t \in Users : sock'[t] = f \/ conn'[t] = f
    BY <2>1, <2>2, <2>4
  <2> QED
    BY <2>3, <2>5 DEF Owned
<1>5. Named'
  <2> SUFFICES ASSUME port \notin SocketPart!Stubs \cup {"win32"}
               PROVE  /\ \A t \in Users : bound'[t] # SocketPart!Nowhere =>
                           sock'[t] \in Fds /\ desc'[sock'[t]].addr = bound'[t]
                      /\ \A f, g \in Fds : desc'[f].addr # SocketPart!Nowhere
                           /\ desc'[f].addr = desc'[g].addr => f = g
    BY DEF Named
  <2>0. /\ \A t \in Users : bound[t] # SocketPart!Nowhere =>
             sock[t] \in Fds /\ desc[sock[t]].addr = bound[t]
        /\ \A f, g \in Fds : desc[f].addr # SocketPart!Nowhere
             /\ desc[f].addr = desc[g].addr => f = g
    BY DEF SocketInv, Named
  <2>1. \A f \in Fds : f \in S => desc'[f].addr = SocketPart!Nowhere
    BY <1>1 DEF SocketPart!Free
  <2>2. \A f \in Fds \ S : desc'[f] = desc[f]
    BY <1>1
  <2> QED
    BY <2>0, <2>1, <2>2
<1> QED
  BY <1>3, <1>4, <1>5, GoneStreams DEF SocketInv

\* A thread gets a socket, of its own or by an accept.
LEMMA Got ==
  ASSUME SocketInv, NEW f \in SocketPart!FreeFds, NEW t \in Users, NEW d,
         d \in Descriptors, d.kind # "free", d.addr = SocketPart!Nowhere,
         desc' = [desc EXCEPT ![f] = d], queue' \in [Fds -> Seq(SocketPart!Conns)],
         \/ /\ sock[t] = 0 /\ sock' = [sock EXCEPT ![t] = f] /\ conn' = conn
            /\ made' = made \cup {t}
         \/ conn[t] = 0 /\ conn' = [conn EXCEPT ![t] = f] /\ sock' = sock /\ made' = made,
         UNCHANGED <<port, streams, bound>>
  PROVE  SocketInv'
<1>0. 0 \notin Fds
  BY SocketFacts
<1>1. f \in Fds /\ desc[f].kind = "free" /\ \A u \in Users : sock[u] # f /\ conn[u] # f
  BY DEF SocketInv, Owned, SocketPart!FreeFds, Fds
<1>2. /\ desc' = [g \in Fds |-> desc'[g]] /\ desc'[f] = d
      /\ \A g \in Fds \ {f} : desc'[g] = desc[g]
  BY <1>1 DEF SocketInv, SocketTypes
<1>5. ASSUME port \notin SocketPart!Stubs \cup {"win32"}
      PROVE  \A g, h \in Fds : desc'[g].addr # SocketPart!Nowhere
               /\ desc'[g].addr = desc'[h].addr => g = h
  BY <1>2, <1>5 DEF SocketInv, Named
<1>3. SocketTypes'
  <2>1. \A g \in Fds : desc'[g] \in Descriptors
    BY <1>2 DEF SocketInv, SocketTypes
  <2>2. sock' \in [Users -> Fds \cup {0}] /\ conn' \in [Users -> Fds \cup {0}]
    BY <1>1 DEF SocketInv, SocketTypes
  <2>3. bound' \in [Users -> Addresses \cup {SocketPart!Nowhere}]
    BY DEF SocketInv, SocketTypes
  <2> QED
    BY <1>2, <2>1, <2>2, <2>3 DEF SocketTypes
<1>4. CASE /\ sock[t] = 0 /\ sock' = [sock EXCEPT ![t] = f] /\ conn' = conn /\ made' = made \cup {t}
  <2>1. sock'[t] = f /\ \A u \in Users \ {t} : sock'[u] = sock[u]
    BY <1>4 DEF SocketInv, SocketTypes
  <2>2. Owned'
    <3> USE DEF SocketInv, Owned
    <3>1. \A g \in Fds : desc'[g].kind # "free" <=> \E u \in Users : sock'[u] = g \/ conn'[u] = g
      BY <1>0, <1>1, <1>2, <1>4, <2>1
    <3>2. \A u, v \in Users : sock'[u] # 0 /\ sock'[u] = sock'[v] => u = v
      BY <1>0, <1>1, <2>1
    <3>3. \A u, v \in Users : conn'[u] # 0 /\ conn'[u] = conn'[v] => u = v
      BY <1>4
    <3>4. \A u, v \in Users : sock'[u] # 0 => sock'[u] # conn'[v]
      BY <1>0, <1>1, <1>4, <2>1
    <3>5. \A u \in Users : u \notin made' => sock'[u] = 0
      BY <1>4, <2>1
    <3> QED
      BY <3>1, <3>2, <3>3, <3>4, <3>5
  <2>3. ASSUME port \notin SocketPart!Stubs \cup {"win32"}, NEW u \in Users,
               bound[u] # SocketPart!Nowhere
        PROVE  sock'[u] \in Fds /\ desc'[sock'[u]].addr = bound[u]
    <3>1. sock[u] \in Fds /\ desc[sock[u]].addr = bound[u]
      BY <2>3 DEF SocketInv, Named
    <3>2. u # t /\ sock[u] # f
      BY <3>1, <1>0, <1>1, <1>4
    <3> QED
      BY <3>1, <3>2, <2>1, <1>2
  <2> QED
    BY <1>3, <1>5, <2>2, <2>3 DEF SocketInv, Streams, Named
<1>6. CASE conn[t] = 0 /\ conn' = [conn EXCEPT ![t] = f] /\ sock' = sock /\ made' = made
  <2>1. conn'[t] = f /\ \A u \in Users \ {t} : conn'[u] = conn[u]
    BY <1>6 DEF SocketInv, SocketTypes
  <2>2. Owned'
    <3> USE DEF SocketInv, Owned
    <3>1. \A g \in Fds : desc'[g].kind # "free" <=> \E u \in Users : sock'[u] = g \/ conn'[u] = g
      BY <1>0, <1>1, <1>2, <1>6, <2>1
    <3>2. \A u, v \in Users : sock'[u] # 0 /\ sock'[u] = sock'[v] => u = v
      BY <1>6
    <3>3. \A u, v \in Users : conn'[u] # 0 /\ conn'[u] = conn'[v] => u = v
      BY <1>0, <1>1, <2>1
    <3>4. \A u, v \in Users : sock'[u] # 0 => sock'[u] # conn'[v]
      BY <1>0, <1>1, <1>6, <2>1
    <3>5. \A u \in Users : u \notin made' => sock'[u] = 0
      BY <1>6
    <3> QED
      BY <3>1, <3>2, <3>3, <3>4, <3>5
  <2>3. ASSUME port \notin SocketPart!Stubs \cup {"win32"}, NEW u \in Users,
               bound[u] # SocketPart!Nowhere
        PROVE  sock'[u] \in Fds /\ desc'[sock'[u]].addr = bound[u]
    <3>1. sock[u] \in Fds /\ desc[sock[u]].addr = bound[u]
      BY <2>3 DEF SocketInv, Named
    <3> QED
      BY <3>1, <1>1, <1>2, <1>6
  <2> QED
    BY <1>3, <1>5, <2>2, <2>3 DEF SocketInv, Streams, Named
<1> QED
  BY <1>4, <1>6

\* A socket changes, but for its owner and its address.
LEMMA Altered ==
  ASSUME SocketInv, NEW f \in Fds, desc[f].kind # "free", NEW d \in Descriptors, d.kind # "free",
         d.addr = desc[f].addr, desc' = [desc EXCEPT ![f] = d],
         queue' \in [Fds -> Seq(SocketPart!Conns)],
         UNCHANGED <<port, made, sock, conn, bound>>, Streams'
  PROVE  SocketInv'
<1>1. /\ desc' = [g \in Fds |-> desc'[g]] /\ desc'[f] = d
      /\ \A g \in Fds \ {f} : desc'[g] = desc[g]
  BY DEF SocketInv, SocketTypes
<1>2. \A g \in Fds : /\ desc'[g] \in Descriptors /\ desc'[g].addr = desc[g].addr
                     /\ desc'[g].kind # "free" <=> desc[g].kind # "free"
  BY <1>1 DEF SocketInv, SocketTypes
<1>3. SocketTypes'
  BY <1>1, <1>2 DEF SocketInv, SocketTypes
<1>4. Owned'
  BY <1>2 DEF SocketInv, Owned
<1>5. Named'
  BY <1>2 DEF SocketInv, Named
<1> QED
  BY <1>3, <1>4, <1>5 DEF SocketInv

\* One way of a connection changes.
LEMMA OneWay ==
  ASSUME Streams, NEW c \in SocketPart!Conns, NEW s \in SocketPart!Sides, NEW y, Right(y),
         streams' = [streams EXCEPT ![c][s] = y]
  PROVE  Streams'
<1>1. /\ streams'[c][s] = y
      /\ streams' = [e \in SocketPart!Conns |-> [w \in SocketPart!Sides |-> streams'[e][w]]]
      /\ \A e \in SocketPart!Conns, w \in SocketPart!Sides :
           <<e, w>> # <<c, s>> => streams'[e][w] = streams[e][w]
  BY DEF Streams
<1>2. ASSUME NEW e \in SocketPart!Conns, NEW w \in SocketPart!Sides PROVE Right(streams'[e][w])
  <2>1. CASE e = c /\ w = s
    BY <1>1, <2>1
  <2>2. CASE ~(e = c /\ w = s)
    <3>1. streams'[e][w] = streams[e][w]
      BY <1>1, <2>2
    <3> QED
      BY <3>1 DEF Streams
  <2> QED
    BY <2>1, <2>2
<1> QED
  BY <1>1, <1>2 DEF Streams

\* What is shut, sent, received or ended.
LEMMA Ways4 ==
  ASSUME NEW x, Right(x), NEW k \in Nat
  PROVE  /\ Right([x EXCEPT !.shut = TRUE])
         /\ ~x.shut => Right([x EXCEPT !.taken = x.taken + k, !.sent = x.sent + k])
         /\ x.got # x.taken => Right([x EXCEPT !.got = x.got + k])
         /\ x.shut /\ x.got = x.taken => Right([x EXCEPT !.ended = TRUE])
<1> USE DEF Right, Ways
<1>1. Right([x EXCEPT !.shut = TRUE])
  OBVIOUS
<1>2. ASSUME ~x.shut PROVE Right([x EXCEPT !.taken = x.taken + k, !.sent = x.sent + k])
  <2>1. [x EXCEPT !.taken = x.taken + k, !.sent = x.sent + k] \in Ways
    <3> DEFINE z == [x EXCEPT !.taken = x.taken + k]
    <3>1. z \in Ways /\ x.sent + k \in Nat
      OBVIOUS
    <3>2. [x EXCEPT !.taken = x.taken + k, !.sent = x.sent + k] = [z EXCEPT !.sent = x.sent + k]
      OBVIOUS
    <3> HIDE DEF z
    <3> QED
      BY <3>1, <3>2
  <2>2. ~x.ended
    BY <1>2
  <2> DEFINE y == [x EXCEPT !.taken = x.taken + k, !.sent = x.sent + k]
  <2>3. y.taken = x.taken + k /\ y.sent = x.sent + k /\ y.ended = x.ended
    OBVIOUS
  <2> QED
    BY <2>1, <2>2, <2>3
<1>3. ASSUME x.got # x.taken PROVE Right([x EXCEPT !.got = x.got + k])
  BY <1>3
<1>4. ASSUME x.shut, x.got = x.taken PROVE Right([x EXCEPT !.ended = TRUE])
  BY <1>4
<1> QED
  BY <1>1, <1>2, <1>3, <1>4

\* The connection of a socket of a thread.
LEMMA OfConnected ==
  ASSUME SocketInv, NEW t \in Users, NEW f \in SocketPart!Connected(t)
  PROVE  f \in Fds /\ desc[f].conn \in SocketPart!Conns /\ desc[f].side \in SocketPart!Sides
<1>1. f \in Fds /\ desc[f].kind = "stream"
  BY DEF SocketInv, SocketTypes, SocketPart!Connected, SocketPart!Used, SocketPart!None
<1>2. desc[f] \in Descriptors
  BY <1>1 DEF SocketInv, SocketTypes
<1> QED
  BY <1>1, <1>2 DEF Descriptors

LEMMA ShutdownKeeps ==
  ASSUME SocketInv, NEW t \in Users, SocketPart!SocketShutdown(t)
  PROVE  SocketInv'
<1>1. PICK f \in SocketPart!Connected(t) :
        /\ streams' = [streams EXCEPT ![desc[f].conn][desc[f].side].shut = TRUE]
        /\ UNCHANGED <<port, desc, queue, made, sock, conn, bound>>
  BY DEF SocketPart!SocketShutdown, SocketPart!given
<1> DEFINE c == desc[f].conn
           s == desc[f].side
           y == [streams[c][s] EXCEPT !.shut = TRUE]
<1>2. c \in SocketPart!Conns /\ s \in SocketPart!Sides
  BY OfConnected
<1>3. streams' = [streams EXCEPT ![c][s] = y]
  BY <1>1
<1>4. Streams /\ Right(streams[c][s])
  BY <1>2 DEF SocketInv, Streams
<1>5. Right(y)
  BY <1>4, Ways4, 0 \in Nat
<1> HIDE DEF y, c, s
<1>6. Streams'
  BY <1>2, <1>3, <1>4, <1>5, OneWay
<1> QED
  BY <1>1, <1>6, SocketsRest

LEMMA SendKeeps ==
  ASSUME SocketInv, NEW t \in Users, NEW n \in Nat, SocketPart!SocketSend(t, n)
  PROVE  SocketInv'
<1>1. PICK f \in SocketPart!Connected(t), k \in 1 .. n :
        /\ ~streams[desc[f].conn][desc[f].side].shut
        /\ streams' = [streams EXCEPT ![desc[f].conn][desc[f].side].taken = @ + k,
                                      ![desc[f].conn][desc[f].side].sent = @ + k]
        /\ UNCHANGED <<port, desc, queue, made, sock, conn, bound>>
  BY DEF SocketPart!SocketSend, SocketPart!SendResult, SocketPart!given
<1> DEFINE c == desc[f].conn
           s == desc[f].side
           x == streams[c][s]
           y == [x EXCEPT !.taken = x.taken + k, !.sent = x.sent + k]
<1>2. c \in SocketPart!Conns /\ s \in SocketPart!Sides
  BY OfConnected
<1>3. ~x.shut /\ streams' = [streams EXCEPT ![c][s].taken = @ + k, ![c][s].sent = @ + k]
  BY <1>1
<1>4. Streams /\ Right(x)
  BY <1>2 DEF SocketInv, Streams
<1>5. streams' = [streams EXCEPT ![c][s] = y]
  <2>1. /\ streams = [e \in SocketPart!Conns |-> [w \in SocketPart!Sides |-> streams[e][w]]]
        /\ streams[c][s] \in Ways
    BY <1>4 DEF Streams, Right
  <2> HIDE DEF c, s
  <2> QED
    BY <1>2, <1>3, <2>1 DEF Ways
<1>6. Right(y)
  <2>1. k \in Nat
    OBVIOUS
  <2> HIDE DEF x
  <2> QED
    BY <1>3, <1>4, <2>1, Ways4
<1> HIDE DEF y, c, s
<1>7. Streams'
  BY <1>2, <1>4, <1>5, <1>6, OneWay
<1> QED
  BY <1>1, <1>7, SocketsRest

LEMMA RecvKeeps ==
  ASSUME SocketInv, NEW t \in Users, NEW n \in Nat, SocketPart!SocketRecv(t, n)
  PROVE  SocketInv'
<1>1. PICK f \in SocketPart!Connected(t) :
        LET c == desc[f].conn  s == SocketPart!Other(desc[f].side)
        IN /\ streams[c][s].got = streams[c][s].taken => streams[c][s].shut
           /\ IF streams[c][s].got = streams[c][s].taken
              THEN streams' = [streams EXCEPT ![c][s].ended = TRUE]
              ELSE \E k \in 1 .. n :
                     /\ streams[c][s].got + k <= streams[c][s].taken
                     /\ streams' = [streams EXCEPT ![c][s].got = @ + k]
           /\ UNCHANGED <<port, desc, queue, made, sock, conn, bound>>
  BY DEF SocketPart!SocketRecv, SocketPart!given
<1> DEFINE c == desc[f].conn
           s == SocketPart!Other(desc[f].side)
           x == streams[c][s]
<1>2. c \in SocketPart!Conns /\ s \in SocketPart!Sides
  BY OfConnected DEF SocketPart!Other, SocketPart!Sides
<1>3. Streams /\ Right(x)
  BY <1>2 DEF SocketInv, Streams
<1>4. PICK y : Right(y) /\ streams' = [streams EXCEPT ![c][s] = y]
  <2>1. CASE x.got = x.taken
    <3>1. x.shut /\ streams' = [streams EXCEPT ![c][s] = [x EXCEPT !.ended = TRUE]]
      BY <1>1, <2>1
    <3> HIDE DEF x
    <3>2. Right([x EXCEPT !.ended = TRUE])
      BY <1>3, <2>1, <3>1, Ways4, 0 \in Nat
    <3> HIDE DEF c, s
    <3> QED
      BY <3>1, <3>2
  <2>2. CASE x.got # x.taken
    <3>1. PICK k \in 1 .. n : streams' = [streams EXCEPT ![c][s] = [x EXCEPT !.got = x.got + k]]
      BY <1>1, <2>2
    <3>2. k \in Nat
      OBVIOUS
    <3> HIDE DEF x
    <3>3. Right([x EXCEPT !.got = x.got + k])
      BY <1>3, <2>2, <3>2, Ways4
    <3> HIDE DEF c, s
    <3> QED
      BY <3>1, <3>3
  <2> QED
    BY <2>1, <2>2
<1>5. UNCHANGED <<port, desc, queue, made, sock, conn, bound>>
  BY <1>1
<1> HIDE DEF c, s, x
<1>6. Streams'
  BY <1>2, <1>3, <1>4, OneWay
<1> QED
  BY <1>5, <1>6, SocketsRest

LEMMA CreatedKeeps ==
  ASSUME SocketInv, NEW t \in Users, NEW f, f = 0 \/ f \in SocketPart!FreeFds,
         SocketPart!Created(t, f)
  PROVE  SocketInv'
<1>1. /\ t \notin made /\ made' = made \cup {t} /\ sock' = [sock EXCEPT ![t] = f]
      /\ desc' = IF f = 0 THEN desc ELSE [desc EXCEPT ![f] = [SocketPart!Free EXCEPT !.kind = "new"]]
      /\ UNCHANGED <<port, queue, streams, conn, bound>>
  BY DEF SocketPart!Created, SocketPart!None
<1>2. sock[t] = 0
  BY <1>1 DEF SocketInv, Owned
<1>3. Streams'
  BY <1>1 DEF SocketInv, Streams
<1>4. CASE f = 0
  <2>1. sock' = sock
    BY <1>1, <1>2, <1>4 DEF SocketInv, SocketTypes
  <2> QED
    BY <1>1, <1>3, <1>4, <2>1, SocketsRest
<1>5. CASE f \in SocketPart!FreeFds
  <2> DEFINE d == [SocketPart!Free EXCEPT !.kind = "new"]
  <2>1. d \in Descriptors /\ d.kind # "free" /\ d.addr = SocketPart!Nowhere
    BY DEF Descriptors, SocketPart!Free, SocketPart!None
  <2>2. f # 0
    BY <1>5, SocketFacts DEF SocketPart!FreeFds, Fds
  <2>3. desc' = [desc EXCEPT ![f] = d]
    BY <1>1, <2>2
  <2>4. queue' \in [Fds -> Seq(SocketPart!Conns)]
    BY <1>1 DEF SocketInv, SocketTypes
  <2> HIDE DEF d
  <2> QED
    BY <1>1, <1>2, <1>5, <2>1, <2>3, <2>4, Got
<1> QED
  BY <1>4, <1>5

LEMMA CreateKeeps ==
  ASSUME SocketInv, NEW t \in Users,
         SocketPart!SocketCreate(t) \/ SocketPart!DrvCreate(t) \/ SocketPart!Created(t, 0)
  PROVE  SocketInv'
<1>1. CASE SocketPart!SocketCreate(t)
  BY <1>1, LowestFree, CreatedKeeps DEF SocketPart!SocketCreate
<1>2. CASE SocketPart!Created(t, 0)
  BY <1>2, CreatedKeeps
<1> QED
  BY <1>1, <1>2 DEF SocketPart!DrvCreate, SocketPart!None

LEMMA CloseKeeps ==
  ASSUME SocketInv, NEW t \in Users, SocketPart!SocketClose(t)
  PROVE  SocketInv'
<1> DEFINE S == {sock[t]} \ {0}
<1>1. /\ SocketPart!Gone(S) /\ made' = made \ {t}
      /\ sock' = [sock EXCEPT ![t] = 0] /\ bound' = [bound EXCEPT ![t] = SocketPart!Nowhere]
      /\ UNCHANGED <<port, conn>>
  BY DEF SocketPart!SocketClose, SocketPart!None
<1>2. SocketTypes /\ Owned
  BY DEF SocketInv
<1>3. S \in SUBSET Fds
  BY <1>2 DEF SocketTypes
<1>4. /\ sock' \in [Users -> Fds \cup {0}] /\ conn' \in [Users -> Fds \cup {0}]
      /\ bound' \in [Users -> Addresses \cup {SocketPart!Nowhere}]
  BY <1>1, <1>2 DEF SocketTypes
<1>5. ASSUME NEW u \in Users
      PROVE  /\ sock'[u] = IF sock[u] \in S THEN 0 ELSE sock[u]
             /\ conn'[u] = IF conn[u] \in S THEN 0 ELSE conn[u]
             /\ u \notin made' => sock'[u] = 0
  <2>1. sock'[t] = 0 /\ (u # t => sock'[u] = sock[u])
    BY <1>1, <1>2 DEF SocketTypes
  <2>2. (sock[u] \in S => u = t) /\ conn[u] \notin S /\ (u \notin made => sock[u] = 0)
    BY <1>2 DEF Owned
  <2> QED
    BY <1>1, <2>1, <2>2
<1>6. ASSUME NEW u \in Users, bound'[u] # SocketPart!Nowhere, Named,
             port \notin SocketPart!Stubs \cup {"win32"}
      PROVE  bound'[u] = bound[u] /\ sock[u] \notin S
  <2>1. u # t /\ bound'[u] = bound[u]
    BY <1>1, <1>2, <1>6 DEF SocketTypes
  <2> QED
    BY <1>2, <2>1 DEF Owned
<1>7. Named
  BY DEF SocketInv
<1> HIDE DEF S
<1> QED
  BY <1>1, <1>3, <1>4, <1>5, <1>6, <1>7, Released

LEMMA CloseAcceptedKeeps ==
  ASSUME SocketInv, NEW t \in Users, SocketPart!CloseAccepted(t)
  PROVE  SocketInv'
<1> DEFINE S == {conn[t]}
<1>1. /\ conn[t] # 0 /\ SocketPart!Gone(S) /\ conn' = [conn EXCEPT ![t] = 0]
      /\ UNCHANGED <<port, made, sock, bound>>
  BY DEF SocketPart!CloseAccepted, SocketPart!None
<1>2. SocketTypes /\ Owned
  BY DEF SocketInv
<1>3. S \in SUBSET Fds
  BY <1>1, <1>2 DEF SocketTypes
<1>4. /\ sock' \in [Users -> Fds \cup {0}] /\ conn' \in [Users -> Fds \cup {0}]
      /\ bound' \in [Users -> Addresses \cup {SocketPart!Nowhere}]
  BY <1>1, <1>2 DEF SocketTypes
<1>5. ASSUME NEW u \in Users
      PROVE  /\ sock'[u] = IF sock[u] \in S THEN 0 ELSE sock[u]
             /\ conn'[u] = IF conn[u] \in S THEN 0 ELSE conn[u]
             /\ u \notin made' => sock'[u] = 0
             /\ sock[u] \notin S
  <2>1. conn'[t] = 0 /\ (u # t => conn'[u] = conn[u])
    BY <1>1, <1>2 DEF SocketTypes
  <2>2. (conn[u] \in S => u = t) /\ sock[u] \notin S /\ (u \notin made => sock[u] = 0)
    BY <1>1, <1>2 DEF Owned
  <2> QED
    BY <1>1, <2>1, <2>2
<1>6. \A u \in Users : bound'[u] # SocketPart!Nowhere => bound'[u] = bound[u] /\ sock[u] \notin S
  BY <1>1, <1>5
<1> HIDE DEF S
<1> QED
  BY <1>1, <1>3, <1>4, <1>5, <1>6, Released

LEMMA CleanupKeeps ==
  ASSUME SocketInv, NEW t \in Users, SocketPart!SocketCleanup(t)
  PROVE  SocketInv'
<1>1. CASE port = "win32" /\ up' = {}
  <2> DEFINE S == {f \in Fds : SocketPart!Used(f)}
  <2>1. /\ SocketPart!Gone(S) /\ made' = {} /\ port' = port
        /\ sock' = [u \in Users |-> 0] /\ conn' = [u \in Users |-> 0]
        /\ bound' = [u \in Users |-> SocketPart!Nowhere]
    BY <1>1, SocketFacts DEF SocketPart!SocketCleanup, SocketPart!Forgets, SocketPart!None, Fds
  <2>2. S \in SUBSET Fds
    OBVIOUS
  <2>3. ASSUME NEW u \in Users
        PROVE  /\ sock'[u] = IF sock[u] \in S THEN 0 ELSE sock[u]
               /\ conn'[u] = IF conn[u] \in S THEN 0 ELSE conn[u]
               /\ u \notin made' => sock'[u] = 0
    <3>1. /\ sock[u] \in Fds \cup {0} /\ conn[u] \in Fds \cup {0}
          /\ sock[u] \in Fds => desc[sock[u]].kind # "free"
          /\ conn[u] \in Fds => desc[conn[u]].kind # "free"
      BY DEF SocketInv, SocketTypes, Owned
    <3>2. (sock[u] \in S \/ sock[u] = 0) /\ (conn[u] \in S \/ conn[u] = 0)
      BY <3>1, SocketFacts DEF SocketPart!Used, SocketPart!None
    <3> QED
      BY <2>1, <3>2
  <2>4. /\ sock' \in [Users -> Fds \cup {0}] /\ conn' \in [Users -> Fds \cup {0}]
        /\ bound' \in [Users -> Addresses \cup {SocketPart!Nowhere}]
    BY <2>1
  <2>5. \A u \in Users : bound'[u] = SocketPart!Nowhere
    BY <2>1
  <2> HIDE DEF S
  <2> QED
    BY <2>1, <2>2, <2>3, <2>4, <2>5, Released
<1>2. CASE ~(port = "win32" /\ up' = {})
  <2>1. UNCHANGED <<port, desc, queue, streams, made, sock, conn, bound>>
    BY <1>2 DEF SocketPart!SocketCleanup, SocketPart!noNet, SocketPart!given
  <2>2. Streams'
    BY <2>1 DEF SocketInv, Streams
  <2> QED
    BY <2>1, <2>2, SocketsRest
<1> QED
  BY <1>1, <1>2

\* A socket gets an address; Windows says so also where it is another's.
LEMMA BindsKeeps ==
  ASSUME SocketInv, NEW t \in Users, NEW a \in Addresses, NEW inUse \in BOOLEAN,
         inUse => port = "win32", SocketPart!Binds(t, a, inUse)
  PROVE  SocketInv'
<1> DEFINE f == sock[t]
           d == [desc[f] EXCEPT !.addr = a]
<1>1. /\ f # 0 /\ desc[f].kind = "new" /\ (inUse <=> SocketPart!Taken(a))
      /\ bound' = [bound EXCEPT ![t] = a]
      /\ desc' = IF inUse THEN desc ELSE [desc EXCEPT ![f] = d]
      /\ UNCHANGED <<port, queue, streams, made, sock, conn>>
  BY DEF SocketPart!Binds, SocketPart!Used, SocketPart!None
<1>2. SocketTypes /\ Owned /\ Named /\ Streams
  BY DEF SocketInv
<1>3. f \in Fds /\ bound' \in [Users -> Addresses \cup {SocketPart!Nowhere}]
  BY <1>1, <1>2 DEF SocketTypes
<1>4. d \in Descriptors /\ d.kind = desc[f].kind /\ d.addr = a
  <2>1. desc[f] \in Descriptors
    BY <1>2, <1>3 DEF SocketTypes
  <2> QED
    BY <1>1, <2>1 DEF Descriptors
<1> HIDE DEF d
<1>5. CASE inUse
  <2>1. port = "win32" /\ desc' = desc
    BY <1>1, <1>5
  <2> HIDE DEF f
  <2>2. SocketTypes'
    BY <1>1, <1>2, <1>3, <2>1 DEF SocketTypes
  <2> QED
    BY <1>1, <1>2, <2>1, <2>2 DEF SocketInv, Owned, Named, Streams
<1>6. CASE ~inUse
  <2>1. /\ desc' = [g \in Fds |-> desc'[g]] /\ desc'[f] = d
        /\ \A g \in Fds \ {f} : desc'[g] = desc[g]
    BY <1>1, <1>2, <1>3, <1>6 DEF SocketTypes
  <2>2. \A g \in Fds : desc[g].addr # a
    BY <1>1, <1>6 DEF SocketPart!Taken, Fds
  <2>3. SocketTypes'
    <3>1. \A g \in Fds : desc'[g] \in Descriptors
      BY <1>2, <1>4, <2>1 DEF SocketTypes
    <3> QED
      BY <1>1, <1>2, <1>3, <2>1, <3>1 DEF SocketTypes
  <2>4. Owned'
    <3>1. \A g \in Fds : desc'[g].kind # "free" <=> desc[g].kind # "free"
      BY <1>4, <2>1
    <3> QED
      BY <1>1, <1>2, <3>1 DEF Owned
  <2>5. Named'
    <3>1. \A g \in Fds : desc'[g].addr = IF g = f THEN a ELSE desc[g].addr
      BY <1>4, <2>1
    <3>2. \A u \in Users : bound'[u] = IF u = t THEN a ELSE bound[u]
      BY <1>1, <1>2 DEF SocketTypes
    <3>3. \A u \in Users : sock[u] = f => u = t
      BY <1>1, <1>2 DEF Owned
    <3> HIDE DEF f
    <3>4. ASSUME port \notin SocketPart!Stubs \cup {"win32"}
          PROVE  /\ \A u \in Users : bound'[u] # SocketPart!Nowhere =>
                      sock'[u] \in Fds /\ desc'[sock'[u]].addr = bound'[u]
                 /\ \A g, h \in Fds : desc'[g].addr # SocketPart!Nowhere
                      /\ desc'[g].addr = desc'[h].addr => g = h
      <4>1. \A g, h \in Fds : desc[g].addr # SocketPart!Nowhere
              /\ desc[g].addr = desc[h].addr => g = h
        BY <1>2, <3>4 DEF Named
      <4>2. \A u \in Users : bound[u] # SocketPart!Nowhere =>
              sock[u] \in Fds /\ desc[sock[u]].addr = bound[u]
        BY <1>2, <3>4 DEF Named
      <4>3. \A g, h \in Fds : desc'[g].addr # SocketPart!Nowhere
              /\ desc'[g].addr = desc'[h].addr => g = h
        BY <2>2, <3>1, <4>1
      <4>4. ASSUME NEW u \in Users, bound'[u] # SocketPart!Nowhere
            PROVE  sock[u] \in Fds /\ desc'[sock[u]].addr = bound'[u]
        <5>1. CASE u = t
          BY <1>3, <3>1, <3>2, <5>1 DEF f
        <5>2. CASE u # t
          BY <3>1, <3>2, <3>3, <4>2, <4>4, <5>2
        <5> QED
          BY <5>1, <5>2
      <4> QED
        BY <1>1, <4>3, <4>4
    <3> QED
      BY <1>1, <3>4 DEF Named
  <2> HIDE DEF f
  <2> QED
    BY <1>1, <1>2, <2>3, <2>4, <2>5 DEF SocketInv, Streams
<1> QED
  BY <1>5, <1>6

LEMMA ListenKeeps ==
  ASSUME SocketInv, NEW t \in Users, SocketPart!SocketListen(t)
  PROVE  SocketInv'
<1> DEFINE f == sock[t]
           d == [desc[f] EXCEPT !.kind = "listening"]
<1>1. /\ f # 0 /\ desc[f].kind = "new" /\ desc' = [desc EXCEPT ![f] = d]
      /\ UNCHANGED <<port, queue, streams, made, sock, conn, bound>>
  BY DEF SocketPart!SocketListen, SocketPart!Used, SocketPart!None, SocketPart!given
<1>2. f \in Fds /\ desc[f] \in Descriptors
  BY <1>1 DEF SocketInv, SocketTypes
<1>3. d \in Descriptors /\ d.kind # "free" /\ d.addr = desc[f].addr
  BY <1>2 DEF Descriptors
<1>4. queue' \in [Fds -> Seq(SocketPart!Conns)] /\ Streams'
  BY <1>1 DEF SocketInv, SocketTypes, Streams
<1> HIDE DEF d, f
<1> QED
  BY <1>1, <1>2, <1>3, <1>4, Altered

LEMMA AcceptKeeps ==
  ASSUME SocketInv, NEW t \in Users, SocketPart!SocketAccept(t)
  PROVE  SocketInv'
<1> DEFINE q == queue[sock[t]]
           f == SocketPart!Lowest(SocketPart!FreeFds)
           d == [SocketPart!Free EXCEPT !.kind = "stream", !.conn = Head(q), !.side = 2]
<1>1. /\ sock[t] # 0 /\ q # << >> /\ conn[t] = 0 /\ SocketPart!FreeFds # {}
      /\ desc' = [desc EXCEPT ![f] = d] /\ conn' = [conn EXCEPT ![t] = f]
      /\ queue' = [queue EXCEPT ![sock[t]] = Tail(q)]
      /\ UNCHANGED <<port, streams, made, sock, bound>>
  BY DEF SocketPart!SocketAccept, SocketPart!Used, SocketPart!None
<1>2. sock[t] \in Fds /\ q \in Seq(SocketPart!Conns)
  BY <1>1 DEF SocketInv, SocketTypes
<1>3. Head(q) \in SocketPart!Conns /\ Tail(q) \in Seq(SocketPart!Conns)
  <2> HIDE DEF q
  <2> QED
    BY <1>1, <1>2
<1>4. f \in SocketPart!FreeFds
  BY <1>1, LowestFree
<1>5. d \in Descriptors /\ d.kind # "free" /\ d.addr = SocketPart!Nowhere
  <2> HIDE DEF q
  <2> QED
    BY <1>3 DEF Descriptors, SocketPart!Free, SocketPart!None, SocketPart!Sides
<1>6. queue' \in [Fds -> Seq(SocketPart!Conns)]
  <2> HIDE DEF q
  <2> QED
    BY <1>1, <1>2, <1>3 DEF SocketInv, SocketTypes
<1> HIDE DEF q, f, d
<1> QED
  BY <1>1, <1>4, <1>5, <1>6, Got

LEMMA ConnectKeeps ==
  ASSUME SocketInv, NEW t \in Users, NEW a, SocketPart!SocketConnect(t, a)
  PROVE  SocketInv'
<1> DEFINE f == sock[t]
           c == SocketPart!Lowest(SocketPart!FreeConns)
           d == [desc[f] EXCEPT !.kind = "stream", !.conn = c, !.side = 1]
<1>1. /\ f # 0 /\ desc[f].kind = "new" /\ SocketPart!FreeConns # {}
      /\ UNCHANGED <<port, made, sock, conn, bound>>
  BY DEF SocketPart!SocketConnect, SocketPart!Used, SocketPart!None, SocketPart!given
<1>2. PICK g \in Fds :
        /\ queue' = [queue EXCEPT ![g] = Append(@, c)]
        /\ streams' = [streams EXCEPT ![c] = [s \in SocketPart!Sides |-> SocketPart!Unused]]
        /\ desc' = [desc EXCEPT ![f].kind = "stream", ![f].conn = c, ![f].side = 1]
  BY DEF SocketPart!SocketConnect, Fds
<1>3. c \in SocketPart!Conns
  BY <1>1, LowestFree DEF SocketPart!FreeConns
<1>4. f \in Fds /\ desc[f] \in Descriptors
  BY <1>1 DEF SocketInv, SocketTypes
<1> HIDE DEF c
<1>5. d \in Descriptors /\ d.kind # "free" /\ d.addr = desc[f].addr
  BY <1>3, <1>4 DEF Descriptors, SocketPart!Sides
<1>6. desc' = [desc EXCEPT ![f] = d]
  <2>1. desc \in [Fds -> Descriptors]
    BY DEF SocketInv, SocketTypes
  <2> HIDE DEF f
  <2> QED
    BY <1>2, <1>4, <2>1 DEF Descriptors
<1>7. queue' \in [Fds -> Seq(SocketPart!Conns)]
  BY <1>2, <1>3 DEF SocketInv, SocketTypes
<1>8. Streams'
  <2>1. Right(SocketPart!Unused)
    BY DEF Right, Ways, SocketPart!Unused
  <2>2. Streams
    BY DEF SocketInv
  <2>3. \A e \in SocketPart!Conns, w \in SocketPart!Sides :
          streams'[e][w] = IF e = c THEN SocketPart!Unused ELSE streams[e][w]
    BY <1>2, <1>3, <2>2 DEF Streams
  <2>4. streams' = [e \in SocketPart!Conns |-> [w \in SocketPart!Sides |-> streams'[e][w]]]
    BY <1>2, <1>3, <2>2 DEF Streams
  <2>5. \A e \in SocketPart!Conns, w \in SocketPart!Sides : Right(streams'[e][w])
    BY <2>1, <2>2, <2>3 DEF Streams
  <2> QED
    BY <2>4, <2>5 DEF Streams
<1> HIDE DEF d, f
<1> QED
  BY <1>1, <1>4, <1>5, <1>6, <1>7, <1>8, Altered

\* The stubs tell of an address without a socket, which none of what is claimed is about.
LEMMA PretendsKeeps ==
  ASSUME SocketInv, NEW t \in Users, NEW p \in SocketPart!Stubs, SocketPart!Pretends(p, t)
  PROVE  SocketInv'
<1>1. port = p
  BY DEF SocketPart!Pretends, SocketPart!Lives
<1>2. CASE SocketPart!SocketInit(t)
  <2>1. UNCHANGED <<port, desc, queue, streams, made, sock, conn, bound>>
    BY <1>2 DEF SocketPart!SocketInit, SocketPart!noNet, SocketPart!given
  <2>2. Streams'
    BY <2>1 DEF SocketInv, Streams
  <2> QED
    BY <2>1, <2>2, SocketsRest
<1>3. CASE SocketPart!SocketCleanup(t) \/ SocketPart!Created(t, 0) \/ SocketPart!SocketClose(t)
  BY <1>3, CleanupKeeps, CreateKeeps, CloseKeeps
<1>4. CASE /\ \E a \in Addresses : bound' = [bound EXCEPT ![t] = a]
           /\ UNCHANGED <<port, up, SocketPart!noNet, made, sock, conn, alive>>
  <2>1. UNCHANGED <<port, desc, queue, streams, made, sock, conn>>
    BY <1>4 DEF SocketPart!noNet
  <2>2. SocketTypes'
    <3>1. bound' \in [Users -> Addresses \cup {SocketPart!Nowhere}]
      BY <1>4 DEF SocketInv, SocketTypes
    <3> QED
      BY <2>1, <3>1 DEF SocketInv, SocketTypes
  <2>3. Owned' /\ Streams'
    BY <2>1 DEF SocketInv, Owned, Streams
  <2>4. Named'
    BY <1>1, <2>1 DEF Named
  <2> QED
    BY <2>2, <2>3, <2>4 DEF SocketInv
<1> QED
  BY <1>2, <1>3, <1>4 DEF SocketPart!Pretends, SocketPart!None

LEMMA OpensKeeps ==
  ASSUME SocketInv, NEW t \in Users,
         \/ SocketPart!Opens(t) \/ SocketPart!SocketShutdown(t)
         \/ SocketPart!SocketInit(t) \/ SocketPart!SocketCleanup(t)
         \/ SocketPart!DrvCreate(t) \/ SocketPart!DrvClose(t)
  PROVE  SocketInv'
<1>1. CASE SocketPart!SocketInit(t)
  <2>1. UNCHANGED <<port, desc, queue, streams, made, sock, conn, bound>>
    BY <1>1 DEF SocketPart!SocketInit, SocketPart!noNet, SocketPart!given
  <2>2. Streams'
    BY <2>1 DEF SocketInv, Streams
  <2> QED
    BY <2>1, <2>2, SocketsRest
<1>2. CASE SocketPart!DrvClose(t) /\ ~SocketPart!SocketClose(t)
  <2>1. UNCHANGED <<port, desc, queue, streams, made, sock, conn, bound>>
    BY <1>2 DEF SocketPart!DrvClose, SocketPart!noNet, SocketPart!given
  <2>2. Streams'
    BY <2>1 DEF SocketInv, Streams
  <2> QED
    BY <2>1, <2>2, SocketsRest
<1>3. CASE SocketPart!SocketCleanup(t) \/ SocketPart!SocketShutdown(t)
  BY <1>3, CleanupKeeps, ShutdownKeeps
<1>4. CASE SocketPart!SocketCreate(t) \/ SocketPart!DrvCreate(t)
  BY <1>4, CreateKeeps
<1>5. CASE SocketPart!SocketClose(t) \/ SocketPart!CloseAccepted(t)
  BY <1>5, CloseKeeps, CloseAcceptedKeeps
<1> QED
  BY <1>1, <1>2, <1>3, <1>4, <1>5 DEF SocketPart!Opens

LEMMA ConnectsKeeps ==
  ASSUME SocketInv, NEW t \in Users,
         \/ SocketPart!Connects(t) \/ SocketPart!Names(t)
         \/ port = "win32" /\ \E a \in Addresses : SocketPart!Win32Bind(t, a)
  PROVE  SocketInv'
<1>1. CASE SocketPart!Connects(t)
  BY <1>1, ListenKeeps, AcceptKeeps, ConnectKeeps DEF SocketPart!Connects
<1>2. CASE SocketPart!Names(t)
  BY <1>2, BindsKeeps, FALSE \in BOOLEAN DEF SocketPart!Names, SocketPart!SocketBind
<1>3. CASE port = "win32" /\ \E a \in Addresses : SocketPart!Win32Bind(t, a)
  <2>1. PICK a \in Addresses, inUse \in BOOLEAN : SocketPart!Binds(t, a, inUse)
    BY <1>3 DEF SocketPart!Win32Bind
  <2> QED
    BY <1>3, <2>1, BindsKeeps
<1> QED
  BY <1>1, <1>2, <1>3

LEMMA MovesKeeps ==
  ASSUME SocketInv, NEW t \in Users, SocketPart!Moves(t) \/ SocketPart!SendBroken(t)
  PROVE  SocketInv'
<1>1. CASE SocketPart!Moves(t)
  <2>1. PICK n \in 1 .. MaxWords[port] : SocketPart!SocketSend(t, n) \/ SocketPart!SocketRecv(t, n)
    BY <1>1 DEF SocketPart!Moves
  <2>2. n \in Nat
    OBVIOUS
  <2> QED
    BY <2>1, <2>2, SendKeeps, RecvKeeps
<1>2. CASE SocketPart!SendBroken(t)
  <2>1. UNCHANGED <<port, desc, queue, streams, made, sock, conn, bound>>
    BY <1>2 DEF SocketPart!SendBroken, SocketPart!noNet, SocketPart!given
  <2>2. Streams'
    BY <2>1 DEF SocketInv, Streams
  <2> QED
    BY <2>1, <2>2, SocketsRest
<1> QED
  BY <1>1, <1>2

LEMMA SocketStep ==
  ASSUME SocketInv, NEW t \in Users, SocketPart!Call(t)
  PROVE  SocketInv'
<1>1. CASE \/ SocketPart!LinuxApplOpens(t) \/ SocketPart!VxworksOpens(t) \/ SocketPart!EcosOpens(t)
           \/ SocketPart!Win32Opens(t) \/ SocketPart!NucleusOpens(t) \/ SocketPart!LinuxDrvOpens(t)
  BY <1>1, OpensKeeps
     DEF SocketPart!LinuxApplOpens, SocketPart!VxworksOpens, SocketPart!EcosOpens,
         SocketPart!Win32Opens, SocketPart!NucleusOpens, SocketPart!LinuxDrvOpens
<1>2. CASE \/ SocketPart!LinuxApplConnects(t) \/ SocketPart!VxworksConnects(t)
           \/ SocketPart!EcosConnects(t) \/ SocketPart!NucleusConnects(t)
           \/ SocketPart!Win32Connects(t) \/ SocketPart!LinuxDrvConnects(t)
  BY <1>2, ConnectsKeeps
     DEF SocketPart!LinuxApplConnects, SocketPart!VxworksConnects, SocketPart!EcosConnects,
         SocketPart!NucleusConnects, SocketPart!Win32Connects, SocketPart!LinuxDrvConnects,
         SocketPart!Lives
<1>3. CASE \/ SocketPart!LinuxApplMoves(t) \/ SocketPart!VxworksMoves(t) \/ SocketPart!EcosMoves(t)
           \/ SocketPart!Win32Moves(t) \/ SocketPart!NucleusMoves(t)
  BY <1>3, MovesKeeps
     DEF SocketPart!LinuxApplMoves, SocketPart!VxworksMoves, SocketPart!EcosMoves,
         SocketPart!Win32Moves, SocketPart!NucleusMoves
<1>4. CASE SocketPart!RtemsSockets(t) \/ SocketPart!GenericSockets(t)
  <2>1. {"rtems", "generic"} = SocketPart!Stubs
    BY DEF SocketPart!Stubs
  <2> QED
    BY <1>4, <2>1, PretendsKeeps DEF SocketPart!RtemsSockets, SocketPart!GenericSockets
<1> QED
  BY <1>1, <1>2, <1>3, <1>4 DEF SocketPart!Call

LEMMA SocketSets ==
  \A S : (SocketPart!Cardinality(S) = Cardinality(S))
BY DEF SocketPart!Cardinality, Cardinality, SocketPart!IsFiniteSet, IsFiniteSet

LEMMA SocketProperties ==
  ASSUME SocketInv, up \subseteq Users
  PROVE  SocketPart!SocketsOwned /\ SocketPart!BindsTrue /\ SocketPart!EndTrue
<1>1. SocketTypes /\ Owned /\ Named /\ Streams
  BY DEF SocketInv
<1>2. ASSUME NEW f \in Fds, SocketPart!Used(f)
      PROVE  Cardinality({t \in Users : SocketPart!Holds(t, f)}) = 1
  <2>1. f # 0 /\ desc[f].kind # "free"
    BY <1>2 DEF SocketPart!Used, SocketPart!None
  <2>2. PICK t \in Users : sock[t] = f \/ conn[t] = f
    BY <1>1, <2>1 DEF Owned
  <2>3. \A u \in Users : SocketPart!Holds(u, f) => u = t
    BY <1>1, <2>1, <2>2 DEF Owned, SocketPart!Holds
  <2>4. SocketPart!Holds(t, f)
    BY <2>1, <2>2 DEF SocketPart!Holds, SocketPart!None
  <2>5. {u \in Users : SocketPart!Holds(u, f)} = {t}
    BY <2>3, <2>4
  <2> QED
    BY <2>5, FS_Singleton
<1>3. ASSUME NEW t \in up, NEW f \in Fds, SocketPart!Holds(t, f)
      PROVE  SocketPart!Used(f)
  BY <1>1, <1>3 DEF Owned, SocketPart!Holds, SocketPart!Used, SocketPart!None
<1>4. SocketPart!BindsTrue
  <2> SUFFICES ASSUME port \notin SocketPart!Stubs \cup {"win32"}, NEW t \in Users, NEW u \in Users,
                      bound[t] # SocketPart!Nowhere, bound[t] = bound[u]
               PROVE  t = u
    BY SocketFacts DEF SocketPart!BindsTrue, SocketPart!BoundAlone
  <2>1. /\ sock[t] \in Fds /\ desc[sock[t]].addr = bound[t]
        /\ sock[u] \in Fds /\ desc[sock[u]].addr = bound[u]
        /\ \A f, g \in Fds : desc[f].addr # SocketPart!Nowhere
             /\ desc[f].addr = desc[g].addr => f = g
    BY <1>1 DEF Named
  <2>2. sock[t] = sock[u] /\ sock[t] # 0
    BY <2>1, SocketFacts
  <2> QED
    BY <1>1, <2>2 DEF Owned
<1>5. SocketPart!EndTrue
  BY <1>1 DEF Streams, Right, SocketPart!EndTrue
<1>6. SocketPart!SocketsOwned
  <2>1. /\ SocketPart!Threads = Users /\ SocketPart!Fds = Fds
        /\ \A S : SocketPart!Cardinality(S) = Cardinality(S)
    BY SocketFacts, SocketSets DEF Fds
  <2>2. \A f \in Fds : SocketPart!Used(f) =>
          Cardinality({t \in Users : SocketPart!Holds(t, f)}) = 1
    BY <1>2
  <2>3. \A t \in up, f \in Fds : SocketPart!Holds(t, f) => SocketPart!Used(f)
    BY <1>3
  <2> QED
    BY <2>1, <2>2, <2>3 DEF SocketPart!SocketsOwned
<1> QED
  BY <1>4, <1>5, <1>6

\* Only a thread's own calls initialise the sockets for it.
LEMMA SocketUp ==
  ASSUME up \subseteq Users, NEW t \in Users, SocketPart!Call(t)
  PROVE  up' \subseteq Users
<1>1. CASE SocketPart!SocketInit(t) \/ SocketPart!SocketCleanup(t)
  BY <1>1 DEF SocketPart!SocketInit, SocketPart!SocketCleanup
<1>2. CASE \/ SocketPart!SocketCreate(t) \/ SocketPart!DrvCreate(t) \/ SocketPart!Created(t, 0)
           \/ SocketPart!SocketClose(t) \/ SocketPart!DrvClose(t)
           \/ SocketPart!CloseAccepted(t) \/ SocketPart!SocketShutdown(t)
  BY <1>2 DEF SocketPart!SocketCreate, SocketPart!DrvCreate, SocketPart!Created,
              SocketPart!SocketClose, SocketPart!DrvClose, SocketPart!CloseAccepted,
              SocketPart!SocketShutdown
<1>3. CASE SocketPart!Connects(t) \/ \E a \in Addresses, inUse \in BOOLEAN : SocketPart!Binds(t, a, inUse)
  BY <1>3 DEF SocketPart!Connects, SocketPart!SocketListen, SocketPart!SocketAccept,
              SocketPart!SocketConnect, SocketPart!Binds
<1>4. CASE SocketPart!Moves(t) \/ SocketPart!SendBroken(t)
  BY <1>4 DEF SocketPart!Moves, SocketPart!SendBroken, SocketPart!SocketSend, SocketPart!SocketRecv
<1>5. SocketPart!Names(t) => \E a \in Addresses, inUse \in BOOLEAN : SocketPart!Binds(t, a, inUse)
  BY DEF SocketPart!Names, SocketPart!SocketBind
<1>6. SocketPart!Opens(t) => \/ SocketPart!SocketInit(t) \/ SocketPart!SocketCleanup(t)
                             \/ SocketPart!SocketCreate(t) \/ SocketPart!SocketClose(t)
                             \/ SocketPart!CloseAccepted(t)
  BY DEF SocketPart!Opens
<1>7. CASE SocketPart!Opens(t) \/ SocketPart!Connects(t) \/ SocketPart!Names(t)
  BY <1>1, <1>2, <1>3, <1>5, <1>6, <1>7
<1>8. CASE UNCHANGED up
  BY <1>8
<1>9. CASE SocketPart!RtemsSockets(t) \/ SocketPart!GenericSockets(t)
  BY <1>1, <1>2, <1>9
     DEF SocketPart!RtemsSockets, SocketPart!GenericSockets, SocketPart!Pretends, SocketPart!None
<1>10. CASE \/ SocketPart!LinuxApplMoves(t) \/ SocketPart!VxworksMoves(t) \/ SocketPart!EcosMoves(t)
            \/ SocketPart!Win32Moves(t) \/ SocketPart!NucleusMoves(t)
  BY <1>4, <1>10
     DEF SocketPart!LinuxApplMoves, SocketPart!VxworksMoves, SocketPart!EcosMoves,
         SocketPart!Win32Moves, SocketPart!NucleusMoves
<1>11. CASE \/ SocketPart!LinuxApplOpens(t) \/ SocketPart!VxworksOpens(t) \/ SocketPart!EcosOpens(t)
            \/ SocketPart!Win32Opens(t) \/ SocketPart!NucleusOpens(t) \/ SocketPart!LinuxDrvOpens(t)
  BY <1>1, <1>2, <1>7, <1>11
     DEF SocketPart!LinuxApplOpens, SocketPart!VxworksOpens, SocketPart!EcosOpens,
         SocketPart!Win32Opens, SocketPart!NucleusOpens, SocketPart!LinuxDrvOpens
<1>12. CASE SocketPart!Win32Connects(t)
  BY <1>3, <1>12 DEF SocketPart!Win32Connects, SocketPart!Win32Bind
<1>13. CASE \/ SocketPart!LinuxApplConnects(t) \/ SocketPart!VxworksConnects(t)
            \/ SocketPart!EcosConnects(t) \/ SocketPart!NucleusConnects(t)
            \/ SocketPart!LinuxDrvConnects(t)
  BY <1>7, <1>13
     DEF SocketPart!LinuxApplConnects, SocketPart!VxworksConnects, SocketPart!EcosConnects,
         SocketPart!NucleusConnects, SocketPart!LinuxDrvConnects
<1> QED
  BY <1>9, <1>10, <1>11, <1>12, <1>13 DEF SocketPart!Call

SocketsInv == part = "sockets" => SocketInv /\ up \subseteq Users

\* Every descriptor of the system is one thread's, and stays its thread's until that closes
\* it; no two threads are told that the same address is theirs; who has received all there
\* is has received what the other side was told was sent.  For any threads, addresses,
\* descriptors, connections and backlogs, on every port.
THEOREM SocketsRight == Spec => []SocketsKept
<1>1. Init => SocketsInv
  BY SocketInit DEF Init, SocketsInv, SocketPart!Init
<1>2. SocketsInv /\ [Next]_vars => SocketsInv'
  <2> SUFFICES ASSUME SocketsInv, [Next]_vars, part' = "sockets"
               PROVE  SocketInv' /\ up' \subseteq Users
    BY DEF SocketsInv
  <2>1. CASE part = "sockets" /\ \E t \in SocketUsers : SocketPart!Call(t)
    <3>1. PICK t \in Users : SocketPart!Call(t)
      BY <2>1 DEF SocketUsers, Users
    <3> QED
      BY <2>1, <3>1, SocketStep, SocketUp DEF SocketsInv
  <2>2. CASE UNCHANGED vars
    <3>1. UNCHANGED <<part, port, up, desc, queue, streams, made, sock, conn, bound>>
      BY <2>2 DEF vars, shared, socketVars
    <3>2. SocketInv /\ up \subseteq Users
      BY <3>1 DEF SocketsInv
    <3>3. Streams'
      BY <3>1, <3>2 DEF SocketInv, Streams
    <3> QED
      BY <3>1, <3>2, <3>3, SocketsRest
  <2> QED
    BY <2>1, <2>2 DEF Next, Rest
<1>3. SocketsInv => SocketsKept
  BY SocketProperties DEF SocketsInv, SocketsKept
<1> QED
  BY <1>1, <1>2, <1>3, PTL DEF Spec
-----------------------------------------------------------------------------
(* Socket addresses.                                                        *)

Places == 1 .. 4
Byte == 0 .. Base - 1
Quads == [Places -> Byte]

\* What the proofs use of the constants.
LEMMA AddressFacts ==
  /\ Base \in Nat \ {0, 1} /\ AddressTexts \subseteq Seq(Nat \cup {-1, -2})
  /\ Places = AddressPart!Places /\ Byte = AddressPart!Byte /\ AddressPart!Dot = -1
BY ResourcesAssumption
   DEF AddressPart!SocketAddressAssumption, AddressPart!Places, AddressPart!Byte,
       AddressPart!Dot, AddressPart!Word, Places, Byte

LEMMA Divided ==
  ASSUME NEW m \in Nat \ {0}, NEW a \in Nat, NEW r \in 0 .. m - 1
  PROVE  (a * m + r) % m = r /\ (a * m + r) \div m = a
BY SMTT(30)

\* One digit more.
LEMMA OneMore ==
  ASSUME NEW b \in Nat \ {0}, NEW m \in Nat \ {0}, NEW x \in 0 .. m - 1, NEW r \in 0 .. b - 1
  PROVE  x * b + r \in 0 .. m * b - 1 /\ m * b \in Nat \ {0}
<1>1. (x + 1) * b =< m * b
  BY SMTT(30)
<1>2. x * b + b = (x + 1) * b
  BY SMTT(30)
<1>3. x * b \in Nat /\ m * b \in Nat \ {0}
  BY SMTT(30)
<1> QED
  BY <1>1, <1>2, <1>3, SMTT(30)

\* The first of five digits is moved out.
LEMMA MovedOut ==
  ASSUME NEW b \in Nat \ {0}, NEW d \in Nat, NEW p \in Nat, NEW q \in Nat, NEW r \in Nat, NEW s \in Nat
  PROVE  (((d * b + p) * b + q) * b + r) * b + s
           = d * (b * b * b * b) + (((p * b + q) * b + r) * b + s)
BY SMTT(30)

LEMMA InWord ==
  ASSUME NEW b \in Nat \ {0}, NEW p \in 0 .. b - 1, NEW q \in 0 .. b - 1, NEW r \in 0 .. b - 1,
         NEW s \in 0 .. b - 1
  PROVE  /\ ((p * b + q) * b + r) * b + s \in 0 .. b * b * b * b - 1
         /\ (p * b + q) * b + r \in 0 .. b * b * b - 1
         /\ p * b + q \in 0 .. b * b - 1
         /\ b * b \in Nat \ {0} /\ b * b * b \in Nat \ {0} /\ b * b * b * b \in Nat \ {0}
<1>1. p * b + q \in 0 .. b * b - 1 /\ b * b \in Nat \ {0}
  BY OneMore
<1>2. (p * b + q) * b + r \in 0 .. (b * b) * b - 1 /\ (b * b) * b \in Nat \ {0}
  BY <1>1, OneMore
<1>3. ((p * b + q) * b + r) * b + s \in 0 .. ((b * b) * b) * b - 1 /\ ((b * b) * b) * b \in Nat \ {0}
  BY <1>2, OneMore
<1> QED
  BY <1>1, <1>2, <1>3

\* A number of four digits, moved up by one.
LEMMA Shifted ==
  ASSUME NEW p \in Byte, NEW q \in Byte, NEW r \in Byte, NEW s \in Byte, NEW n \in Byte
  PROVE  AddressPart!Shift(AddressPart!Number(<<p, q, r, s>>), n)
           = AddressPart!Number(<<q, r, s, n>>)
<1> DEFINE high == ((p * Base + q) * Base + r) * Base + s
           low == ((q * Base + r) * Base + s) * Base + n
           word == Base * Base * Base * Base
<1>1. AddressPart!Number(<<p, q, r, s>>) = high /\ AddressPart!Number(<<q, r, s, n>>) = low
  BY DEF AddressPart!Number
<1>2. AddressPart!Power(4) = word
  BY DEF AddressPart!Power
<1>3. high * Base + n = p * word + low
  BY AddressFacts, MovedOut DEF Byte
<1>4. low \in 0 .. word - 1 /\ word \in Nat \ {0} /\ p \in Nat
  BY AddressFacts, InWord DEF Byte
<1> HIDE DEF high, low, word
<1>5. (p * word + low) % word = low
  BY <1>4, Divided
<1> QED
  BY <1>1, <1>2, <1>3, <1>5 DEF AddressPart!Shift

\* The digits of a number of four digits.
LEMMA DigitsOf ==
  ASSUME NEW b \in Nat \ {0}, b = Base,
         NEW p \in 0 .. b - 1, NEW q \in 0 .. b - 1, NEW r \in 0 .. b - 1, NEW s \in 0 .. b - 1
  PROVE  AddressPart!Digits(AddressPart!Number(<<p, q, r, s>>), 4) = <<p, q, r, s>>
<1> DEFINE n == ((p * b + q) * b + r) * b + s
           d == <<p, q, r, s>>
<1>1. p * b + q \in Nat /\ (p * b + q) * b + r \in Nat /\ n \in Nat
  BY InWord
<1>2. n % b = s /\ n \div b = (p * b + q) * b + r
  BY <1>1, Divided
<1>3. ((p * b + q) * b + r) % b = r /\ (p * b + q) % b = q /\ p % b = p /\ n \div 1 = n
  BY <1>1, Divided
<1>4. n \div (b * b) = p * b + q
  <2>1. n = (p * b + q) * (b * b) + (r * b + s)
    BY SMTT(30)
  <2>2. r * b + s \in 0 .. b * b - 1 /\ b * b \in Nat \ {0}
    BY InWord
  <2> QED
    BY <1>1, <2>1, <2>2, Divided
<1>5. n \div (b * b * b) = p
  <2>1. n = p * (b * b * b) + ((q * b + r) * b + s)
    BY SMTT(30)
  <2>2. (q * b + r) * b + s \in 0 .. b * b * b - 1 /\ b * b * b \in Nat \ {0}
    BY InWord
  <2> QED
    BY <2>1, <2>2, Divided
<1>6. /\ (n \div 1) % b = s /\ (n \div b) % b = r
      /\ (n \div (b * b)) % b = q /\ (n \div (b * b * b)) % b = p
  BY <1>2, <1>3, <1>4, <1>5
<1>7. AddressPart!Number(d) = n
  BY DEF AddressPart!Number
<1>8. /\ AddressPart!Power(0) = 1 /\ AddressPart!Power(1) = b
      /\ AddressPart!Power(2) = b * b /\ AddressPart!Power(3) = b * b * b
  BY DEF AddressPart!Power
<1> HIDE DEF n
<1>9. \A i \in 1 .. 4 : (n \div AddressPart!Power(4 - i)) % b = d[i]
  BY <1>6, <1>8
<1>10. AddressPart!Digits(n, 4) = [i \in 1 .. 4 |-> d[i]]
  BY <1>9 DEF AddressPart!Digits
<1> QED
  BY <1>7, <1>10

LEMMA DigitsBack ==
  ASSUME NEW p \in Byte, NEW q \in Byte, NEW r \in Byte, NEW s \in Byte
  PROVE  AddressPart!Digits(AddressPart!Number(<<p, q, r, s>>), 4) = <<p, q, r, s>>
BY AddressFacts, DigitsOf DEF Byte

\* A last number by itself is its own digit.
LEMMA DigitAlone ==
  ASSUME NEW n \in Byte
  PROVE  AddressPart!Digits(n, 1) = <<n>>
<1>1. AddressPart!Power(0) = 1
  BY DEF AddressPart!Power
<1>2. (n \div 1) % Base = n
  BY AddressFacts, SMTT(30) DEF Byte
<1> QED
  BY <1>1, <1>2 DEF AddressPart!Digits

\* Whatever the order of the bytes in memory, they are four.
LEMMA MemoryQuad ==
  ASSUME NEW a \in Quads
  PROVE  AddressPart!InMemory(a) \in Quads
BY AddressFacts DEF AddressPart!InMemory, AddressPart!Backwards, Quads, Places

\* What the kernel's word had is moved out of it.
LEMMA KernelStores ==
  ASSUME NEW old \in Quads, NEW f \in Quads
  PROVE  AddressPart!KernelStore(old, f) = AddressPart!InMemory(f)
<1> DEFINE o == AddressPart!InMemory(old)
<1>1. PICK a \in Byte, b \in Byte, c \in Byte, d \in Byte : o = <<a, b, c, d>>
  <2>1. o \in Quads
    BY MemoryQuad
  <2> HIDE DEF o
  <2>2. o = <<o[1], o[2], o[3], o[4]>>
    BY <2>1 DEF Quads, Places
  <2> QED
    BY <2>1, <2>2 DEF Quads, Places
<1>2. PICK p \in Byte, q \in Byte, r \in Byte, s \in Byte : f = <<p, q, r, s>>
  <2>1. f = <<f[1], f[2], f[3], f[4]>>
    BY DEF Quads, Places
  <2> QED
    BY <2>1 DEF Quads, Places
<1> DEFINE w == AddressPart!Number(<<a, b, c, d>>)
<1>3. AddressPart!Shift(w, p) = AddressPart!Number(<<b, c, d, p>>)
  BY Shifted
<1>4. AddressPart!Shift(AddressPart!Number(<<b, c, d, p>>), q) = AddressPart!Number(<<c, d, p, q>>)
  BY Shifted
<1>5. AddressPart!Shift(AddressPart!Number(<<c, d, p, q>>), r) = AddressPart!Number(<<d, p, q, r>>)
  BY Shifted
<1>6. AddressPart!Shift(AddressPart!Number(<<d, p, q, r>>), s) = AddressPart!Number(<<p, q, r, s>>)
  BY Shifted
<1>7. AddressPart!Digits(AddressPart!Number(<<p, q, r, s>>), 4) = <<p, q, r, s>>
  BY DigitsBack
<1>8. f[1] = p /\ f[2] = q /\ f[3] = r /\ f[4] = s
  BY <1>2
<1>9. AddressPart!Number(o) = w
  BY <1>1
<1> HIDE DEF o, w
<1>10. AddressPart!KernelStore(old, f)
         = AddressPart!InMemory(AddressPart!Digits(AddressPart!Shift(AddressPart!Shift(
             AddressPart!Shift(AddressPart!Shift(w, p), q), r), s), 4))
  BY <1>8, <1>9 DEF AddressPart!KernelStore, o
<1> QED
  BY <1>2, <1>3, <1>4, <1>5, <1>6, <1>7, <1>10 DEF w

\* A byte is far from the end of a word.
LEMMA FourByteWord ==
  /\ AddressPart!Power(4) \in Nat \ {0}
  /\ Base \in Nat /\ 2 * Base =< AddressPart!Power(4)
<1>1. Base \in Nat /\ Base >= 2
  BY AddressFacts
<1> DEFINE square == Base * Base
<1>2. square \in Nat /\ square >= 2 * Base
  BY <1>1, SMTT(30)
<1>3. square * square >= square
  BY <1>1, <1>2, SMTT(30)
<1>4. square * square = Base * Base * Base * Base
  BY <1>1, SMTT(30)
<1>5. AddressPart!Power(4) = Base * Base * Base * Base
  BY DEF AddressPart!Power
<1> HIDE DEF square
<1> DEFINE word == square * square
<1>6. word \in Nat /\ word >= square /\ AddressPart!Power(4) = word
  BY <1>2, <1>3, <1>4, <1>5, SMTT(30)
<1> HIDE DEF word
<1> QED
  BY <1>1, <1>2, <1>6

\* A number that is a byte in a word of four is a byte, or does not fit in the word.
LEMMA InInt32 ==
  ASSUME NEW n \in Nat
  PROVE  /\ AddressPart!Int32(n) \in Int
         /\ n \in Byte => AddressPart!Int32(n) = n
         /\ AddressPart!Int32(n) \in Byte => n \in Byte \/ n >= AddressPart!Power(4)
<1> DEFINE w == AddressPart!Power(4)
           low == n % w
<1>1. w \in Nat \ {0} /\ Base \in Nat /\ 2 * Base =< w
  BY FourByteWord
<1> HIDE DEF w
<1>2. low \in 0 .. w - 1 /\ (n < w => low = n)
  BY <1>1, SMTT(30)
<1> HIDE DEF low
<1>3. AddressPart!Int32(n) = IF 2 * low < w THEN low ELSE low - w
  BY DEF AddressPart!Int32, low, w
<1>4. \A b \in Byte : b \in Nat /\ b < Base
  BY <1>1 DEF Byte
<1>5. ASSUME n \in Byte
      PROVE  AddressPart!Int32(n) = n
  BY <1>1, <1>2, <1>3, <1>4, <1>5
<1>6. ASSUME AddressPart!Int32(n) \in Byte, n < w
      PROVE  n \in Byte
  BY <1>1, <1>2, <1>3, <1>4, <1>6
<1> QED
  BY <1>1, <1>2, <1>3, <1>5, <1>6 DEF w

\* A number that the kernel takes for a byte.
ByteRead(n) == n >= 0 /\ AddressPart!Int32(n) \in Byte

\* One number, and the dot behind it.
LEMMA PartGood ==
  ASSUME NEW x \in Seq(Int), NEW i \in 1 .. 4, NEW conv \in Nat \ {0}
  PROVE  /\ AddressPart!Temp(x, conv) \in Nat
         /\ ~AddressPart!BadPart(x, conv, i) <=>
              /\ conv =< Len(x) /\ ByteRead(x[conv])
              /\ i < 4 => conv + 1 =< Len(x) /\ x[conv + 1] = -1
         /\ ~AddressPart!BadPart(x, conv, i) =>
              /\ AddressPart!Temp(x, conv) = conv + 1
              /\ AddressPart!IpAddr(x, conv) = AddressPart!Int32(x[conv])
<1>1. CASE AddressPart!Numeral(x, conv)
  <2>1. /\ AddressPart!IpAddr(x, conv) = AddressPart!Int32(x[conv])
        /\ AddressPart!Temp(x, conv) = conv + 1
        /\ conv =< Len(x) /\ x[conv] >= 0 /\ x[conv] \in Int
    BY <1>1 DEF AddressPart!IpAddr, AddressPart!Temp, AddressPart!Numeral
  <2>2. AddressPart!Int32(x[conv]) \in Int
    BY <2>1, InInt32
  <2> QED
    BY <2>1, <2>2, AddressFacts DEF AddressPart!BadPart, ByteRead, Byte
<1>2. CASE ~AddressPart!Numeral(x, conv)
  <2>1. AddressPart!Temp(x, conv) = conv
    BY <1>2 DEF AddressPart!Temp
  <2>2. ~(conv =< Len(x) /\ ByteRead(x[conv]))
    BY <1>2 DEF AddressPart!Numeral, ByteRead
  <2> QED
    BY <2>1, <2>2 DEF AddressPart!BadPart
<1> QED
  BY <1>1, <1>2

LEMMA FourInSeq ==
  ASSUME NEW S, NEW a \in S, NEW b \in S, NEW c \in S, NEW d \in S
  PROVE  <<a, b, c, d>> \in Seq(S) /\ Len(<<a, b, c, d>>) = 4
OBVIOUS

LEMMA FourAppended ==
  ASSUME NEW a, NEW b, NEW c, NEW d
  PROVE  Append(Append(Append(Append(<< >>, a), b), c), d) = <<a, b, c, d>>
<1> DEFINE S == {a, b, c, d}
           s0 == << >>
           s1 == Append(s0, a)
           s2 == Append(s1, b)
           s3 == Append(s2, c)
           s4 == Append(s3, d)
<1>1. a \in S /\ b \in S /\ c \in S /\ d \in S /\ s0 \in Seq(S) /\ Len(s0) = 0
  OBVIOUS
<1> HIDE DEF S, s0
<1>2. s1 \in Seq(S) /\ Len(s1) = 1 /\ s1[1] = a
  BY <1>1, AppendProperties
<1> HIDE DEF s1
<1>3. s2 \in Seq(S) /\ Len(s2) = 2 /\ s2[1] = a /\ s2[2] = b
  <2>a. s1 \in Seq(S) /\ b \in S
    BY <1>1, <1>2
  <2>1. s2 \in Seq(S) /\ Len(s2) = Len(s1) + 1
    BY <2>a, AppendProperties
  <2>2. s2[Len(s1) + 1] = b
    BY <2>a, AppendProperties
  <2>3. ASSUME NEW i \in 1 .. Len(s1)
        PROVE  s2[i] = s1[i]
    <3>1. s1 \in Seq(S)
      BY <1>2
    <3> QED
      BY <1>1, <3>1
  <2> HIDE DEF s2
  <2> QED
    BY <1>2, <2>1, <2>2, <2>3
<1> HIDE DEF s2
<1>4. s3 \in Seq(S) /\ Len(s3) = 3 /\ s3[1] = a /\ s3[2] = b /\ s3[3] = c
  <2>a. s2 \in Seq(S) /\ c \in S
    BY <1>1, <1>3
  <2>1. s3 \in Seq(S) /\ Len(s3) = Len(s2) + 1
    BY <2>a, AppendProperties
  <2>2. s3[Len(s2) + 1] = c
    BY <2>a, AppendProperties
  <2>3. ASSUME NEW i \in 1 .. Len(s2)
        PROVE  s3[i] = s2[i]
    <3>1. s2 \in Seq(S)
      BY <1>3
    <3> QED
      BY <1>1, <3>1
  <2> HIDE DEF s3
  <2> QED
    BY <1>3, <2>1, <2>2, <2>3
<1> HIDE DEF s3
<1>5. s4 \in Seq(S) /\ Len(s4) = 4 /\ s4[1] = a /\ s4[2] = b /\ s4[3] = c /\ s4[4] = d
  <2>a. s3 \in Seq(S) /\ d \in S
    BY <1>1, <1>4
  <2>1. s4 \in Seq(S) /\ Len(s4) = Len(s3) + 1
    BY <2>a, AppendProperties
  <2>2. s4[Len(s3) + 1] = d
    BY <2>a, AppendProperties
  <2>3. ASSUME NEW i \in 1 .. Len(s3)
        PROVE  s4[i] = s3[i]
    <3>1. s3 \in Seq(S)
      BY <1>4
    <3> QED
      BY <1>1, <3>1
  <2> HIDE DEF s4
  <2> QED
    BY <1>4, <2>1, <2>2, <2>3
<1> HIDE DEF s4
<1>6. <<a, b, c, d>> \in Seq(S) /\ Len(<<a, b, c, d>>) = 4
  BY <1>1, FourInSeq
<1>7. s4 = <<a, b, c, d>>
  BY <1>5, <1>6, SeqEqual
<1> QED
  BY <1>7 DEF s0, s1, s2, s3, s4

\* Four numbers with dots between them.
FourNumbers(x) ==
  /\ Len(x) = 7
  /\ x[1] \in Byte /\ x[3] \in Byte /\ x[5] \in Byte /\ x[7] \in Byte
  /\ x[2] = -1 /\ x[4] = -1 /\ x[6] = -1

LEMMA QuadFields ==
  ASSUME NEW x \in Seq(Int), Len(x) = 7
  PROVE  AddressPart!Fields(x) = <<x[1], x[3], x[5], x[7]>>
<1>1. (Len(x) + 1) \div 2 = 4
  BY SMT
<1>2. AddressPart!Fields(x) = [i \in 1 .. 4 |-> x[2 * i - 1]]
  BY <1>1 DEF AddressPart!Fields
<1> QED
  BY <1>2

LEMMA QuadIsFour ==
  ASSUME NEW x \in Seq(Int)
  PROVE  AddressPart!IsQuad(x) <=> FourNumbers(x)
<1>1. ASSUME Len(x) = 7
      PROVE  AddressPart!Alternates(x) <=>
               /\ x[1] >= 0 /\ x[3] >= 0 /\ x[5] >= 0 /\ x[7] >= 0
               /\ x[2] = -1 /\ x[4] = -1 /\ x[6] = -1
  <2>1. Len(x) % 2 = 1 /\ 1 .. Len(x) = {1, 2, 3, 4, 5, 6, 7}
    BY <1>1
  <2> DEFINE InTurn(i) == IF i % 2 = 1 THEN x[i] >= 0 ELSE x[i] = -1
  <2>2. /\ InTurn(1) <=> x[1] >= 0
        /\ InTurn(3) <=> x[3] >= 0
        /\ InTurn(5) <=> x[5] >= 0
        /\ InTurn(7) <=> x[7] >= 0
    BY 1 % 2 = 1, 3 % 2 = 1, 5 % 2 = 1, 7 % 2 = 1
  <2>3. /\ InTurn(2) <=> x[2] = -1
        /\ InTurn(4) <=> x[4] = -1
        /\ InTurn(6) <=> x[6] = -1
    BY 2 % 2 = 0, 4 % 2 = 0, 6 % 2 = 0
  <2>4. AddressPart!Alternates(x) <=> \A i \in {1, 2, 3, 4, 5, 6, 7} : InTurn(i)
    BY <2>1, AddressFacts DEF AddressPart!Alternates
  <2> HIDE DEF InTurn
  <2>5. (\A i \in {1, 2, 3, 4, 5, 6, 7} : InTurn(i)) <=>
          InTurn(1) /\ InTurn(2) /\ InTurn(3) /\ InTurn(4) /\ InTurn(5) /\ InTurn(6) /\ InTurn(7)
    OBVIOUS
  <2> QED
    BY <2>2, <2>3, <2>4, <2>5
<1>2. ASSUME Len(x) = 7
      PROVE  (\A i \in AddressPart!Places : AddressPart!Fields(x)[i] \in AddressPart!Byte) <=>
               x[1] \in Byte /\ x[3] \in Byte /\ x[5] \in Byte /\ x[7] \in Byte
  <2> DEFINE f == AddressPart!Fields(x)
  <2>1. f[1] = x[1] /\ f[2] = x[3] /\ f[3] = x[5] /\ f[4] = x[7]
    BY <1>2, QuadFields
  <2>2. AddressPart!Places = {1, 2, 3, 4} /\ AddressPart!Byte = Byte
    BY AddressFacts DEF Places
  <2> HIDE DEF f
  <2>3. (\A i \in {1, 2, 3, 4} : f[i] \in Byte) <=>
          f[1] \in Byte /\ f[2] \in Byte /\ f[3] \in Byte /\ f[4] \in Byte
    OBVIOUS
  <2> QED
    BY <2>1, <2>2, <2>3 DEF f
<1>3. \A n \in Byte : n >= 0
  BY AddressFacts DEF Byte
<1> QED
  BY <1>1, <1>2, <1>3 DEF AddressPart!IsQuad, FourNumbers

\* What the library and the text make of four numbers.
LEMMA QuadFacts ==
  ASSUME NEW x \in Seq(Int), AddressPart!IsQuad(x)
  PROVE  /\ AddressPart!Fields(x) \in Quads
         /\ AddressPart!Dotted(AddressPart!Fields(x)) = x
         /\ AddressPart!LibReads(x)
         /\ AddressPart!LibAddress(x) = AddressPart!Fields(x)
<1> DEFINE f == AddressPart!Fields(x)
<1>1. FourNumbers(x)
  BY QuadIsFour
<1>2. f = <<x[1], x[3], x[5], x[7]>>
  BY <1>1, QuadFields DEF FourNumbers
<1>3. f \in Quads /\ Len(f) = 4 /\ f \in Seq(Int)
  <2>1. x[1] \in Byte /\ x[3] \in Byte /\ x[5] \in Byte /\ x[7] \in Byte /\ Byte \subseteq Int
    BY <1>1, AddressFacts DEF FourNumbers, Byte
  <2>2. <<x[1], x[3], x[5], x[7]>> \in Quads
    BY <2>1 DEF Quads, Places
  <2>3. <<x[1], x[3], x[5], x[7]>> \in Seq(Int) /\ Len(<<x[1], x[3], x[5], x[7]>>) = 4
    BY <2>1, FourInSeq
  <2> HIDE DEF f
  <2> QED
    BY <1>2, <2>2, <2>3
<1>4. AddressPart!Dotted(f) = x
  <2>1. AddressPart!Dotted(f) = <<x[1], -1, x[3], -1, x[5], -1, x[7]>>
    BY <1>2, AddressFacts DEF AddressPart!Dotted
  <2> QED
    BY <1>1, <2>1 DEF FourNumbers
<1> HIDE DEF f
<1>5. AddressPart!LibReads(x)
  <2>1. AddressPart!Power(1) = Base
    BY DEF AddressPart!Power
  <2>2. /\ \A i \in 1 .. 3 : f[i] \in Byte
        /\ f[4] < Base
    BY <1>3, AddressFacts DEF Quads, Places, Byte
  <2>3. AddressPart!Alternates(x)
    BY DEF AddressPart!IsQuad
  <2>4. 4 \in AddressPart!Places /\ 4 - 1 = 3 /\ 5 - 4 = 1
    BY AddressFacts DEF Places
  <2> QED
    BY <1>3, <2>1, <2>2, <2>3, <2>4, AddressFacts DEF AddressPart!LibReads, f
<1>6. AddressPart!LibAddress(x) = f
  <2>1. AddressPart!Digits(f[4], 1) = <<f[4]>>
    BY <1>3, DigitAlone DEF Quads, Places
  <2>2. SubSeq(f, 1, 3) \o <<f[4]>> = f
    BY <1>3
  <2>3. 4 - 1 = 3 /\ 5 - 4 = 1
    OBVIOUS
  <2> QED
    BY <1>3, <2>1, <2>2, <2>3 DEF AddressPart!LibAddress, f
<1> QED
  BY <1>3, <1>4, <1>5, <1>6 DEF f

\* Four numbers that are bytes in a word of four, with dots between them.
FourTaken(x) ==
  /\ Len(x) = 7
  /\ ByteRead(x[1]) /\ ByteRead(x[3]) /\ ByteRead(x[5]) /\ ByteRead(x[7])
  /\ x[2] = -1 /\ x[4] = -1 /\ x[6] = -1

PartsOf(x) ==
  <<AddressPart!Int32(x[1]), AddressPart!Int32(x[3]), AddressPart!Int32(x[5]),
    AddressPart!Int32(x[7])>>

\* The kernel's reader takes four such numbers, and nothing else.
LEMMA KernelReads ==
  ASSUME NEW x \in Seq(Int)
  PROVE  /\ AddressPart!KernelRead(x).ok /\ AddressPart!AllRead(x) <=> FourTaken(x)
         /\ FourTaken(x) => AddressPart!KernelRead(x).parts = PartsOf(x)
<1> DEFINE r0 == [ok |-> TRUE, parts |-> << >>, conv |-> 1]
           r1 == AddressPart!ReadPart(x, r0, 1)
           r2 == AddressPart!ReadPart(x, r1, 2)
           r3 == AddressPart!ReadPart(x, r2, 3)
           r4 == AddressPart!ReadPart(x, r3, 4)
           Good(c, i) == ~AddressPart!BadPart(x, c, i)
           Next1(c) == AddressPart!Temp(x, c) + 1
           Value(c) == AddressPart!IpAddr(x, c)
           Word(c) == AddressPart!Int32(x[c])
           At(c, i) == /\ c =< Len(x) /\ ByteRead(x[c])
                       /\ i < 4 => c + 1 =< Len(x) /\ x[c + 1] = -1
<1>1. AddressPart!KernelRead(x) = r4
  BY DEF AddressPart!KernelRead, AddressPart!Nothing
<1>2. \A c \in Nat \ {0} , i \in 1 .. 4 :
        /\ Next1(c) \in Nat \ {0}
        /\ Good(c, i) <=> At(c, i)
        /\ Good(c, i) => Next1(c) = c + 2 /\ Value(c) = Word(c)
  <2> TAKE c \in Nat \ {0}, i \in 1 .. 4
  <2>1. AddressPart!Temp(x, c) \in Nat
    BY PartGood
  <2>2. Good(c, i) <=> At(c, i)
    BY PartGood
  <2>3. Good(c, i) => AddressPart!Temp(x, c) = c + 1 /\ Value(c) = Word(c)
    BY PartGood
  <2> HIDE DEF Good, Value, Word, At
  <2> QED
    BY <2>1, <2>2, <2>3
<1>3. r0.ok = TRUE /\ r0.parts = << >> /\ r0.conv = 1
  OBVIOUS
<1>4. \A read, i :
        LET next == AddressPart!ReadPart(x, read, i)
        IN /\ next.ok <=> read.ok /\ Good(read.conv, i)
           /\ next.conv = Next1(read.conv)
           /\ next.parts = Append(read.parts, Value(read.conv))
  BY DEF AddressPart!ReadPart
<1> HIDE DEF r0, Good, Next1, Value, Word, At
<1>5. /\ r1.ok <=> Good(1, 1)
      /\ r1.conv = Next1(1)
      /\ r1.parts = Append(<< >>, Value(1))
  BY <1>3, <1>4
<1> HIDE DEF r1
<1>6. PICK c \in Nat \ {0} : c = Next1(1)
  BY <1>2
<1>7. /\ r2.ok <=> Good(1, 1) /\ Good(c, 2)
      /\ r2.conv = Next1(c)
      /\ r2.parts = Append(Append(<< >>, Value(1)), Value(c))
  BY <1>4, <1>5, <1>6
<1> HIDE DEF r2
<1>8. PICK d \in Nat \ {0} : d = Next1(c)
  BY <1>2
<1>9. /\ r3.ok <=> Good(1, 1) /\ Good(c, 2) /\ Good(d, 3)
      /\ r3.conv = Next1(d)
      /\ r3.parts = Append(Append(Append(<< >>, Value(1)), Value(c)), Value(d))
  BY <1>4, <1>7, <1>8
<1> HIDE DEF r3
<1>10. PICK e \in Nat \ {0} : e = Next1(d)
  BY <1>2
<1>11. /\ r4.ok <=> Good(1, 1) /\ Good(c, 2) /\ Good(d, 3) /\ Good(e, 4)
       /\ r4.conv = Next1(e)
       /\ r4.parts = <<Value(1), Value(c), Value(d), Value(e)>>
  <2>1. /\ r4.ok <=> r3.ok /\ Good(e, 4)
        /\ r4.conv = Next1(e)
        /\ r4.parts = Append(r3.parts, Value(e))
    BY <1>4, <1>9, <1>10
  <2> HIDE DEF r4
  <2> QED
    BY <1>9, <2>1, FourAppended
<1> HIDE DEF r4
<1>12. PICK last \in Nat \ {0} : last = Next1(e)
  BY <1>2
<1>13. Good(1, 1) <=> At(1, 1)
  BY <1>2
<1>14. Good(1, 1) => c = 3 /\ Value(1) = Word(1)
  BY <1>2, <1>6
<1>15. c = 3 => (Good(c, 2) <=> At(3, 2)) /\ (Good(c, 2) => d = 5 /\ Value(c) = Word(3))
  BY <1>2, <1>8
<1>16. d = 5 => (Good(d, 3) <=> At(5, 3)) /\ (Good(d, 3) => e = 7 /\ Value(d) = Word(5))
  BY <1>2, <1>10
<1>17. e = 7 => (Good(e, 4) <=> At(7, 4)) /\ (Good(e, 4) => last = 9 /\ Value(e) = Word(7))
  BY <1>2, <1>12
<1>18. r4.ok <=> At(1, 1) /\ At(3, 2) /\ At(5, 3) /\ At(7, 4)
  BY <1>11, <1>13, <1>14, <1>15, <1>16, <1>17
<1>19. r4.ok => last = 9 /\ r4.parts = <<Word(1), Word(3), Word(5), Word(7)>>
  BY <1>11, <1>14, <1>15, <1>16, <1>17
<1>20. r4.ok /\ last = Len(x) + 2 <=> FourTaken(x)
  <2> DEFINE n == Len(x)
  <2>1. n \in Nat
    OBVIOUS
  <2>2. /\ At(1, 1) <=> 2 =< n /\ ByteRead(x[1]) /\ x[2] = -1
        /\ At(3, 2) <=> 4 =< n /\ ByteRead(x[3]) /\ x[4] = -1
        /\ At(5, 3) <=> 6 =< n /\ ByteRead(x[5]) /\ x[6] = -1
        /\ At(7, 4) <=> 7 =< n /\ ByteRead(x[7])
    BY <2>1 DEF At
  <2> HIDE DEF n
  <2>3. r4.ok => (last = n + 2 <=> n = 7)
    BY <1>19, <2>1
  <2>4. n = 7 => (r4.ok <=> FourTaken(x))
    BY <1>18, <2>2 DEF FourTaken, n
  <2>5. FourTaken(x) => n = 7
    BY DEF FourTaken, n
  <2> QED
    BY <2>3, <2>4, <2>5 DEF n
<1>21. r4.conv = last
  BY <1>11, <1>12
<1>22. AddressPart!AllRead(x) <=> r4.conv = Len(x) + 2
  BY <1>1 DEF AddressPart!AllRead
<1>23. PartsOf(x) = <<Word(1), Word(3), Word(5), Word(7)>>
  BY DEF PartsOf, Word
<1> QED
  BY <1>1, <1>19, <1>20, <1>21, <1>22, <1>23

\* Those are the texts of four bytes, and some with a number that does not fit in a word.
LEMMA KernelTakes ==
  ASSUME NEW x \in Seq(Int)
  PROVE  /\ AddressPart!IsQuad(x) => FourTaken(x) /\ PartsOf(x) = AddressPart!Fields(x)
         /\ FourTaken(x) => PartsOf(x) \in Quads
         /\ FourTaken(x) => AddressPart!IsQuad(x) \/ AddressPart!Wraps(x)
<1>1. Byte \subseteq Nat
  BY AddressFacts DEF Byte
<1>2. ASSUME AddressPart!IsQuad(x)
      PROVE  FourTaken(x) /\ PartsOf(x) = AddressPart!Fields(x)
  <2>1. FourNumbers(x)
    BY <1>2, QuadIsFour
  <2>2. \A n \in Byte : n >= 0 /\ AddressPart!Int32(n) = n
    BY <1>1, InInt32
  <2>3. AddressPart!Fields(x) = <<x[1], x[3], x[5], x[7]>>
    BY <2>1, QuadFields DEF FourNumbers
  <2> QED
    BY <2>1, <2>2, <2>3 DEF FourNumbers, FourTaken, ByteRead, PartsOf
<1>3. FourTaken(x) => PartsOf(x) \in Quads
  BY DEF FourTaken, ByteRead, PartsOf, Quads, Places
<1>4. ASSUME FourTaken(x), ~AddressPart!Wraps(x)
      PROVE  AddressPart!IsQuad(x)
  <2>1. Len(x) = 7
    BY <1>4 DEF FourTaken
  <2>2. ASSUME NEW i \in 1 .. 7, ByteRead(x[i])
        PROVE  x[i] \in Byte
    <3>1. x[i] \in Int /\ ~(x[i] >= AddressPart!Power(4))
      <4>1. i \in 1 .. Len(x)
        BY <2>1
      <4>2. ~(x[i] >= AddressPart!Power(4))
        BY <1>4, <4>1, Zenon DEF AddressPart!Wraps
      <4> QED
        BY <4>1, <4>2
    <3>2. x[i] \in Nat /\ AddressPart!Int32(x[i]) \in Byte
      BY <2>2, <3>1 DEF ByteRead
    <3> QED
      BY <3>1, <3>2, InInt32
  <2>3. x[1] \in Byte /\ x[3] \in Byte /\ x[5] \in Byte /\ x[7] \in Byte
    BY <1>4, <2>2 DEF FourTaken
  <2> QED
    BY <1>4, <2>3, QuadIsFour DEF FourTaken, FourNumbers
<1> QED
  BY <1>2, <1>3, <1>4

AddressTypes ==
  /\ port \in AddressPart!AllPorts
  /\ pc \in [Pair -> {"idle", "copying"}]
  /\ asked \in [Pair -> AddressTexts \cup {<< >>}]
  /\ told \in [Pair -> {"none", "success", "error"}]
  /\ sinAddr = [t \in Pair |-> sinAddr[t]]
  /\ pBuffer = [t \in Pair |-> pBuffer[t]]
  /\ crossed \in [Pair -> BOOLEAN]
  /\ little \in BOOLEAN /\ (little => port = "linux_drv")

\* Between inet_ntoa and strcpy a thread's text is in the buffer, unless another has come
\* between.
OwnCopied ==
  \A t \in Pair : pc[t] = "copying" /\ ~crossed[t] => buffer[t] = AddressPart!Dotted(sinAddr[t])

\* The kernel's word is always four bytes.
KernelWord == port = "linux_drv" => \A t \in Pair : sinAddr[t] \in Quads

TextRead ==
  /\ \A t \in Pair : AddressPart!IsQuad(asked[t]) =>
       told[t] = "success" /\ sinAddr[t] = AddressPart!InMemory(AddressPart!Fields(asked[t]))
  /\ \A t \in Pair :
       \/ port = "win32" /\ ~AddressPart!LibReads(asked[t])
       \/ port = "linux_drv" /\ AddressPart!Wraps(asked[t])
       \/ told[t] = "success" =>
            /\ AddressPart!LibReads(asked[t])
            /\ sinAddr[t] = AddressPart!InMemory(AddressPart!LibAddress(asked[t]))

TextWritten ==
  \A t \in Pair : pc[t] = "idle" /\ pBuffer[t] # << >> /\ ~crossed[t] =>
    /\ pBuffer[t] = AddressPart!Dotted(sinAddr[t])
    /\ AddressPart!IsQuad(asked[t]) => pBuffer[t] = asked[t]

AddressInv == AddressTypes /\ OwnCopied /\ KernelWord /\ TextRead /\ TextWritten

LEMMA TextsAreSeqs == AddressTexts \cup {<< >>} \subseteq Seq(Int) /\ ~AddressPart!IsQuad(<< >>)
<1>1. AddressTexts \subseteq Seq(Nat \cup {-1, -2})
  BY AddressFacts
<1>2. ASSUME NEW x \in Seq(Nat \cup {-1, -2})
      PROVE  x \in Seq(Int)
  OBVIOUS
<1>3. ~AddressPart!IsQuad(<< >>)
  <2>1. Len(<< >>) # 7
    OBVIOUS
  <2> QED
    BY <2>1, Zenon DEF AddressPart!IsQuad
<1>4. << >> \in Seq(Int)
  OBVIOUS
<1>5. \A x \in AddressTexts \cup {<< >>} : x \in Seq(Int)
  BY <1>1, <1>2, <1>4, Zenon
<1> QED
  BY <1>3, <1>5

LEMMA AddressInit == AddressPart!Init => AddressInv
<1> SUFFICES ASSUME AddressPart!Init
             PROVE  AddressInv
  OBVIOUS
<1> USE DEF AddressPart!Init, AddressPart!Nothing
<1>1. AddressTypes
  BY DEF AddressTypes, AddressPart!AllPorts
<1>2. OwnCopied
  BY DEF OwnCopied
<1>3. KernelWord
  BY AddressFacts DEF KernelWord, Quads, Places, Byte, AddressPart!Zeros
<1>4. TextRead /\ TextWritten
  BY TextsAreSeqs DEF TextRead, TextWritten
<1> QED
  BY <1>1, <1>2, <1>3, <1>4 DEF AddressInv

\* A text is read by thread t to address a: what is asked of each port's reader.
Reading(t, x, a, result) ==
  /\ result \in {"success", "error"}
  /\ AddressPart!IsQuad(x) =>
       result = "success" /\ a = AddressPart!InMemory(AddressPart!Fields(x))
  /\ \/ port = "win32" /\ ~AddressPart!LibReads(x)
     \/ port = "linux_drv" /\ AddressPart!Wraps(x)
     \/ result = "success" =>
          AddressPart!LibReads(x) /\ a = AddressPart!InMemory(AddressPart!LibAddress(x))
  /\ port = "linux_drv" => a \in Quads

LEMMA ReadingKeeps ==
  ASSUME AddressInv, NEW t \in Pair, NEW x \in AddressTexts, NEW a, NEW result,
         pc[t] = "idle", Reading(t, x, a, result),
         asked' = [asked EXCEPT ![t] = x], pBuffer' = [pBuffer EXCEPT ![t] = << >>],
         sinAddr' = [sinAddr EXCEPT ![t] = a], told' = [told EXCEPT ![t] = result],
         UNCHANGED <<port, pc, buffer, little, crossed>>
  PROVE  AddressInv'
<1>1. AddressTypes /\ OwnCopied /\ KernelWord /\ TextRead /\ TextWritten
  BY DEF AddressInv
<1>2. /\ \A u \in Pair : asked'[u] = IF u = t THEN x ELSE asked[u]
      /\ \A u \in Pair : pBuffer'[u] = IF u = t THEN << >> ELSE pBuffer[u]
      /\ \A u \in Pair : sinAddr'[u] = IF u = t THEN a ELSE sinAddr[u]
      /\ \A u \in Pair : told'[u] = IF u = t THEN result ELSE told[u]
  BY <1>1 DEF AddressTypes
<1>3. AddressTypes'
  BY <1>1, <1>2 DEF AddressTypes, Reading
<1>4. OwnCopied'
  BY <1>1, <1>2 DEF OwnCopied
<1>5. KernelWord'
  BY <1>1, <1>2 DEF KernelWord, Reading
<1>6. TextRead'
  BY <1>1, <1>2 DEF TextRead, Reading, AddressPart!InMemory
<1>7. TextWritten'
  BY <1>1, <1>2 DEF TextWritten
<1> QED
  BY <1>3, <1>4, <1>5, <1>6, <1>7 DEF AddressInv

\* The readers of the library and of the kernel.
LEMMA AtonKeeps ==
  ASSUME AddressInv, NEW t \in Pair, AddressPart!SocketAton(t)
  PROVE  AddressInv'
<1>1. AddressTypes /\ KernelWord
  BY DEF AddressInv
<1>2. PICK x \in AddressTexts :
        \/ AddressPart!LinuxApplAton(t, x) \/ AddressPart!VxworksAton(t, x)
        \/ AddressPart!EcosAton(t, x) \/ AddressPart!Win32Aton(t, x) \/ AddressPart!LinuxDrvAton(t, x)
  BY DEF AddressPart!SocketAton
<1>3. x \in Seq(Int)
  BY TextsAreSeqs
<1>4. AddressPart!IsQuad(x) =>
        /\ AddressPart!Fields(x) \in Quads
        /\ AddressPart!LibReads(x) /\ AddressPart!LibAddress(x) = AddressPart!Fields(x)
  BY <1>3, QuadFacts
<1> DEFINE Stored(a) == AddressPart!InMemory(a)
<1>10. port # "linux_drv" => \A a : Stored(a) = a
  BY <1>1 DEF AddressTypes, AddressPart!InMemory
<1> HIDE DEF Stored
<1>5. ASSUME NEW p, AddressPart!Reads(p, t, x), NEW a, NEW result,
             AddressPart!Stores(t, a, result), Reading(t, x, a, result)
      PROVE  AddressInv'
  BY <1>5, ReadingKeeps DEF AddressPart!Reads, AddressPart!Stores, AddressPart!Nothing
<1>6. ASSUME NEW p, p # "linux_drv", AddressPart!Reads(p, t, x), AddressPart!Inet_aton(t, x)
      PROVE  AddressInv'
  <2>1. port # "linux_drv"
    BY <1>6 DEF AddressPart!Reads
  <2>2. CASE AddressPart!LibReads(x)
    <3>1. AddressPart!Stores(t, AddressPart!LibAddress(x), "success")
      BY <1>6, <2>2 DEF AddressPart!Inet_aton
    <3>2. Reading(t, x, AddressPart!LibAddress(x), "success")
      BY <1>4, <1>10, <2>1, <2>2 DEF Reading, Stored
    <3> QED
      BY <1>5, <1>6, <3>1, <3>2
  <2>3. CASE ~AddressPart!LibReads(x)
    <3>1. AddressPart!Stores(t, sinAddr[t], "error")
      BY <1>6, <2>3 DEF AddressPart!Inet_aton
    <3>2. Reading(t, x, sinAddr[t], "error")
      BY <1>4, <2>1, <2>3 DEF Reading
    <3> QED
      BY <1>5, <1>6, <3>1, <3>2
  <2> QED
    BY <2>2, <2>3
<1>7. CASE AddressPart!LinuxApplAton(t, x) \/ AddressPart!VxworksAton(t, x) \/ AddressPart!EcosAton(t, x)
  BY <1>6, <1>7 DEF AddressPart!LinuxApplAton, AddressPart!VxworksAton, AddressPart!EcosAton
<1>8. CASE AddressPart!Win32Aton(t, x)
  <2> DEFINE a == IF AddressPart!LibReads(x) THEN AddressPart!LibAddress(x) ELSE AddressPart!InaddrNone
  <2>1. AddressPart!Reads("win32", t, x) /\ AddressPart!Stores(t, a, "success")
    BY <1>8 DEF AddressPart!Win32Aton
  <2>2. port = "win32"
    BY <2>1 DEF AddressPart!Reads
  <2>3. Reading(t, x, a, "success")
    BY <1>4, <1>10, <2>2 DEF Reading, Stored
  <2> QED
    BY <1>5, <2>1, <2>3
<1>9. CASE AddressPart!LinuxDrvAton(t, x)
  <2>1. AddressPart!Reads("linux_drv", t, x) /\ port = "linux_drv"
    BY <1>9 DEF AddressPart!LinuxDrvAton, AddressPart!Reads
  <2>2. sinAddr[t] \in Quads
    BY <1>1, <2>1 DEF KernelWord
  <2>3. CASE FourTaken(x)
    <3>1. PartsOf(x) \in Quads
      BY <1>3, <2>3, KernelTakes
    <3>2. AddressPart!Stores(t, AddressPart!KernelStore(sinAddr[t], PartsOf(x)), "success")
      BY <1>3, <1>9, <2>3, KernelReads DEF AddressPart!LinuxDrvAton
    <3>3. AddressPart!KernelStore(sinAddr[t], PartsOf(x)) = AddressPart!InMemory(PartsOf(x))
      BY <2>2, <3>1, KernelStores
    <3>4. AddressPart!InMemory(PartsOf(x)) \in Quads
      BY <3>1, MemoryQuad
    <3>5. \/ AddressPart!IsQuad(x) /\ PartsOf(x) = AddressPart!Fields(x)
          \/ ~AddressPart!IsQuad(x) /\ AddressPart!Wraps(x)
      BY <1>3, <2>3, KernelTakes
    <3>6. Reading(t, x, AddressPart!InMemory(PartsOf(x)), "success")
      BY <1>4, <2>1, <3>4, <3>5 DEF Reading
    <3> QED
      BY <1>5, <2>1, <3>2, <3>3, <3>6
  <2>4. CASE ~FourTaken(x)
    <3>1. AddressPart!Stores(t, sinAddr[t], "error")
      BY <1>3, <1>9, <2>4, KernelReads DEF AddressPart!LinuxDrvAton
    <3>2. Reading(t, x, sinAddr[t], "error")
      BY <1>3, <2>2, <2>4, KernelTakes DEF Reading
    <3> QED
      BY <1>5, <2>1, <3>1, <3>2
  <2> QED
    BY <2>3, <2>4
<1> QED
  BY <1>2, <1>7, <1>8, <1>9

\* What a thread gets is the text of its address, and that which was read as four numbers.
LEMMA OwnTextWritten ==
  ASSUME AddressInv, port # "linux_drv", NEW t \in Pair, NEW b,
         b = AddressPart!Dotted(sinAddr[t]), AddressPart!IsQuad(asked[t])
  PROVE  b = asked[t]
<1>1. asked[t] \in Seq(Int)
  BY TextsAreSeqs DEF AddressInv, AddressTypes
<1>2. sinAddr[t] = AddressPart!Fields(asked[t])
  BY DEF AddressInv, AddressTypes, TextRead, AddressPart!InMemory
<1> QED
  BY <1>1, <1>2, QuadFacts

LEMMA NtoaKeeps ==
  ASSUME AddressInv, NEW t \in Pair, AddressPart!SocketNtoa(t)
  PROVE  AddressInv'
<1>1. AddressTypes /\ OwnCopied /\ KernelWord /\ TextRead /\ TextWritten
  BY DEF AddressInv
<1>2. ASSUME NEW p, AddressPart!Fills(p, t)
      PROVE  AddressInv'
  <2>1. /\ pc[t] = "idle" /\ pc' = [pc EXCEPT ![t] = "copying"]
        /\ UNCHANGED <<port, sinAddr, asked, told, pBuffer, little>>
    BY <1>2 DEF AddressPart!Fills
  <2>2. \A u \in Pair :
          /\ pc'[u] = IF u = t THEN "copying" ELSE pc[u]
          /\ buffer'[u] = IF u \in AddressPart!Shares(t) THEN AddressPart!Dotted(sinAddr[t])
                          ELSE buffer[u]
          /\ crossed'[u] = (u # t /\ (crossed[u] \/ (u \in AddressPart!Shares(t) /\ pc[u] = "copying")))
    BY <1>1, <1>2 DEF AddressPart!Fills, AddressTypes
  <2>3. t \in AddressPart!Shares(t)
    BY DEF AddressPart!Shares
  <2>4. AddressTypes'
    BY <1>1, <1>2, <2>1 DEF AddressTypes, AddressPart!Fills
  <2>5. OwnCopied'
    <3> SUFFICES ASSUME NEW u \in Pair, pc'[u] = "copying", ~crossed'[u]
                 PROVE  buffer'[u] = AddressPart!Dotted(sinAddr[u])
      BY <2>1 DEF OwnCopied
    <3>1. CASE u = t
      BY <2>2, <2>3, <3>1
    <3>2. CASE u # t
      <4>1. pc[u] = "copying"
        BY <2>2, <3>2
      <4>2. ~crossed[u] /\ u \notin AddressPart!Shares(t)
        BY <2>2, <3>2, <4>1
      <4> QED
        BY <1>1, <2>2, <4>1, <4>2 DEF OwnCopied
    <3> QED
      BY <3>1, <3>2
  <2>6. KernelWord' /\ TextRead' /\ TextWritten'
    BY <1>1, <2>1, <2>2 DEF KernelWord, TextRead, TextWritten, AddressPart!InMemory, AddressTypes
  <2> QED
    BY <2>4, <2>5, <2>6 DEF AddressInv
<1>3. ASSUME NEW b, crossed[t] \/ b = AddressPart!Dotted(sinAddr[t]), port # "linux_drv",
             pBuffer' = [pBuffer EXCEPT ![t] = b], pc' = [pc EXCEPT ![t] = "idle"],
             UNCHANGED <<port, sinAddr, asked, told, little, crossed>>
      PROVE  TextWritten' /\ KernelWord' /\ TextRead'
  <2>1. \A u \in Pair :
          /\ pBuffer'[u] = IF u = t THEN b ELSE pBuffer[u]
          /\ u # t => pc'[u] = pc[u]
    BY <1>1, <1>3 DEF AddressTypes
  <2>2. ~crossed[t] /\ AddressPart!IsQuad(asked[t]) => b = asked[t]
    BY <1>3, OwnTextWritten
  <2>3. TextWritten'
    BY <1>1, <1>3, <2>1, <2>2 DEF TextWritten
  <2> QED
    BY <1>1, <1>3, <2>3 DEF KernelWord, TextRead, AddressPart!InMemory
<1>4. ASSUME NEW p, p # "linux_drv", AddressPart!Copies(p, t)
      PROVE  AddressInv'
  <2>1. /\ pc[t] = "copying" /\ pc' = [pc EXCEPT ![t] = "idle"]
        /\ pBuffer' = [pBuffer EXCEPT ![t] = buffer[t]]
        /\ port = p /\ UNCHANGED <<port, sinAddr, asked, told, buffer, little, crossed>>
    BY <1>4 DEF AddressPart!Copies
  <2>2. TextWritten' /\ KernelWord' /\ TextRead'
    BY <1>1, <1>3, <1>4, <2>1 DEF OwnCopied
  <2>3. AddressTypes'
    BY <1>1, <2>1 DEF AddressTypes
  <2>4. OwnCopied'
    BY <1>1, <2>1 DEF OwnCopied, AddressTypes
  <2> QED
    BY <2>2, <2>3, <2>4 DEF AddressInv
<1>5. ASSUME NEW p, p # "linux_drv", AddressPart!IntoOwn(p, t)
      PROVE  AddressInv'
  <2>1. /\ pBuffer' = [pBuffer EXCEPT ![t] = AddressPart!Dotted(sinAddr[t])]
        /\ pc[t] = "idle" /\ port = p
        /\ UNCHANGED <<port, pc, sinAddr, asked, told, buffer, little, crossed>>
    BY <1>5 DEF AddressPart!IntoOwn
  <2>4. pc' = [pc EXCEPT ![t] = "idle"]
    BY <1>1, <2>1 DEF AddressTypes
  <2>2. TextWritten' /\ KernelWord' /\ TextRead'
    BY <1>3, <1>5, <2>1, <2>4
  <2>3. AddressTypes' /\ OwnCopied'
    BY <1>1, <2>1 DEF AddressTypes, OwnCopied
  <2> QED
    BY <2>2, <2>3 DEF AddressInv
<1> QED
  BY <1>2, <1>4, <1>5
     DEF AddressPart!SocketNtoa, AddressPart!LinuxApplNtoa, AddressPart!Win32Ntoa,
         AddressPart!EcosNtoa, AddressPart!VxworksNtoa, AddressPart!NucleusNtoa

LEMMA AddrSetKeeps ==
  ASSUME AddressInv, NEW t \in Pair, AddressPart!SocAddrSet(t)
  PROVE  AddressInv'
<1>1. AddressTypes /\ OwnCopied /\ KernelWord /\ TextRead /\ TextWritten
  BY DEF AddressInv
<1>2. PICK x \in AddressTexts :
        AddressPart!IsQuad(x) /\ sinAddr' = [sinAddr EXCEPT ![t] = AddressPart!Fields(x)]
  BY DEF AddressPart!SocAddrSet
<1>3. AddressPart!Fields(x) \in Quads
  BY <1>2, TextsAreSeqs, QuadFacts
<1>4. /\ pc[t] = "idle" /\ UNCHANGED <<port, pc, buffer, little, crossed>>
      /\ asked' = [asked EXCEPT ![t] = << >>] /\ told' = [told EXCEPT ![t] = "none"]
      /\ pBuffer' = [pBuffer EXCEPT ![t] = << >>]
  BY DEF AddressPart!SocAddrSet, AddressPart!Nothing
<1>5. /\ \A u \in Pair : asked'[u] = IF u = t THEN << >> ELSE asked[u]
      /\ \A u \in Pair : pBuffer'[u] = IF u = t THEN << >> ELSE pBuffer[u]
      /\ \A u \in Pair : sinAddr'[u] = IF u = t THEN AddressPart!Fields(x) ELSE sinAddr[u]
      /\ \A u \in Pair : told'[u] = IF u = t THEN "none" ELSE told[u]
  BY <1>1, <1>2, <1>4 DEF AddressTypes
<1>6. AddressTypes'
  BY <1>1, <1>2, <1>4 DEF AddressTypes
<1>7. OwnCopied' /\ KernelWord'
  BY <1>1, <1>3, <1>4, <1>5 DEF OwnCopied, KernelWord
<1>8. TextRead' /\ TextWritten'
  BY <1>1, <1>4, <1>5, TextsAreSeqs DEF TextRead, TextWritten, AddressPart!InMemory
<1> QED
  BY <1>6, <1>7, <1>8 DEF AddressInv

AddressesInv == part = "addresses" => AddressInv

\* Four numbers with dots between them are read to the address of these four bytes on every
\* port, whatever the structure held before, but backwards in a kernel whose machine has the
\* lowest byte first; what is no address is an error, but on Windows and, with a number that
\* does not fit in a word, in the kernel; and a thread gets its own address as text, so that
\* four numbers come out as they went in, unless another has filled the buffer they share.
\* For any threads, texts and number of values of a byte.
THEOREM AddressesRight == Spec => []AddressesRead
<1>1. Init => AddressesInv
  BY AddressInit DEF Init, AddressesInv
<1>2. AddressesInv /\ [Next]_vars => AddressesInv'
  <2> SUFFICES ASSUME AddressesInv, [Next]_vars, part' = "addresses"
               PROVE  AddressInv'
    BY DEF AddressesInv
  <2>1. CASE part = "addresses" /\ AddressPart!Next
    <3>1. PICK t \in Pair :
            AddressPart!SocketAton(t) \/ AddressPart!SocketNtoa(t) \/ AddressPart!SocAddrSet(t)
      BY <2>1 DEF AddressPart!Next
    <3> QED
      BY <2>1, <3>1, AtonKeeps, NtoaKeeps, AddrSetKeeps DEF AddressesInv
  <2>2. CASE UNCHANGED vars
    <3>1. UNCHANGED <<part, port, pc, sinAddr, asked, told, buffer, pBuffer, little, crossed>>
      BY <2>2 DEF vars, shared, addressVars
    <3> QED
      BY <3>1 DEF AddressesInv, AddressInv, AddressTypes, OwnCopied, KernelWord, TextRead,
                  TextWritten, AddressPart!InMemory
  <2> QED
    BY <2>1, <2>2 DEF Next, Rest
<1>3. AddressesInv => AddressesRead
  <2> SUFFICES ASSUME AddressInv
               PROVE  AddressPart!QuadsRead /\ AddressPart!ErrorsKept /\ AddressPart!OwnText
    BY DEF AddressesInv, AddressesRead
  <2> QED
    BY DEF AddressInv, TextRead, TextWritten, AddressPart!QuadsRead, AddressPart!ErrorsKept,
           AddressPart!TellsErrors, AddressPart!OwnText, AddressPart!Nothing
<1> QED
  BY <1>1, <1>2, <1>3, PTL DEF Spec
=============================================================================
