----------------------------- MODULE FileAccess -----------------------------
(***************************************************************************)
(* IFXOS_FileLoad and IFXOS_FileWrite: several threads load and write one     *)
(* file through the streams of the C library, which keep written data until   *)
(* they pass it on.  Loading asks for the size first, then opens, allocates    *)
(* and reads, each a step of its own, as other threads may write meanwhile.    *)
(***************************************************************************)
EXTENDS Integers, Sequences, FiniteSets

CONSTANTS
  Ports,
  Threads,
  Contents   \* what is written: sequences of words

Stubs == {"generic", "rtems"}
AllPorts == {"linux_appl", "sun_os", "ecos", "vxworks", "win32", "nucleus"} \cup Stubs

Hole == 0   \* what the file system shows where nothing was written

\* What is assumed of the constants.
FileAccessAssumption ==
  /\ Ports \subseteq AllPorts
  /\ Contents \subseteq Seq(Nat \ {Hole}) /\ << >> \notin Contents

VARIABLES
  port,
  file,      \* what the file system has
  pc,        \* what each thread does
  streams,   \* the threads whose stream is open
  alloc,     \* the words of memory each thread got of a load
  size,      \* what the load was told of the size
  data,      \* the words read so far, or to be written
  passed,    \* how many words of a write have reached the file
  told,      \* what the last call of each thread returned
  quiet,     \* no write has gone on since the call began, but its own
  saved,     \* what the last write has reported to be written, if it was alone
  faulty     \* the last close did not pass on everything

call == <<pc, size, data, told>>
vars == <<port, file, pc, streams, alloc, size, data, passed, told, quiet, saved, faulty>>

Unknown == << >>

Init ==
  /\ port \in Ports
  /\ file = << >> /\ streams = {}
  /\ pc = [t \in Threads |-> "idle"] /\ told = [t \in Threads |-> "none"]
  /\ alloc = [t \in Threads |-> 0] /\ size = [t \in Threads |-> 0]
  /\ data = [t \in Threads |-> << >>] /\ passed = [t \in Threads |-> 0]
  /\ quiet = [t \in Threads |-> TRUE]
  /\ saved = Unknown /\ faulty = FALSE

Writers == {t \in Threads : pc[t] \in {"writing", "closing"}}

At(t, from, to) == pc[t] = from /\ pc' = [pc EXCEPT ![t] = to]

Returns(t, from, result) ==
  /\ At(t, from, "idle")
  /\ told' = [told EXCEPT ![t] = result]

-----------------------------------------------------------------------------
(* FileLoad.                                                                *)

noWrite == <<port, file, passed, saved, faulty>>

\* The memory of the last load is freed by its owner before the next call.
Stat(t) ==
  /\ alloc' = [alloc EXCEPT ![t] = 0]
  /\ quiet' = [quiet EXCEPT ![t] = Writers = {}]
  /\ \/ /\ file # << >>
        /\ At(t, "idle", "statted")
        /\ size' = [size EXCEPT ![t] = Len(file)]
        /\ UNCHANGED told
     \/ Returns(t, "idle", "error") /\ UNCHANGED size
  /\ data' = [data EXCEPT ![t] = << >>]
  /\ UNCHANGED <<noWrite, streams>>

OpenRead(t) ==
  /\ \/ At(t, "statted", "opened") /\ streams' = streams \cup {t} /\ UNCHANGED told
     \/ Returns(t, "statted", "error") /\ UNCHANGED streams
  /\ UNCHANGED <<noWrite, alloc, size, data, quiet>>

\* Mutant: no memory, and the stream stays open.
AllocateMut_NoClose(t) ==
  /\ \/ /\ At(t, "opened", "reading")
        /\ alloc' = [alloc EXCEPT ![t] = size[t] + 1]
        /\ UNCHANGED <<streams, told>>
     \/ Returns(t, "opened", "error") /\ UNCHANGED <<alloc, streams>>
  /\ UNCHANGED <<noWrite, size, data, quiet>>

\* A word more than the size, for the end of a string.
Allocate(t) ==
  /\ \/ /\ At(t, "opened", "reading")
        /\ alloc' = [alloc EXCEPT ![t] = size[t] + 1]
        /\ UNCHANGED <<streams, told>>
     \/ Returns(t, "opened", "error") /\ streams' = streams \ {t} /\ UNCHANGED alloc
  /\ UNCHANGED <<noWrite, size, data, quiet>>

Next_(t) == Len(data[t]) + 1

ReadOn(t) ==
  /\ pc[t] = "reading"
  /\ Next_(t) <= size[t] /\ Next_(t) <= Len(file)
  /\ data' = [data EXCEPT ![t] = Append(@, file[Next_(t)])]
  /\ UNCHANGED <<noWrite, pc, told, streams, alloc, size, quiet>>

\* Mutant: what could be read is good enough.
ReadDoneMut_Short(t) ==
  /\ Returns(t, "reading", "success")
  /\ streams' = streams \ {t}
  /\ UNCHANGED <<noWrite, alloc, size, data, quiet>>

\* fread returns: everything was read, or the file has ended before or failed.
ReadDone(t) ==
  /\ \/ /\ Next_(t) > size[t]
        /\ Returns(t, "reading", "success")
        /\ UNCHANGED alloc
     \/ /\ Next_(t) <= size[t]
        /\ Returns(t, "reading", "error")
        /\ alloc' = [alloc EXCEPT ![t] = 0]
  /\ streams' = streams \ {t}
  /\ UNCHANGED <<noWrite, size, data, quiet>>

Loads(p, t) ==
  /\ port = p
  /\ Stat(t) \/ OpenRead(t) \/ Allocate(t) \/ ReadOn(t) \/ ReadDone(t)

NoLoad(p, t) ==
  /\ port = p
  /\ Returns(t, "idle", "error")
  /\ UNCHANGED <<noWrite, streams, alloc, size, data, quiet>>

-----------------------------------------------------------------------------
(* FileWrite.                                                               *)

\* Mutant: the file is opened for update.
OpenWriteMut_Update(t, d) ==
  /\ alloc' = [alloc EXCEPT ![t] = 0]
  /\ \/ /\ At(t, "idle", "writing")
        /\ UNCHANGED file /\ saved' = Unknown /\ faulty' = FALSE
        /\ streams' = streams \cup {t}
        /\ data' = [data EXCEPT ![t] = d]
        /\ passed' = [passed EXCEPT ![t] = 0]
        /\ quiet' = [u \in Threads |-> u = t /\ Writers = {}]
        /\ UNCHANGED told
     \/ /\ Returns(t, "idle", "error")
        /\ data' = [data EXCEPT ![t] = << >>]
        /\ UNCHANGED <<file, streams, passed, quiet, saved, faulty>>
  /\ UNCHANGED <<port, size>>

\* Opening for writing empties the file.
OpenWrite(t, d) ==
  /\ alloc' = [alloc EXCEPT ![t] = 0]
  /\ \/ /\ At(t, "idle", "writing")
        /\ file' = << >> /\ saved' = Unknown /\ faulty' = FALSE
        /\ streams' = streams \cup {t}
        /\ data' = [data EXCEPT ![t] = d]
        /\ passed' = [passed EXCEPT ![t] = 0]
        /\ quiet' = [u \in Threads |-> u = t /\ Writers = {}]
        /\ UNCHANGED told
     \/ /\ Returns(t, "idle", "error")
        /\ data' = [data EXCEPT ![t] = << >>]
        /\ UNCHANGED <<file, streams, passed, quiet, saved, faulty>>
  /\ UNCHANGED <<port, size>>

\* The stream passes a word on, to the place it has come to.
PassOn(t) ==
  /\ pc[t] \in {"writing", "closing"} /\ passed[t] < Len(data[t])
  /\ passed' = [passed EXCEPT ![t] = @ + 1]
  /\ LET n == passed'[t]
     IN file' = [i \in 1 .. (IF n > Len(file) THEN n ELSE Len(file)) |->
                   IF i = n THEN data[t][n] ELSE IF i <= Len(file) THEN file[i] ELSE Hole]
  /\ UNCHANGED <<port, call, streams, alloc, quiet, saved, faulty>>

\* fwrite took everything, or less and the call fails.
Written(t) ==
  \/ At(t, "writing", "closing")
     /\ UNCHANGED <<port, file, streams, alloc, size, data, passed, told, quiet, saved, faulty>>
  \/ /\ Returns(t, "writing", "error")
     /\ streams' = streams \ {t}
     /\ UNCHANGED <<port, file, alloc, size, data, passed, quiet, saved, faulty>>

\* fclose, which passes on the rest or fails; its result is not looked at.
CloseWrite(t) ==
  /\ Returns(t, "closing", "success")
  /\ streams' = streams \ {t}
  /\ saved' = IF quiet[t] THEN data[t] ELSE Unknown
  /\ faulty' = (passed[t] < Len(data[t]))
  /\ UNCHANGED <<port, file, alloc, size, data, passed, quiet>>

Writes(p, t, d) ==
  /\ port = p
  /\ OpenWrite(t, d) \/ PassOn(t) \/ Written(t) \/ CloseWrite(t)

\* fopen, fwrite and fclose do nothing and succeed.
Pretends(p, t, d) ==
  /\ port = p
  /\ Returns(t, "idle", "success")
  /\ saved' = d
  /\ UNCHANGED <<port, file, streams, alloc, size, data, passed, quiet, faulty>>

-----------------------------------------------------------------------------
LinuxApplLoad(t) == Loads("linux_appl", t)
SunOsLoad(t) == Loads("sun_os", t)
EcosLoad(t) == Loads("ecos", t)
VxworksLoad(t) == Loads("vxworks", t)
Win32Load(t) == Loads("win32", t)
NucleusLoad(t) == Loads("nucleus", t)
RtemsLoad(t) == NoLoad("rtems", t)
GenericLoad(t) == NoLoad("generic", t)

LinuxApplWrite(t, d) == Writes("linux_appl", t, d)
SunOsWrite(t, d) == Writes("sun_os", t, d)
EcosWrite(t, d) == Writes("ecos", t, d)
VxworksWrite(t, d) == Writes("vxworks", t, d)
Win32Write(t, d) == Writes("win32", t, d)
NucleusWrite(t, d) == Writes("nucleus", t, d)
RtemsWrite(t, d) == Pretends("rtems", t, d)
GenericWrite(t, d) == Pretends("generic", t, d)

FileLoad(t) ==
  \/ LinuxApplLoad(t) \/ SunOsLoad(t) \/ EcosLoad(t) \/ VxworksLoad(t)
  \/ Win32Load(t) \/ NucleusLoad(t) \/ RtemsLoad(t) \/ GenericLoad(t)

FileWrite(t, d) ==
  \/ LinuxApplWrite(t, d) \/ SunOsWrite(t, d) \/ EcosWrite(t, d) \/ VxworksWrite(t, d)
  \/ Win32Write(t, d) \/ NucleusWrite(t, d) \/ RtemsWrite(t, d) \/ GenericWrite(t, d)

FileCall(t) == FileLoad(t) \/ \E d \in Contents : FileWrite(t, d)

Next == \E t \in Threads : FileCall(t)

Spec == Init /\ [][Next]_vars

-----------------------------------------------------------------------------
\* However a call ends, its stream is closed, and memory is left only to the caller of
\* a load that has succeeded.
NothingLeft ==
  \A t \in Threads : pc[t] = "idle" =>
    /\ t \notin streams
    /\ alloc[t] > 0 => told[t] = "success"

\* A load that succeeds while nobody writes returns the file, all of it, and the word
\* behind it lies in the memory, too.
LoadIsFile ==
  \A t \in Threads :
    pc[t] = "reading" /\ pc'[t] = "idle" /\ told'[t] = "success"
      => Len(data[t]) < alloc[t] /\ (quiet[t] => data[t] = file)

\* "IFX_ERROR in case of errors": what an undisturbed write has reported as written is
\* what the file holds until the next one.
WriteTold == saved # Unknown => file = saved

\* So it is where there is a file system, and the close of the stream has passed
\* everything on.
WriteKept == port \in Stubs \/ faulty \/ WriteTold

\* What a load returns was written by one write.
LoadsOneVersion ==
  \A t \in Threads : alloc[t] > 0 /\ pc[t] = "idle" => data[t] \in Contents
=============================================================================
