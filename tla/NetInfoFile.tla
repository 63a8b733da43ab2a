---- MODULE NetInfoFile ----
(***************************************************************************)
(* macAddrInfo.json and gaudinet.json of a container                       *)
(* (internal/netinfo/netinfo.go): Generate and GaudinetFile, step by step, *)
(* for writers that work on one root filesystem at a time - the runtime,   *)
(* the cli, and those of a request that is repeated while the one before   *)
(* still runs.  Every writer makes one call.                               *)
(***************************************************************************)
EXTENDS Integers, Sequences, FiniteSets, Functions

CONSTANTS
  Writer,        \* the calls
  GaudinetCalls, \* those of them that call GaudinetFile; the others Generate
  Parts,         \* the writes a file takes
  Looks,         \* what sysfs may say of the accelerators of the calls
  Sources,       \* sizes the host's gaudinet file may have; -1 if there is none
  Images,        \* what may be at /etc, /etc/habanalabs and the files before
  MaxFaults,     \* bound on errors of file operations
  MaxKills,      \* bound on killed writers
  MaxReplaced    \* bound on changes of the host

VARIABLES
  dirs,      \* "etc" and "habanalabs": "none", "dir" or "other" (a symlink...)
  file,      \* what the two names hold: an inode, "none" or "other"
  temps,     \* the temporary files there are, by the writer that made them
  inode,     \* the contents of the inodes: parts written, and the data
  look,      \* sysfs now
  source,    \* the host's gaudinet file now
  pc, at,    \* a writer's next step, and the directory it is about to open
  data,      \* what a writer is about to write
  result,    \* "running", "ok", "error" or "killed"
  faults, kills, replaced,
  before,    \* the writers that had ended when a writer began
  hit        \* the writers that met a fault

disk   == <<dirs, file, temps, inode>>
hostv  == <<look, source>>
bounds == <<faults, kills, replaced>>
vars   == <<disk, hostv, pc, at, data, result, bounds, before, hit>>

WritersSplit  == GaudinetCalls \subseteq Writer
BoundsNatural == Parts \in Nat \ {0} /\ {MaxFaults, MaxKills, MaxReplaced} \subseteq Nat
ASSUME CallsBounded == WritersSplit /\ BoundsNatural

\* What the directories and the names may be at first; no call is called so.
ASSUME ImagesPlain ==
  /\ {"image", "none", "other"} \cap Writer = {}
  /\ \A image \in Images :
       /\ image.dirs \in [{"etc", "habanalabs"} -> {"none", "dir", "other"}]
       /\ image.file \in [{"gaudinet", "macAddrInfo"} -> {"image", "none", "other"}]

Name(w) == IF w \in GaudinetCalls THEN "gaudinet" ELSE "macAddrInfo"
File    == {"gaudinet", "macAddrInfo"}

NoData == <<>>

----------------------------------------------------------------------------
(* netConfig: for every device its address and the MAC of each port        *)

InterfacesCount(type) == IF type = "gaudi" THEN 10 ELSE 24

Broadcast == "ff"

\* Mutant: ports are counted from 1.
MacListFromOne(ports, n) ==
  [i \in 1 .. n |-> IF i \in DOMAIN ports THEN ports[i] ELSE Broadcast]

\* devicesMACAddress; ports is the map of extPortsMACAddress.
MacList(ports, n) ==
  [i \in 1 .. n |-> IF i - 1 \in DOMAIN ports THEN ports[i - 1] ELSE Broadcast]

\* A look gives the devices of the request, the type of the first one, and for
\* every device its address and ports; a file that cannot be read is an error.
Unreadable(l) == /\ l.devices # {}
                 /\ \/ l.type = "unreadable"
                    \/ \E d \in l.devices : l.pci[d] = "unreadable" \/ -1 \in DOMAIN l.ports[d]

\* dev_port of an accelerator's interface is below the number of interfaces of
\* its type, and no interface has the broadcast address.
ASSUME PortsFit ==
  \A l \in Looks : ~Unreadable(l) => \A d \in l.devices :
    \A port \in DOMAIN l.ports[d] :
      port \in 0 .. (InterfacesCount(l.type) - 1) /\ l.ports[d][port] # Broadcast

NetConfig(l) ==
  [d \in l.devices |-> [pci |-> l.pci[d], macs |-> MacList(l.ports[d], InterfacesCount(l.type))]]

----------------------------------------------------------------------------

Running(w, here) == result[w] = "running" /\ pc[w] = here
Goto(w, there)   == pc' = [pc EXCEPT ![w] = there]
End(w, r)        == result' = [result EXCEPT ![w] = r] /\ Goto(w, "end")

Fault(w) == /\ faults < MaxFaults /\ faults' = faults + 1
            /\ hit' = hit \cup {w}
NoFault  == UNCHANGED <<faults, hit>>

\* Where a call begins: GaudinetFile looks at its source first.
First(w) == IF w \in GaudinetCalls THEN "source" ELSE "check"

Init == /\ \E image \in Images :
             /\ dirs = image.dirs /\ file = image.file
             /\ inode = [i \in {"image"} |-> [parts |-> Parts, data |-> image.data]]
        /\ temps = {}
        /\ look \in Looks /\ source \in Sources
        /\ pc = [w \in Writer |-> "start"]
        /\ at = [w \in Writer |-> "etc"]
        /\ data = [w \in Writer |-> NoData]
        /\ result = [w \in Writer |-> "idle"]
        /\ faults = 0 /\ kills = 0 /\ replaced = 0
        /\ before = [w \in Writer |-> {}] /\ hit = {}

Ended == {w \in Writer : result[w] \in {"ok", "error", "killed"}}

Begin(w) ==
  /\ result[w] = "idle"
  /\ result' = [result EXCEPT ![w] = "running"]
  /\ Goto(w, First(w))
  /\ before' = [before EXCEPT ![w] = Ended]
  /\ UNCHANGED <<disk, hostv, at, data, bounds, hit>>

\* os.Stat of the source: a missing or an empty file is nothing to copy.
StatSource(w) ==
  /\ Running(w, "source")
  /\ \/ source \in {-1, 0} /\ End(w, "ok") /\ NoFault
     \/ source > 0 /\ Goto(w, "open") /\ UNCHANGED result /\ NoFault
     \/ Fault(w) /\ End(w, "error")
  /\ UNCHANGED <<disk, hostv, at, data, kills, replaced, before>>

\* os.Open of the source: the file there is now is the one that is copied.
OpenSource(w) ==
  /\ Running(w, "open")
  /\ \/ source = -1 /\ End(w, "ok") /\ NoFault /\ UNCHANGED data
     \/ source # -1 /\ data' = [data EXCEPT ![w] = <<source>>] /\ Goto(w, "check")
        /\ UNCHANGED result /\ NoFault
     \/ Fault(w) /\ End(w, "error") /\ UNCHANGED data
  /\ UNCHANGED <<disk, hostv, at, kills, replaced, before>>

----------------------------------------------------------------------------
(* openNetinfoDir                                                          *)

\* symlinkCheck: what is there must be directories and a regular file.
SymlinkCheck(w) ==
  /\ Running(w, "check")
  /\ \/ /\ "other" \notin {dirs["etc"], dirs["habanalabs"], file[Name(w)]}
        /\ Goto(w, "opendir") /\ UNCHANGED result /\ NoFault
     \/ /\ "other" \in {dirs["etc"], dirs["habanalabs"], file[Name(w)]}
        /\ End(w, "error") /\ NoFault
     \/ Fault(w) /\ End(w, "error")
  /\ UNCHANGED <<disk, hostv, at, data, kills, replaced, before>>

Opened(w) == IF at[w] = "etc"
             THEN at' = [at EXCEPT ![w] = "habanalabs"] /\ Goto(w, "opendir")
             ELSE Goto(w, IF w \in GaudinetCalls THEN "stat" ELSE "collect") /\ UNCHANGED at

\* Openat of the next component; one that is missing is to be made.
OpenDir(w) ==
  /\ Running(w, "opendir")
  /\ \/ dirs[at[w]] = "dir" /\ Opened(w) /\ UNCHANGED result /\ NoFault
     \/ dirs[at[w]] = "none" /\ Goto(w, "mkdir") /\ UNCHANGED <<at, result>> /\ NoFault
     \/ dirs[at[w]] = "other" /\ End(w, "error") /\ UNCHANGED at /\ NoFault
     \/ Fault(w) /\ End(w, "error") /\ UNCHANGED at
  /\ UNCHANGED <<disk, hostv, data, kills, replaced, before>>

\* Mutant: a directory another writer has made is an error.
MkdirExists(w) == End(w, "error")

\* EEXIST of Mkdirat
DirExists(w) == Goto(w, "reopen") /\ UNCHANGED result

Mkdir(w) ==
  /\ Running(w, "mkdir")
  /\ \/ /\ dirs[at[w]] = "none"
        /\ dirs' = [dirs EXCEPT ![at[w]] = "dir"]
        /\ Goto(w, "reopen") /\ UNCHANGED result /\ NoFault
     \/ dirs[at[w]] # "none" /\ DirExists(w) /\ UNCHANGED dirs /\ NoFault
     \/ Fault(w) /\ End(w, "error") /\ UNCHANGED dirs
  /\ UNCHANGED <<file, temps, inode, hostv, at, data, kills, replaced, before>>

ReopenDir(w) ==
  /\ Running(w, "reopen")
  /\ \/ Opened(w) /\ UNCHANGED result /\ NoFault
     \/ Fault(w) /\ End(w, "error") /\ UNCHANGED at
  /\ UNCHANGED <<disk, hostv, data, kills, replaced, before>>

\* collect: without information no file is written.
Collect(w) ==
  /\ Running(w, "collect")
  /\ IF Unreadable(look)
     THEN End(w, "error") /\ UNCHANGED data
     ELSE IF look.devices = {}
     THEN End(w, "ok") /\ UNCHANGED data
     ELSE data' = [data EXCEPT ![w] = <<NetConfig(look)>>] /\ Goto(w, "stat") /\ UNCHANGED result
  /\ UNCHANGED <<disk, hostv, at, bounds, before, hit>>

----------------------------------------------------------------------------
(* writeNetinfoFile                                                        *)

StatFile(w) ==
  /\ Running(w, "stat")
  /\ \/ file[Name(w)] # "other" /\ Goto(w, "create") /\ UNCHANGED result /\ NoFault
     \/ file[Name(w)] = "other" /\ End(w, "error") /\ NoFault
     \/ Fault(w) /\ End(w, "error")
  /\ UNCHANGED <<disk, hostv, at, data, kills, replaced, before>>

\* Mutant: the file is written in place.
WriteInPlace(w) == /\ file' = [file EXCEPT ![Name(w)] = w] /\ UNCHANGED temps

\* Openat with O_EXCL under a name nobody else has.
NewFile(w) == temps' = temps \cup {w} /\ UNCHANGED file

CreateTemp(w) ==
  /\ Running(w, "create")
  /\ \/ /\ NewFile(w)
        /\ inode' = [i \in DOMAIN inode \cup {w} |->
                       IF i = w THEN [parts |-> 0, data |-> data[w]] ELSE inode[i]]
        /\ Goto(w, "write") /\ UNCHANGED result /\ NoFault
     \/ Fault(w) /\ End(w, "error") /\ UNCHANGED <<file, temps, inode>>
  /\ UNCHANGED <<dirs, hostv, at, data, kills, replaced, before>>

\* Mutant: the temporary file is removed after a success only.
CleanUpSkipped(w, r) == End(w, r) /\ temps' = IF r = "ok" THEN temps \ {w} ELSE temps

\* The deferred Unlinkat, after which the call returns.
CleanUp(w, r) == End(w, r) /\ temps' = temps \ {w}

\* The next part is written, or the file is closed.
WriteTemp(w) ==
  /\ Running(w, "write")
  /\ \/ /\ inode[w].parts < Parts
        /\ inode' = [inode EXCEPT ![w].parts = @ + 1]
        /\ UNCHANGED <<pc, result, temps>> /\ NoFault
     \/ /\ inode[w].parts = Parts
        /\ Goto(w, "rename") /\ UNCHANGED <<result, temps, inode>> /\ NoFault
     \/ Fault(w) /\ CleanUp(w, "error") /\ UNCHANGED inode
  /\ UNCHANGED <<dirs, file, hostv, at, data, kills, replaced, before>>

\* Mutant: the error of the rename is lost.
RenameErrorLost(w) == CleanUp(w, "ok")

RenameFails(w) == CleanUp(w, "error")

\* Renameat, and then the deferred Unlinkat of a name that is gone.
Rename(w) ==
  /\ Running(w, "rename")
  /\ \/ file' = [file EXCEPT ![Name(w)] = w] /\ CleanUp(w, "ok") /\ NoFault
     \/ Fault(w) /\ RenameFails(w) /\ UNCHANGED file
  /\ UNCHANGED <<dirs, inode, hostv, at, data, kills, replaced, before>>

----------------------------------------------------------------------------
(* The surroundings                                                        *)

Kill(w) ==
  /\ result[w] = "running"
  /\ kills < MaxKills /\ kills' = kills + 1
  /\ End(w, "killed")
  /\ UNCHANGED <<disk, hostv, at, data, faults, replaced, before, hit>>

\* The host's gaudinet file is replaced, sysfs changes.
Replace ==
  /\ replaced < MaxReplaced /\ replaced' = replaced + 1
  /\ look' \in Looks /\ source' \in Sources
  /\ hostv' # hostv
  /\ UNCHANGED <<disk, pc, at, data, result, faults, kills, before, hit>>

Call(w) == \/ StatSource(w) \/ OpenSource(w)
           \/ SymlinkCheck(w) \/ OpenDir(w) \/ Mkdir(w) \/ ReopenDir(w)
           \/ Collect(w)
           \/ StatFile(w) \/ CreateTemp(w) \/ WriteTemp(w) \/ Rename(w)

Next == (\E w \in Writer : Begin(w) \/ Call(w) \/ Kill(w)) \/ Replace

Spec == Init /\ [][Next]_vars

----------------------------------------------------------------------------
(* Properties                                                              *)

\* Whoever opens one of the files, at any moment and whatever fails or is
\* killed, finds all of what one call wrote (writeNetinfoFile).
FilesWhole ==
  \A f \in File : file[f] \in DOMAIN inode => inode[file[f]].parts = Parts

\* Nor does a file change under a reader that has it open: an inode under one
\* of the two names keeps its contents, also when the name goes to another.
ReadersUndisturbed ==
  [][\A f \in File : file[f] \in DOMAIN inode => inode'[file[f]] = inode[file[f]]]_vars

\* After a call that had something to write and succeeded the name does not
\* hold what was there before, nor what a call wrote that had ended before.
SuccessIsFresh ==
  \A w \in Writer : result[w] = "ok" /\ data[w] # NoData =>
    file[Name(w)] \in Writer \ before[w]

\* Writers do not make each other fail: a call that fails met a fault, a path
\* that is no plain directory or file, or an accelerator it could not read.
FailsForCause ==
  \A w \in Writer : result[w] = "error" =>
    \/ w \in hit
    \/ "other" \in {dirs["etc"], dirs["habanalabs"], file[Name(w)]}
    \/ w \notin GaudinetCalls /\ (replaced > 0 \/ Unreadable(look))

\* Only a killed call leaves its temporary file behind.
TempsRemoved == \A w \in temps : result[w] \in {"running", "killed"}

\* A written macAddrInfo.json gives the MAC of every external port at the
\* place of the port, counted from 0, and no other MAC anywhere.
PortsInPlace ==
  LET held == file["macAddrInfo"]
  IN  held \in Writer /\ replaced = 0 =>
        \A d \in look.devices :
          LET entry == inode[held].data[1][d]
          IN  /\ entry.pci = look.pci[d]
              /\ {<<i - 1, entry.macs[i]>> : i \in {j \in DOMAIN entry.macs : entry.macs[j] # Broadcast}}
                   = {<<port, look.ports[d][port]>> : port \in DOMAIN look.ports[d]}

====
