---- MODULE Toolkit ----
(***************************************************************************)
(* "habana-container-toolkit runtime configure": the runtime is entered in *)
(* or taken out of the configuration file of a container engine            *)
(* (cmd/habana-container-toolkit/runtime/configure, the builders in        *)
(* internal/runtime and the helpers in internal/utils), run after run,     *)
(* with runs that fail or are killed and an engine that may be restarted   *)
(* by others.  A configuration is kept to what the builders look at.       *)
(***************************************************************************)
EXTENDS Integers, FiniteSets

CONSTANTS
  Engines,       \* some of "docker", "crio" and "containerd"
  Dirs,          \* directories of the binaries
  Missing, Empty, Torn,  \* a file that is not there, empty, or half written
  Down,          \* an engine that has refused its configuration
  None,          \* no options
  Files,         \* what the configuration file may be at first
  MaxRuns,       \* bound on the runs of the toolkit
  MaxFaults,     \* bound on errors of file operations and restarts
  MaxKills,      \* bound on runs killed
  MaxReboots     \* bound on restarts of the engine by others

VARIABLES
  kind,      \* the engine the toolkit is run for
  file,      \* the configuration file
  engine,    \* what the engine has loaded, or Down
  pc, opt,   \* the run: its next step and its options
  loaded, mem,   \* the configuration as loaded, and as changed
  result,    \* of the last run: "ok", "error", "killed" or "none"
  runs, faults, kills, reboots,
  others,    \* the settings of the administrator
  damaged,   \* a run was killed or failed while it was writing
  unloaded,  \* a run has saved the file and ended, failing or not asked to
             \* restart the engine, since the engine last read it
  saved,     \* this run has written the file
  lastOk     \* the options of the last successful run that was no dry run, or
             \* None if the file was touched since

prog   == <<pc, opt, loaded, mem, saved>>
bounds == <<runs, faults, kills, reboots>>
ghosts == <<others, damaged, unloaded, lastOk>>
vars   == <<kind, file, engine, prog, result, bounds, ghosts>>

BoundsNatural == {MaxRuns, MaxFaults, MaxKills, MaxReboots} \subseteq Nat
ASSUME BoundsNatural

(* Configurations.  runtimes: is the table of runtimes there, and is it a  *)
(* table; kata: it holds a runtime of somebody else; habana: where ours    *)
(* is, if it is there; features: what is switched on; admin: everything    *)
(* else in the file.                                                       *)
Absent == "absent"
Features == {"cdi", "buildkit"}
Config == [runtimes : {"none", "table", "other"}, kata : BOOLEAN, habana : Dirs \cup {Absent},
           features : SUBSET Features, admin : {"kept", "lost"}]
Blank  == [runtimes |-> "none", kata |-> FALSE, habana |-> Absent, features |-> {}, admin |-> "lost"]

Options == [remove : BOOLEAN, cdi : BOOLEAN, dryRun : BOOLEAN, restartOnChange : BOOLEAN, dir : Dirs]

ASSUME MarksDistinct == {Missing, Empty, Torn, Down, None} \cap (Config \cup Options) = {}

\* Only a table holds runtimes.
WellFormed(c) == c.runtimes # "table" => ~c.kata /\ c.habana = Absent
ASSUME FilesWellFormed == \A c \in Files \cap Config : WellFormed(c)

IsToml == kind # "docker"

----------------------------------------------------------------------------
(* The builders                                                            *)

\* What a parser makes of a file: JSON must be whole; what is there of a TOML
\* file may happen to be one.
Parsed(f) == IF f = Empty /\ IsToml THEN {Blank}
             ELSE IF f = Torn /\ IsToml THEN {Blank}
             ELSE IF f = Missing /\ kind = "docker" THEN {Blank}
             ELSE {f} \cap Config
\* Whether it may refuse it.
Unparsed(f) == f = Torn \/ (f = Missing /\ kind = "containerd") \/ (f = Empty /\ ~IsToml)

\* SetPath and DeletePath refuse to go through what is no table.
Blocked(c) == IsToml /\ c.runtimes = "other"

\* Mutant: the table of runtimes is made anew.
DockerAddFresh(c, dir) == [c EXCEPT !.runtimes = "table", !.habana = dir, !.kata = FALSE]

\* docker: what is no table is replaced by one.
DockerAdd(c, dir) ==
  [c EXCEPT !.runtimes = "table", !.habana = dir, !.kata = @ /\ c.runtimes = "table"]

\* containerd and CRI-O: SetPath makes the tables that are missing.
TomlAdd(c, dir) == [c EXCEPT !.runtimes = "table", !.habana = dir]

\* docker: the features read from JSON are never a map[string]bool.
DockerEnableCDI(c) == [c EXCEPT !.features = {"cdi"}]

TomlEnableCDI(c) == [c EXCEPT !.features = @ \cup {"cdi"}]

\* docker: an empty table goes too.
DockerRemove(c) ==
  IF c.runtimes # "table" THEN c
  ELSE [c EXCEPT !.habana = Absent, !.runtimes = IF c.kata THEN @ ELSE "none"]

\* DeletePath: where there is no table there is nothing to delete.
TomlRemove(c) == [c EXCEPT !.habana = Absent]

AddRuntime(c, dir) == IF IsToml THEN TomlAdd(c, dir) ELSE DockerAdd(c, dir)
EnableCDI(c)       == IF IsToml THEN TomlEnableCDI(c) ELSE DockerEnableCDI(c)
RemoveRuntime(c)   == IF IsToml THEN TomlRemove(c) ELSE DockerRemove(c)

Changed(c, o) == IF o.remove THEN RemoveRuntime(c)
                 ELSE IF o.cdi THEN EnableCDI(AddRuntime(c, o.dir)) ELSE AddRuntime(c, o.dir)

\* Mutant: what the file is compared with is the changed configuration too.
NeverModified(l, c) == c # c

\* Mutant: the bytes of the file are compared, which differ in layout.
AlwaysModified(l, c) == TRUE

\* The checksums of the two serialized configurations differ.
IsModified(l, c) == l # c

\* Mutant: the dry run is not looked at.
UnmodifiedOnly(o, l, c) == ~IsModified(l, c)

\* A dry run prints; a run that has changed nothing is done.
NothingToSave(o, l, c) == o.dryRun \/ ~IsModified(l, c)

----------------------------------------------------------------------------

At(here)    == pc = here
Goto(there) == pc' = there
Fault       == faults < MaxFaults /\ faults' = faults + 1
NoFault     == UNCHANGED faults

End(r) == Goto("idle") /\ result' = r

Init == /\ kind \in Engines
        /\ file \in Files
        /\ engine = IF file \in Config THEN file ELSE Blank
        /\ pc = "idle" /\ opt = CHOOSE o \in Options : TRUE
        /\ loaded = Blank /\ mem = Blank /\ result = "none"
        /\ runs = 0 /\ faults = 0 /\ kills = 0 /\ reboots = 0
        /\ others = IF file \in Config THEN [kata |-> file.kata /\ file.runtimes = "table", admin |-> file.admin]
                                       ELSE [kata |-> FALSE, admin |-> "lost"]
        /\ damaged = FALSE /\ unloaded = FALSE /\ saved = FALSE
        /\ lastOk = None

Begin ==
  /\ At("idle") /\ runs < MaxRuns /\ runs' = runs + 1
  /\ opt' \in Options
  /\ Goto("load") /\ saved' = FALSE
  /\ result' = "none"
  /\ UNCHANGED <<file, engine, loaded, mem, faults, kills, reboots, ghosts>>

\* CreateFileIfNotExists
CreateIfMissing(f) == IF f = Missing THEN Empty ELSE f

\* NewRuntimeBuilder: CRI-O's creates the file.
Load ==
  /\ At("load")
  /\ file' = IF kind = "crio" THEN CreateIfMissing(file) ELSE file
  /\ \/ \E c \in Parsed(file') : /\ loaded' = c /\ mem' = c
                                 /\ Goto("change") /\ UNCHANGED result /\ NoFault
     \/ Unparsed(file') /\ End("error") /\ UNCHANGED <<loaded, mem>> /\ NoFault
     \/ Fault /\ End("error") /\ UNCHANGED <<loaded, mem>>
  /\ lastOk' = IF file' # file THEN None ELSE lastOk
  /\ UNCHANGED <<engine, opt, saved, runs, kills, reboots, others, damaged, unloaded>>

\* configureRuntime or removeRuntime, and what configureWrapper does next.
Change ==
  /\ At("change")
  /\ IF Blocked(mem)
     THEN End("error") /\ UNCHANGED mem
     ELSE /\ mem' = Changed(mem, opt)
          /\ IF NothingToSave(opt, loaded, mem')
             THEN End("ok")
             ELSE Goto("save") /\ UNCHANGED result
  /\ lastOk' = IF result' = "ok" /\ ~opt.dryRun THEN opt ELSE lastOk
  /\ UNCHANGED <<file, engine, opt, loaded, saved, bounds, others, damaged, unloaded>>

\* Save, WriteFile: the file is truncated...
Truncate ==
  /\ At("save")
  /\ \/ file' = Empty /\ Goto("write") /\ UNCHANGED <<result, lastOk>> /\ NoFault
     \/ Fault /\ End("error") /\ UNCHANGED <<file, lastOk>>
  /\ UNCHANGED <<engine, opt, loaded, mem, saved, runs, kills, reboots, others, damaged, unloaded>>

\* ...and written, all of it or, with an error, a part.
Write ==
  /\ At("write")
  /\ \/ /\ file' = mem /\ saved' = TRUE
        /\ IF opt.restartOnChange THEN Goto("restart") /\ UNCHANGED <<result, lastOk, unloaded>>
                                  ELSE End("ok") /\ lastOk' = opt /\ unloaded' = TRUE
        /\ UNCHANGED damaged /\ NoFault
     \/ /\ Fault /\ End("error") /\ file' \in {Empty, Torn}
        /\ damaged' = TRUE /\ lastOk' = None
        /\ UNCHANGED <<saved, unloaded>>
  /\ UNCHANGED <<engine, opt, loaded, mem, runs, kills, reboots, others>>

\* What the engine makes of the file when it reads it.
Read(f) == IF f \in Config THEN f ELSE IF f = Torn THEN Down ELSE Blank

\* Mutant: an error of the restart is only logged.
RestartErrorLogged == End("ok") /\ lastOk' = opt

RestartFails == End("error") /\ lastOk' = None

\* RestartRuntime: systemctl for containerd, pgrep and a signal for the
\* others; none or several processes of the name are an error.
Restart ==
  /\ At("restart")
  /\ \/ /\ engine' = Read(file) /\ unloaded' = FALSE
        /\ End("ok") /\ lastOk' = opt /\ NoFault
     \/ Fault /\ RestartFails /\ unloaded' = (result' # "ok") /\ UNCHANGED engine
  /\ UNCHANGED <<file, opt, loaded, mem, saved, runs, kills, reboots, others, damaged>>

----------------------------------------------------------------------------
(* The surroundings                                                        *)

Kill ==
  /\ ~At("idle")
  /\ kills < MaxKills /\ kills' = kills + 1
  /\ End("killed") /\ lastOk' = None
  /\ file' \in IF At("write") THEN {Empty, Torn} ELSE {file}
  /\ damaged' = (damaged \/ At("write"))
  /\ unloaded' = (unloaded \/ saved)
  /\ UNCHANGED <<engine, opt, loaded, mem, saved, runs, faults, reboots, others>>

\* The engine, or the machine, is restarted by somebody else.
Reboot ==
  /\ reboots < MaxReboots /\ reboots' = reboots + 1
  /\ engine' = Read(file)
  /\ unloaded' = FALSE
  /\ UNCHANGED <<file, prog, result, runs, faults, kills, others, damaged, lastOk>>

Step == Begin \/ Load \/ Change \/ Truncate \/ Write \/ Restart \/ Kill \/ Reboot

Next == Step /\ UNCHANGED kind

Spec == Init /\ [][Next]_vars

----------------------------------------------------------------------------
(* Properties                                                              *)

\* Whatever runs succeed, fail or are repeated, the settings that are not
\* ours stay in the file - the other runtimes and all the rest - unless a run
\* was interrupted in the middle of os.WriteFile.
OthersKept ==
  file \in Config /\ ~damaged =>
    /\ others.kata => file.runtimes = "table" /\ file.kata
    /\ file.admin = others.admin

\* A run that succeeded, and was no dry run, leaves the file as its options
\* say: the runtime with its directory or none, CDI if asked for.
SuccessApplied ==
  At("idle") /\ lastOk # None =>
    IF lastOk.remove
    THEN file \in Config => file.habana = Absent
    ELSE /\ file \in Config
         /\ file.habana = lastOk.dir
         /\ lastOk.cdi => "cdi" \in file.features

\* The engine runs with what is in the file, or a run has left it behind:
\* one that saved without restarting, or failed or was killed in between.
\* Success with restart-on-change is no such run, unless it found the file
\* as it wanted it.
EngineBehindOnlyIf ==
  At("idle") /\ file \in Config /\ engine # file => unloaded

\* To repeat a successful run changes nothing, so that with restart-on-change
\* the engine is not restarted again and again.
RepeatChangesNothing ==
  lastOk # None /\ opt = lastOk => pc \notin {"save", "write", "restart"}

\* A dry run writes nothing to disk, except that CRI-O's builder makes a missing
\* file before it knows of the dry run (NewRuntimeBuilder).
DryRunWritesNothing ==
  [][opt.dryRun /\ pc # "idle" /\ ~(kind = "crio" /\ file = Missing) => file' = file]_vars

====
