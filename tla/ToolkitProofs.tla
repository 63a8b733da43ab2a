---- MODULE ToolkitProofs ----
(***************************************************************************)
(* Theorems about "runtime configure" (Toolkit.tla), for every set of      *)
(* directories, files to begin with and engines, and every bound.          *)
(***************************************************************************)
EXTENDS Toolkit, TLAPS

(***************************************************************************)
(* What the builders do to a configuration.                                *)
(***************************************************************************)

LEMMA BlankIsConfig == Blank \in Config
BY DEF Blank, Config, Features

LEMMA ChangedIsConfig ==
  ASSUME NEW c \in Config, NEW o \in Options
  PROVE  Changed(c, o) \in Config
<1>1. AddRuntime(c, o.dir) \in Config
  BY DEF AddRuntime, TomlAdd, DockerAdd, Config, Options
<1>2. ASSUME NEW d \in Config PROVE EnableCDI(d) \in Config
  BY DEF EnableCDI, TomlEnableCDI, DockerEnableCDI, Config, Features
<1>3. RemoveRuntime(c) \in Config
  BY DEF RemoveRuntime, TomlRemove, DockerRemove, Config
<1> QED
  BY <1>1, <1>2, <1>3 DEF Changed

LEMMA ChangedIsWellFormed ==
  ASSUME NEW c \in Config, NEW o \in Options, WellFormed(c)
  PROVE  WellFormed(Changed(c, o))
BY DEF Changed, AddRuntime, TomlAdd, DockerAdd, EnableCDI, TomlEnableCDI, DockerEnableCDI,
       RemoveRuntime, TomlRemove, DockerRemove, Config, Options, WellFormed

\* To do what has been done changes nothing: the runtime is at its place, and CDI
\* is on, or the runtime is gone.
LEMMA ChangedTwice ==
  ASSUME NEW c \in Config, NEW o \in Options
  PROVE  Changed(Changed(c, o), o) = Changed(c, o)
<1>1. CASE o.remove
  BY <1>1 DEF Changed, RemoveRuntime, TomlRemove, DockerRemove, Config, Options
<1>2. CASE ~o.remove /\ ~o.cdi
  BY <1>2 DEF Changed, AddRuntime, TomlAdd, DockerAdd, Config, Options
<1>3. CASE ~o.remove /\ o.cdi
  BY <1>3 DEF Changed, AddRuntime, TomlAdd, DockerAdd, EnableCDI, TomlEnableCDI,
              DockerEnableCDI, Config, Options, Features
<1> QED
  BY <1>1, <1>2, <1>3

\* What is left alone by a change is as its options want it.
LEMMA UnchangedIsApplied ==
  ASSUME NEW c \in Config, NEW o \in Options, Changed(c, o) = c, WellFormed(c)
  PROVE  IF o.remove THEN c.habana = Absent
         ELSE c.habana = o.dir /\ (o.cdi => "cdi" \in c.features) /\ c.runtimes = "table"
<1>1. CASE o.remove
  BY <1>1 DEF Changed, RemoveRuntime, TomlRemove, DockerRemove, Config, Options, WellFormed
<1>2. CASE ~o.remove /\ ~o.cdi
  BY <1>2 DEF Changed, AddRuntime, TomlAdd, DockerAdd, Config, Options
<1>3. CASE ~o.remove /\ o.cdi
  <2> DEFINE d == AddRuntime(c, o.dir)
  <2>1. d \in Config /\ d.habana = o.dir /\ d.runtimes = "table"
    BY DEF AddRuntime, TomlAdd, DockerAdd, Config, Options
  <2>2. c = EnableCDI(d)
    BY <1>3 DEF Changed
  <2> HIDE DEF d
  <2>3. EnableCDI(d).habana = d.habana /\ EnableCDI(d).runtimes = d.runtimes
        /\ "cdi" \in EnableCDI(d).features
    BY <2>1 DEF EnableCDI, TomlEnableCDI, DockerEnableCDI, Config, Features
  <2> QED
    BY <1>3, <2>1, <2>2, <2>3
<1> QED
  BY <1>1, <1>2, <1>3

\* The settings that are not ours are those of the administrator.
Keeps(c) == /\ others.kata => c.runtimes = "table" /\ c.kata
            /\ c.admin = others.admin

LEMMA ChangedKeeps ==
  ASSUME NEW c \in Config, NEW o \in Options, Keeps(c)
  PROVE  Keeps(Changed(c, o))
BY DEF Changed, AddRuntime, TomlAdd, DockerAdd, EnableCDI, TomlEnableCDI, DockerEnableCDI,
       RemoveRuntime, TomlRemove, DockerRemove, Config, Options, Keeps

(***************************************************************************)
(* What a file is taken for.                                               *)
(***************************************************************************)

LEMMA ParsedIsConfig ==
  ASSUME NEW f, NEW c \in Parsed(f)
  PROVE  /\ c \in Config
         /\ c = Blank \/ c = f
         /\ Parsed(f) = {c}
BY BlankIsConfig DEF Parsed

LEMMA ConfigIsParsed ==
  ASSUME NEW c \in Config
  PROVE  Parsed(c) = {c}
BY MarksDistinct DEF Parsed

LEMMA BlankIsWellFormed == WellFormed(Blank)
BY DEF WellFormed, Blank, Absent

(***************************************************************************)
(* The invariant.                                                          *)
(***************************************************************************)

Typed == /\ lastOk \in Options \cup {None}
         /\ pc # "idle" => opt \in Options /\ result = "none"
         /\ file \in Config => WellFormed(file)
         /\ pc \in {"idle", "load", "change", "save", "write", "restart"}

\* A run that is to save has changed what it loaded from the file that is there.
Editing ==
  /\ pc \in {"change", "save"} => loaded \in Parsed(file)
  /\ pc = "change" => mem = loaded
  /\ pc \in {"save", "write"} =>
       /\ mem \in Config /\ WellFormed(mem)
       /\ Changed(mem, opt) = mem
       /\ lastOk # opt
       /\ ~opt.dryRun
  /\ pc = "write" => file = Empty
  /\ pc = "restart" => /\ file \in Config /\ Changed(file, opt) = file
                       /\ saved /\ lastOk # opt /\ ~opt.dryRun

\* Unless a write was interrupted, the administrator's settings are in the file
\* and in what a run makes of it; no file, or an empty one, holds none of them.
Kept ==
  ~damaged =>
    /\ file \in Config => Keeps(file)
    /\ file \notin Config /\ pc # "write" => Keeps(Blank)
    /\ pc \in {"save", "write"} => Keeps(mem)

\* Between writes, the last successful options would change nothing in the file.
Settled ==
  lastOk # None /\ pc \notin {"write", "restart"} =>
    \E c \in Parsed(file) : Changed(c, lastOk) = c

Followed == pc # "restart" /\ file \in Config /\ engine # file => unloaded

ToolInv == Typed /\ Editing /\ Kept /\ Settled /\ Followed

LEMMA NoneIsNoOption == None \notin Options /\ Empty \notin Config
BY MarksDistinct

LEMMA ToolInit == Init => ToolInv
<1> SUFFICES ASSUME Init PROVE ToolInv
  OBVIOUS
<1>1. Typed
  BY FilesWellFormed DEF Init, Typed
<1>2. Editing
  BY DEF Init, Editing
<1>3. Kept
  BY DEF Init, Kept, Keeps, Blank
<1>4. Settled
  BY DEF Init, Settled
<1>5. Followed
  BY DEF Init, Followed
<1> QED
  BY <1>1, <1>2, <1>3, <1>4, <1>5 DEF ToolInv

(***************************************************************************)
(* The steps.                                                              *)
(***************************************************************************)

\* What the builders and the parser do depends on the engine alone, which stays.
LEMMA ChangedMem ==
  ASSUME UNCHANGED kind
  PROVE  Changed(mem, opt)' = Changed(mem', opt')
BY DEF Changed, AddRuntime, TomlAdd, DockerAdd, EnableCDI, TomlEnableCDI, DockerEnableCDI,
       RemoveRuntime, TomlRemove, DockerRemove, IsToml

LEMMA ChangedFile ==
  ASSUME UNCHANGED kind
  PROVE  Changed(file, opt)' = Changed(file', opt')
BY DEF Changed, AddRuntime, TomlAdd, DockerAdd, EnableCDI, TomlEnableCDI, DockerEnableCDI,
       RemoveRuntime, TomlRemove, DockerRemove, IsToml

LEMMA ParsedSame ==
  ASSUME UNCHANGED kind
  PROVE  Parsed(file)' = Parsed(file')
BY DEF Parsed, IsToml

LEMMA SettledIf ==
  ASSUME UNCHANGED kind, \E c \in Parsed(file') : Changed(c, lastOk') = c
  PROVE  Settled'
BY DEF Settled, Parsed, Changed, AddRuntime, TomlAdd, DockerAdd, EnableCDI, TomlEnableCDI,
       DockerEnableCDI, RemoveRuntime, TomlRemove, DockerRemove, IsToml

LEMMA SettledSame ==
  ASSUME Settled, UNCHANGED <<kind, file, lastOk>>, pc \notin {"write", "restart"} \/ pc' = pc
  PROVE  Settled'
BY SettledIf DEF Settled

LEMMA BeginKeeps ==
  ASSUME ToolInv, Begin, UNCHANGED kind
  PROVE  ToolInv'
<1> USE DEF ToolInv, Begin, At, Goto, ghosts
<1>1. Typed'
  BY DEF Typed, WellFormed
<1>2. Editing'
  BY DEF Editing
<1>3. Kept'
  BY DEF Kept, Keeps
<1>4. Settled'
  BY SettledSame
<1>5. Followed'
  BY DEF Followed
<1> QED
  BY <1>1, <1>2, <1>3, <1>4, <1>5

LEMMA LoadKeeps ==
  ASSUME ToolInv, Load, UNCHANGED kind
  PROVE  ToolInv'
<1> USE DEF ToolInv, Load, At, Goto, End, NoFault, Fault, CreateIfMissing
<1>1. Typed'
  BY NoneIsNoOption DEF Typed, WellFormed
<1>2. Editing'
  BY ParsedSame DEF Editing
<1>3. Kept'
  BY MarksDistinct DEF Kept, Keeps
<1>4. Settled'
  <2>1. CASE file' = file
    BY <2>1, SettledSame
  <2>2. CASE file' # file
    BY <2>2 DEF Settled
  <2> QED
    BY <2>1, <2>2
<1>5. Followed'
  BY NoneIsNoOption DEF Followed
<1> QED
  BY <1>1, <1>2, <1>3, <1>4, <1>5

\* Where a run changes nothing the options are in force; where it changes
\* something they were not.
LEMMA ChangeKeeps ==
  ASSUME ToolInv, Change, UNCHANGED kind
  PROVE  ToolInv'
<1> USE DEF ToolInv, Change, At, Goto, End, bounds
<1>1. mem \in Config /\ WellFormed(mem) /\ mem = loaded /\ Parsed(file) = {mem} /\ opt \in Options
  BY ParsedIsConfig, BlankIsWellFormed DEF Editing, Typed
<1>2. Changed(mem, opt) \in Config /\ WellFormed(Changed(mem, opt))
      /\ Changed(Changed(mem, opt), opt) = Changed(mem, opt)
  BY <1>1, ChangedIsConfig, ChangedIsWellFormed, ChangedTwice
<1>3. CASE Blocked(mem)
  <2>1. Settled'
    BY <1>3, SettledSame
  <2>2. Typed' /\ Editing' /\ Kept' /\ Followed'
    BY <1>3, NoneIsNoOption DEF Typed, WellFormed, Editing, Kept, Keeps, Followed
  <2> QED
    BY <2>1, <2>2
<1>4. CASE ~Blocked(mem) /\ NothingToSave(opt, loaded, mem')
  <2>1. Typed' /\ Editing' /\ Kept' /\ Followed'
    BY <1>1, <1>4 DEF Typed, WellFormed, Editing, Kept, Keeps, Followed
  <2>2. CASE opt.dryRun
    BY <1>4, <2>1, <2>2, SettledSame
  <2>3. CASE ~opt.dryRun
    <3>1. lastOk' = opt /\ Changed(mem, opt) = mem
      BY <1>1, <1>4, <2>3 DEF NothingToSave, IsModified
    <3>2. Settled'
      BY <1>1, <3>1, SettledIf
    <3> QED
      BY <2>1, <3>2
  <2> QED
    BY <2>2, <2>3
<1>5. CASE ~Blocked(mem) /\ ~NothingToSave(opt, loaded, mem')
  <2>1. mem' = Changed(mem, opt) /\ mem' # mem /\ ~opt.dryRun /\ pc' = "save" /\ UNCHANGED <<opt, result, file, loaded, lastOk>>
    BY <1>1, <1>5, NoneIsNoOption DEF NothingToSave, IsModified, Typed
  <2>2. lastOk # opt
    BY <1>1, <2>1, NoneIsNoOption DEF Settled
  <2>3. Changed(mem, opt)' = mem'
    <3>1. Changed(mem', opt) = mem'
      BY <1>2, <2>1
    <3> QED
      BY <2>1, <3>1, ChangedMem
  <2>4. Editing'
    BY <1>1, <1>2, <2>1, <2>2, <2>3, ParsedSame DEF Editing, WellFormed
  <2>5. Typed' /\ Followed'
    BY <1>1, <2>1 DEF Typed, WellFormed, Followed
  <2>6. Kept'
    <3>1. ~damaged => Keeps(mem)
      <4>1. mem = file \/ (mem = Blank /\ file \notin Config)
        BY <1>1, ParsedIsConfig, ConfigIsParsed
      <4>2. CASE mem = file
        BY <1>1, <4>2 DEF Kept, Keeps
      <4>3. CASE mem = Blank /\ file \notin Config
        BY <4>3 DEF Kept, Keeps
      <4> QED
        BY <4>1, <4>2, <4>3
    <3>2. ~damaged => Keeps(Changed(mem, opt))
      BY <1>1, <3>1, ChangedKeeps
    <3> QED
      BY <2>1, <3>2 DEF Kept, Keeps
  <2>7. Settled'
    BY <2>1, SettledSame
  <2> QED
    BY <2>4, <2>5, <2>6, <2>7
<1> QED
  BY <1>3, <1>4, <1>5

LEMMA TruncateKeeps ==
  ASSUME ToolInv, Truncate, UNCHANGED kind
  PROVE  ToolInv'
<1> USE DEF ToolInv, Truncate, At, Goto, End, NoFault, Fault
<1>1. Typed'
  BY NoneIsNoOption DEF Typed, WellFormed
<1>2. Editing'
  BY ChangedMem DEF Editing, WellFormed
<1>3. Kept'
  BY NoneIsNoOption DEF Kept, Keeps
<1>4. Settled'
  <2>1. CASE pc' = "write"
    BY <2>1 DEF Settled
  <2>2. CASE pc' # "write"
    BY <2>2, SettledSame
  <2> QED
    BY <2>1, <2>2
<1>5. Followed'
  BY NoneIsNoOption DEF Followed
<1> QED
  BY <1>1, <1>2, <1>3, <1>4, <1>5

LEMMA WriteKeeps ==
  ASSUME ToolInv, Write, UNCHANGED kind
  PROVE  ToolInv'
<1> USE DEF ToolInv, Write, At, Goto, End, NoFault, Fault
<1>1. CASE file' = mem /\ saved' = TRUE /\ UNCHANGED damaged /\ pc' = "restart" /\ UNCHANGED <<result, lastOk, unloaded>>
  <2>1. Changed(file, opt)' = file'
    <3>1. Changed(mem, opt) = mem /\ UNCHANGED opt
      BY DEF Editing
    <3> QED
      BY <1>1, <3>1, ChangedFile
  <2>2. Typed' /\ Kept' /\ Settled' /\ Followed'
    BY <1>1 DEF Typed, WellFormed, Editing, Kept, Keeps, Settled, Followed
  <2>3. Editing'
    BY <1>1, <2>1 DEF Editing
  <2> QED
    BY <2>2, <2>3
<1>2. CASE file' = mem /\ saved' = TRUE /\ UNCHANGED damaged /\ pc' = "idle" /\ lastOk' = opt /\ unloaded' = TRUE
  <2>1. mem \in Config /\ Changed(mem, opt) = mem /\ Parsed(mem) = {mem}
    BY ConfigIsParsed DEF Editing
  <2>2. Settled'
    BY <1>2, <2>1, SettledIf
  <2>3. Typed' /\ Editing' /\ Kept' /\ Followed'
    BY <1>2 DEF Typed, WellFormed, Editing, Kept, Keeps, Followed
  <2> QED
    BY <2>2, <2>3
<1>3. CASE pc' = "idle" /\ file' \in {Empty, Torn} /\ damaged' = TRUE /\ lastOk' = None
  <2>1. file' \notin Config
    BY <1>3, MarksDistinct
  <2>2. Typed' /\ Editing' /\ Kept' /\ Settled' /\ Followed'
    BY <1>3, <2>1 DEF Typed, Editing, Kept, Settled, Followed
  <2> QED
    BY <2>2
<1> QED
  BY <1>1, <1>2, <1>3

LEMMA RestartKeeps ==
  ASSUME ToolInv, Restart, UNCHANGED kind
  PROVE  ToolInv'
<1> USE DEF ToolInv, Restart, At, Goto, End, NoFault, Fault, RestartFails
<1>1. Typed' /\ Editing' /\ Kept'
  BY DEF Typed, WellFormed, Editing, Kept, Keeps
<1>2. Settled'
  <2>1. CASE lastOk' = opt
    <3>1. Changed(file, opt) = file /\ Parsed(file) = {file} /\ UNCHANGED <<file, opt>>
      BY ConfigIsParsed DEF Editing
    <3> QED
      BY <2>1, <3>1, SettledIf
  <2>2. CASE lastOk' = None
    BY <2>2 DEF Settled
  <2> QED
    BY <2>1, <2>2
<1>3. Followed'
  BY DEF Followed, Read, Editing
<1> QED
  BY <1>1, <1>2, <1>3

LEMMA KillKeeps ==
  ASSUME ToolInv, Kill, UNCHANGED kind
  PROVE  ToolInv'
<1> USE DEF ToolInv, Kill, At, Goto, End
<1>1. pc = "write" => file' \notin Config
  BY MarksDistinct
<1>2. pc # "write" => file' = file
  OBVIOUS
<1>3. Typed' /\ Editing' /\ Kept' /\ Settled'
  BY <1>1, <1>2 DEF Typed, WellFormed, Editing, Kept, Keeps, Settled
<1>4. Followed'
  BY <1>1, <1>2 DEF Followed, Editing
<1> QED
  BY <1>3, <1>4

LEMMA RebootKeeps ==
  ASSUME ToolInv, Reboot, UNCHANGED kind
  PROVE  ToolInv'
<1> USE DEF ToolInv, Reboot, prog
<1>1. Typed' /\ Kept'
  BY DEF Typed, WellFormed, Kept, Keeps
<1>2. Editing'
  BY ParsedSame, ChangedMem, ChangedFile DEF Editing, WellFormed
<1>3. Settled'
  BY SettledSame
<1>4. Followed'
  BY DEF Followed, Read
<1> QED
  BY <1>1, <1>2, <1>3, <1>4

LEMMA StutterKeeps ==
  ASSUME ToolInv, UNCHANGED vars
  PROVE  ToolInv'
<1> USE DEF ToolInv, vars, prog, bounds, ghosts
<1>1. Typed' /\ Kept' /\ Followed'
  BY DEF Typed, WellFormed, Kept, Keeps, Followed
<1>2. Editing'
  BY ParsedSame, ChangedMem, ChangedFile DEF Editing, WellFormed
<1>3. Settled'
  BY SettledSame
<1> QED
  BY <1>1, <1>2, <1>3

LEMMA ToolNext == ToolInv /\ [Next]_vars => ToolInv'
BY BeginKeeps, LoadKeeps, ChangeKeeps, TruncateKeeps, WriteKeeps, RestartKeeps, KillKeeps,
   RebootKeeps, StutterKeeps DEF Next, Step

LEMMA ToolInvariant == Spec => []ToolInv
BY ToolInit, ToolNext, PTL DEF Spec

(***************************************************************************)
(* The theorems.                                                           *)
(***************************************************************************)

\* Whichever runs follow each other, for any engine: the settings of others stay
\* in its file unless a write was interrupted (the builders, Config.Save).
THEOREM OthersAreKept == Spec => []OthersKept
<1>1. ToolInv => OthersKept
  BY DEF ToolInv, Kept, Keeps, OthersKept
<1> QED
  BY <1>1, ToolInvariant, PTL

\* The file is as the options of the last successful run say (configureWrapper).
THEOREM SuccessIsApplied == Spec => []SuccessApplied
<1>1. ASSUME ToolInv PROVE SuccessApplied
  <2> SUFFICES ASSUME At("idle"), lastOk # None
               PROVE  IF lastOk.remove THEN file \in Config => file.habana = Absent
                      ELSE /\ file \in Config
                           /\ file.habana = lastOk.dir
                           /\ lastOk.cdi => "cdi" \in file.features
    BY DEF SuccessApplied
  <2>1. PICK c \in Parsed(file) : Changed(c, lastOk) = c
    BY <1>1 DEF ToolInv, Settled, At
  <2>2. lastOk \in Options
    BY <1>1 DEF ToolInv, Typed
  <2>3. c \in Config /\ (c = Blank \/ c = file) /\ Parsed(file) = {c}
    BY ParsedIsConfig
  <2>4. WellFormed(c)
    BY <1>1, <2>3, BlankIsWellFormed DEF ToolInv, Typed
  <2>5. IF lastOk.remove THEN c.habana = Absent
        ELSE c.habana = lastOk.dir /\ (lastOk.cdi => "cdi" \in c.features) /\ c.runtimes = "table"
    BY <2>1, <2>2, <2>3, <2>4, UnchangedIsApplied
  <2>6. file \in Config => c = file
    BY <2>3, ConfigIsParsed
  <2>7. Blank.runtimes # "table"
    BY DEF Blank
  <2> QED
    BY <2>3, <2>5, <2>6, <2>7
<1> QED
  BY <1>1, ToolInvariant, PTL

\* The engine runs with its file, or a run that did not end well, or was not
\* asked to restart it, has left it behind.
THEOREM EngineFollows == Spec => []EngineBehindOnlyIf
<1>1. ToolInv => EngineBehindOnlyIf
  BY DEF ToolInv, Followed, EngineBehindOnlyIf, At
<1> QED
  BY <1>1, ToolInvariant, PTL

\* To repeat a successful run writes nothing and restarts nothing.
THEOREM RepeatingChangesNothing == Spec => []RepeatChangesNothing
<1>1. ToolInv => RepeatChangesNothing
  BY DEF ToolInv, Editing, RepeatChangesNothing
<1> QED
  BY <1>1, ToolInvariant, PTL

\* A dry run leaves the file alone but for CRI-O's builder.
THEOREM DryRunsWriteNothing == Spec => DryRunWritesNothing
<1>1. ToolInv /\ [Next]_vars => [opt.dryRun /\ pc # "idle" /\ ~(kind = "crio" /\ file = Missing) => file' = file]_vars
  BY DEF ToolInv, Editing, Next, Step, Begin, Load, Change, Truncate, Write, Restart, Kill, Reboot,
         At, End, Goto, CreateIfMissing, vars
<1> QED
  BY <1>1, ToolInvariant, PTL DEF Spec, DryRunWritesNothing
====
