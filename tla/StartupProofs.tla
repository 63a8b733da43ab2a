---------------------------- MODULE StartupProofs ----------------------------
(***************************************************************************)
(* Proofs about what the runtime goes by when it starts, its config.toml   *)
(* (HabanaConfig) and its arguments (CommandLine): nobody opts in by       *)
(* accident, the hook follows the runtime, and a run of config sets what   *)
(* its options say, for any files, runs, options, errors and kills; and    *)
(* for any command line of an engine the runtime edits the bundle of which *)
(* runc makes a container.                                                 *)
(***************************************************************************)
EXTENDS HabanaConfig, CommandLine, NaturalsInduction, WellFoundedInduction, TLAPS


LEMMA NamesAre == Names = {"allow", "dir", "environment", "level", "mode"}
<1>1. DOMAIN Settings = 1..5
  BY DEF Settings
<1>2. 1..5 = {1, 2, 3, 4, 5}
  OBVIOUS
<1> QED
  BY <1>1, <1>2 DEF Names, Settings

\* A configuration is a function of the names.
LEMMA ConfigIs ==
  \A c : c \in Config <=> /\ c = [name \in Names |-> c[name]] /\ c["allow"] \in BOOLEAN
                         /\ \A name \in Names \ {"allow"} : c[name] \in Values
<1> SUFFICES ASSUME NEW c
             PROVE  c \in Config <=> /\ c = [name \in Names |-> c[name]] /\ c["allow"] \in BOOLEAN
                                    /\ \A name \in Names \ {"allow"} : c[name] \in Values
  OBVIOUS
<1> DEFINE r == [allow |-> c["allow"], dir |-> c["dir"], environment |-> c["environment"],
                 level |-> c["level"], mode |-> c["mode"]]
<1>1. r = [name \in Names |-> c[name]]
  BY NamesAre
<1>2. c \in Config <=> /\ c = r /\ c["allow"] \in BOOLEAN /\ c["dir"] \in Values
                      /\ c["environment"] \in Values /\ c["level"] \in Values
                      /\ c["mode"] \in Values
  BY DEF Config
<1> HIDE DEF r
<1> QED
  BY <1>1, <1>2, NamesAre

LEMMA DefaultIsConfig == DefaultConfig \in Config /\ ~DefaultConfig["allow"]
BY DEF DefaultConfig, Config, Values

\* What an option that is accepted gives.
LEMMA AcceptedOption ==
  ASSUME NEW set \in Options, Accepts(set)
  PROVE  /\ set.name \in Names
         /\ set.name = "allow" =>
              Assigned(set) \in BOOLEAN /\ (Assigned(set) => set.text \in {"absent", "true"})
         /\ set.name # "allow" => Assigned(set) \in Texts \cup {"character", "whole part"}
<1>1. set.name \in Names \cup {"path", "unknown"} /\ set.text \in Texts
  BY DEF Options
<1>2. set.name \in Names
  BY <1>1, NamesAre DEF Accepts, Assignable, Convertible, Type, ParseSetOption, Texts
<1>3. ASSUME set.name = "allow"
      PROVE  Assigned(set) \in BOOLEAN /\ (Assigned(set) => set.text \in {"absent", "true"})
  BY <1>1, <1>3 DEF Accepts, Assignable, Convertible, Type, ParseSetOption, Texts, Assigned
<1>4. ASSUME set.name # "allow" PROVE Assigned(set) \in Texts \cup {"character", "whole part"}
  BY <1>1, <1>2, <1>4, NamesAre DEF Type, Assigned
<1> QED
  BY <1>2, <1>3, <1>4

\* SetPath changes one setting.
LEMMA SetPathType ==
  ASSUME NEW c \in Config, NEW set \in Options, Accepts(set)
  PROVE  /\ SetPath(c, set) \in Config
         /\ SetPath(c, set)[set.name] = Assigned(set)
         /\ \A name \in Names \ {set.name} : SetPath(c, set)[name] = c[name]
<1> DEFINE v == Assigned(set)
           d == SetPath(c, set)
<1>1. /\ set.name \in Names /\ (set.name = "allow" => v \in BOOLEAN)
      /\ set.name # "allow" => v \in Values
  BY AcceptedOption DEF Values
<1>2. /\ c = [name \in Names |-> c[name]] /\ c["allow"] \in BOOLEAN
      /\ \A name \in Names \ {"allow"} : c[name] \in Values
  BY ConfigIs
<1>3. d = [c EXCEPT ![set.name] = v]
  BY DEF SetPath
<1> HIDE DEF v, d
<1>4. d = [name \in Names |-> d[name]]
  BY <1>1, <1>2, <1>3
<1>5. d[set.name] = v /\ \A name \in Names \ {set.name} : d[name] = c[name]
  BY <1>1, <1>2, <1>3
<1>6. d["allow"] \in BOOLEAN /\ \A name \in Names \ {"allow"} : d[name] \in Values
  BY <1>1, <1>2, <1>5, NamesAre
<1> QED
  BY <1>4, <1>5, <1>6, ConfigIs DEF v, d

LEMMA PrefixType ==
  ASSUME NEW c \in Config, NEW n
  PROVE  Prefix(c, n) \in Config /\ (Prefix(c, n)["allow"] => c["allow"])
<1> DEFINE d == Prefix(c, n)
<1>1. d = [name \in Names |-> d[name]] /\ \A name \in Names : d[name] \in {c[name], DefaultConfig[name]}
  BY DEF Prefix
<1>2. /\ c["allow"] \in BOOLEAN /\ DefaultConfig["allow"] = FALSE
      /\ \A name \in Names \ {"allow"} : c[name] \in Values /\ DefaultConfig[name] \in Values
  BY ConfigIs, DefaultIsConfig DEF DefaultConfig
<1> HIDE DEF d
<1>3. d["allow"] \in BOOLEAN /\ (d["allow"] => c["allow"])
  BY <1>1, <1>2, NamesAre
<1>4. \A name \in Names \ {"allow"} : d[name] \in Values
  BY <1>1, <1>2
<1> QED
  BY <1>1, <1>3, <1>4, ConfigIs DEF d

(***************************************************************************)
(* The invariants.  What a run has so far are the values of the options it *)
(* has applied, the last one for each setting; the first options of sets,  *)
(* all of them accepted.                                                   *)
(***************************************************************************)
Types ==
  /\ files \in [Paths -> {Missing, Refused} \cup Config]
  /\ runtimePath \in {"etc", "custom"} /\ toolPath \in {"etc", "custom"}
  /\ hookPaths \in {<<"driver", "etc">>, <<"custom">>}
  /\ pc \in {"idle", "apply", "save", "write"}
  /\ sets \in Seq(Options) /\ todo \in Seq(Options) /\ data \in Config
  /\ runtimeCfg \in {Unread, Refused} \cup Config
  /\ hookCfg \in {Unread, Refused} \cup Config
  /\ faults \in Nat /\ optedIn \in BOOLEAN /\ steady \in BOOLEAN

OptsIn(set) == set.name = "allow" /\ set.text \in {"absent", "true"}

\* Wherever the opt-in is, the administrator has put it there.
Explicit ==
  /\ \A p \in Paths : files[p] \in Config /\ files[p]["allow"] => optedIn
  /\ data["allow"] => optedIn
  /\ \A i \in DOMAIN todo : OptsIn(todo[i]) => optedIn
  /\ runtimeCfg \in Config /\ runtimeCfg["allow"] => optedIn
  /\ hookCfg \in Config /\ hookCfg["allow"] => optedIn

RuntimeReads == IF files[runtimePath] = Missing THEN Refused ELSE files[runtimePath]
HookReads    == LET f == files[Search(hookPaths)]
                IN IF f # Missing THEN f
                   ELSE IF Len(hookPaths) = 1 THEN Refused ELSE DefaultConfig

\* While no file changes, what was read is what would be read again.
Current ==
  /\ hookCfg # Unread => runtimeCfg \notin {Unread, Refused}
  /\ steady /\ runtimeCfg # Unread => runtimeCfg = RuntimeReads
  /\ steady /\ hookCfg # Unread => hookCfg = HookReads

\* Of the first n options, the last one for a setting says what it is.
LastSays(name, n, value) ==
  \/ value = DefaultConfig[name] /\ \A i \in 1..n : sets[i].name # name
  \/ \E i \in 1..n : /\ sets[i].name = name /\ value = Assigned(sets[i])
                     /\ \A j \in 1..n : sets[j].name = name => j <= i

Done == Len(sets) - Len(todo)

Setting ==
  pc # "idle" =>
    /\ Done \in Nat
    /\ \A i \in 1..Len(todo) : todo[i] = sets[Done + i]
    /\ \A i \in 1..Done : Accepts(sets[i])
    /\ \A name \in Names : LastSays(name, Done, data[name])
    /\ pc \in {"save", "write"} => todo = <<>>

ConfigInv == Types /\ Explicit /\ Current /\ Setting

LEMMA ReadsAgain ==
  ASSUME UNCHANGED <<files, runtimePath, hookPaths>>
  PROVE  RuntimeReads' = RuntimeReads /\ HookReads' = HookReads
BY DEF RuntimeReads, HookReads, Search

\* A file that is written.
LEMMA FilesRewritten ==
  ASSUME Types, NEW f \in {Refused} \cup Config, files' = [files EXCEPT ![toolPath] = f]
  PROVE  /\ files' \in [Paths -> {Missing, Refused} \cup Config]
         /\ \A p \in Paths : files'[p] \in {f, files[p]}
BY DEF Types, Paths

LEMMA ConfigInit == Init => ConfigInv
<1> SUFFICES ASSUME Init PROVE ConfigInv
  OBVIOUS
<1> USE DEF Init
<1>1. <<>> \in Seq(Options) /\ DOMAIN <<>> = {}
  OBVIOUS
<1>2. Types
  BY <1>1, DefaultIsConfig, FilesTyped DEF Types
<1>3. Explicit
  BY <1>1, <1>2, DefaultIsConfig, MarksDistinct DEF Explicit, Types
<1> QED
  BY <1>2, <1>3 DEF ConfigInv, Current, Setting

(***************************************************************************)
(* The steps, by what they touch.                                          *)
(***************************************************************************)
\* A run ends, whether or not it has changed the file.
LEMMA EndedKeeps ==
  ASSUME ConfigInv, Ended, UNCHANGED <<env, runtimeCfg, hookCfg, optedIn>>,
         faults' \in Nat,
         \/ UNCHANGED <<files, steady>>
         \/ \E f \in {Refused} \cup Config : Rewrite(f) /\ (f \in Config /\ f["allow"] => optedIn)
  PROVE  ConfigInv'
<1> USE DEF ConfigInv, Ended, env
<1>1. <<>> \in Seq(Options) /\ DOMAIN <<>> = {}
  OBVIOUS
<1>2. \/ UNCHANGED <<files, steady>>
      \/ steady' = FALSE /\ \E f \in {Refused} \cup Config :
           files' = [files EXCEPT ![toolPath] = f] /\ (f \in Config /\ f["allow"] => optedIn)
  BY DEF Rewrite
<1>f. /\ files' \in [Paths -> {Missing, Refused} \cup Config]
      /\ \A p \in Paths : files'[p] \in Config /\ files'[p]["allow"] => optedIn
  <2>1. CASE UNCHANGED files
    BY <2>1 DEF Types, Explicit
  <2>2. CASE \E f \in {Refused} \cup Config :
               files' = [files EXCEPT ![toolPath] = f] /\ (f \in Config /\ f["allow"] => optedIn)
    BY <2>2, FilesRewritten DEF Explicit
  <2> QED
    BY <1>2, <2>1, <2>2
<1>3. Types'
  <2>1. steady' \in BOOLEAN
    BY <1>2 DEF Types
  <2> QED
    BY <1>1, <1>f, <2>1, DefaultIsConfig DEF Types
<1>4. Explicit'
  BY <1>1, <1>f, DefaultIsConfig DEF Explicit
<1>5. Current'
  BY <1>2, ReadsAgain DEF Current
<1> QED
  BY <1>3, <1>4, <1>5 DEF Setting

LEMMA BeginKeeps == ASSUME ConfigInv, Begin PROVE ConfigInv'
<1> USE DEF ConfigInv, Begin, env
<1>1. PICK n \in 1..MaxSets : sets' \in [1..n -> Options]
  OBVIOUS
<1>2. n \in Nat /\ sets' \in Seq(Options) /\ Len(sets') = n
  BY <1>1, BoundsNatural
<1>3. Types'
  BY <1>2, DefaultIsConfig DEF Types
<1>4. Explicit'
  BY DefaultIsConfig DEF Types, Explicit, OptsIn
<1>5. Current'
  BY DEF Current, RuntimeReads, HookReads, Search
<1>6. Setting'
  <2>1. Done' = 0 /\ todo' = sets'
    BY <1>2 DEF Done
  <2>2. \A name : LastSays(name, Done, data[name])'
    BY <2>1 DEF LastSays
  <2> QED
    BY <2>1, <2>2 DEF Setting, Done
<1> QED
  BY <1>3, <1>4, <1>5, <1>6

LEMMA ApplyKeeps == ASSUME ConfigInv, Apply PROVE ConfigInv'
<1> USE DEF ConfigInv, Apply, At
<1>1. CASE ~Accepts(Head(todo))
  BY <1>1, EndedKeeps DEF Refuse, Types
<1>2. CASE Accepts(Head(todo))
  <2> USE <1>2 DEF env
  <2>1. /\ todo \in Seq(Options) /\ Len(todo) \in Nat \ {0} /\ Len(sets) \in Nat
        /\ Head(todo) \in Options /\ Head(todo) = todo[1] /\ 1 \in DOMAIN todo
        /\ Tail(todo) \in Seq(Options) /\ Len(Tail(todo)) = Len(todo) - 1
        /\ \A i \in 1..Len(Tail(todo)) : Tail(todo)[i] = todo[i + 1]
        /\ DOMAIN Tail(todo) = 1..Len(Tail(todo)) /\ DOMAIN todo = 1..Len(todo)
    BY DEF Types
  <2>2. /\ data' \in Config /\ data'[Head(todo).name] = Assigned(Head(todo))
        /\ \A name \in Names \ {Head(todo).name} : data'[name] = data[name]
    BY <2>1, SetPathType DEF Types
  <2>3. Types'
    BY <2>1, <2>2 DEF Types
  <2>4. data'["allow"] => optedIn
    <3>1. CASE Head(todo).name = "allow"
      <4>1. Assigned(Head(todo)) => OptsIn(Head(todo))
        BY <2>1, <3>1, AcceptedOption DEF OptsIn
      <4> QED
        BY <2>1, <2>2, <3>1, <4>1 DEF Explicit
    <3>2. CASE Head(todo).name # "allow"
      BY <2>2, <3>2, NamesAre DEF Explicit
    <3> QED
      BY <3>1, <3>2
  <2>5. Explicit'
    <3>1. \A i \in DOMAIN todo' : OptsIn(todo'[i]) => optedIn
      BY <2>1 DEF Explicit
    <3> QED
      BY <2>4, <3>1 DEF Explicit
  <2>6. Current'
    BY DEF Current, RuntimeReads, HookReads, Search
  <2>7. Setting'
    <3>1. Done \in Nat /\ Done' = Done + 1 /\ sets' = sets
      <4>1. Done \in Nat
        BY DEF Setting
      <4>2. Len(todo') = Len(todo) - 1 /\ sets' = sets
        BY <2>1
      <4> QED
        BY <2>1, <4>1, <4>2 DEF Done
    <3>2. todo[1] = sets[Done + 1]
      BY <2>1 DEF Setting
    <3>3. \A i \in 1..Len(todo') : todo'[i] = sets'[Done' + i]
      <4> SUFFICES ASSUME NEW i \in 1..Len(todo') PROVE todo'[i] = sets[Done' + i]
        BY <3>1
      <4>1. i + 1 \in 1..Len(todo) /\ todo'[i] = todo[i + 1]
        BY <2>1
      <4>2. todo[i + 1] = sets[Done + (i + 1)]
        BY <4>1 DEF Setting
      <4> QED
        BY <3>1, <4>1, <4>2
    <3>4. \A i \in 1..Done' : Accepts(sets'[i])
      BY <2>1, <3>1, <3>2 DEF Setting
    <3>5. \A name \in Names : LastSays(name, Done, data[name])'
      <4> SUFFICES ASSUME NEW name \in Names PROVE LastSays(name, Done + 1, data'[name])
        BY <3>1 DEF LastSays
      <4>1. LastSays(name, Done, data[name])
        BY DEF Setting
      <4>2. CASE Head(todo).name = name
        <5>1. sets[Done + 1].name = name /\ data'[name] = Assigned(sets[Done + 1])
          BY <2>1, <2>2, <3>2, <4>2
        <5> QED
          BY <3>1, <5>1 DEF LastSays
      <4>3. CASE Head(todo).name # name
        <5>1. sets[Done + 1].name # name /\ data'[name] = data[name]
          BY <2>1, <2>2, <3>2, <4>3
        <5> QED
          BY <3>1, <4>1, <5>1 DEF LastSays
      <4> QED
        BY <4>2, <4>3
    <3>6. pc' = "apply"
      OBVIOUS
    <3> QED
      <4>1. Done' \in Nat
        BY <3>1
      <4> HIDE DEF Done
      <4> QED
        BY <4>1, <3>3, <3>4, <3>5, <3>6 DEF Setting
  <2> QED
    BY <2>3, <2>5, <2>6, <2>7
<1> QED
  BY <1>1, <1>2

LEMMA SavingKeeps ==
  ASSUME ConfigInv, Applied \/ Truncate \/ Write \/ Kill
  PROVE  ConfigInv'
<1> USE DEF ConfigInv, At
<1>f. Fault => faults' \in Nat
  BY DEF Fault, Types
<1>1. ASSUME pc' \in {"save", "write"}, pc # "idle", todo = <<>>,
             UNCHANGED <<env, sets, todo, data, runtimeCfg, hookCfg, faults, optedIn>>,
             UNCHANGED <<files, steady>> \/ Rewrite(DefaultConfig)
      PROVE  ConfigInv'
  <2> USE <1>1 DEF env
  <2>1. \/ UNCHANGED <<files, steady>>
        \/ steady' = FALSE /\ files' = [files EXCEPT ![toolPath] = DefaultConfig]
    BY DEF Rewrite
  <2>f. /\ files' \in [Paths -> {Missing, Refused} \cup Config]
        /\ \A p \in Paths : files'[p] \in Config /\ files'[p]["allow"] => optedIn
    <3>1. CASE UNCHANGED files
      BY <3>1 DEF Types, Explicit
    <3>2. CASE files' = [files EXCEPT ![toolPath] = DefaultConfig]
      BY <3>2, FilesRewritten, DefaultIsConfig DEF Explicit
    <3> QED
      BY <2>1, <3>1, <3>2
  <2>2. Types'
    <3>1. steady' \in BOOLEAN
      BY <2>1 DEF Types
    <3> QED
      BY <2>f, <3>1 DEF Types
  <2>3. Explicit'
    BY <2>f DEF Explicit
  <2>4. Current'
    BY <2>1, ReadsAgain DEF Current
  <2>5. Setting'
    BY DEF Setting, Done, LastSays
  <2> QED
    BY <2>2, <2>3, <2>4, <2>5
<1>2. CASE Applied
  BY <1>1, <1>2, EndedKeeps DEF Applied, Types
<1>3. CASE Truncate
  BY <1>1, <1>3, <1>f, EndedKeeps DEF Truncate, Setting, Types
<1>4. CASE Write
  <2>1. data \in Config /\ (data["allow"] => optedIn)
    BY DEF Types, Explicit
  <2>2. \A n : Prefix(data, n) \in Config /\ (Prefix(data, n)["allow"] => optedIn)
    BY <2>1, PrefixType
  <2>3. faults' \in Nat
    BY <1>4, <1>f DEF Write, Types
  <2>4. \E f \in {Refused} \cup Config : Rewrite(f) /\ (f \in Config /\ f["allow"] => optedIn)
    BY <1>4, <2>1, <2>2, MarksDistinct DEF Write
  <2> QED
    BY <1>4, <2>3, <2>4, EndedKeeps DEF Write
<1>5. CASE Kill
  BY <1>5, <1>f, EndedKeeps DEF Kill
<1> QED
  BY <1>2, <1>3, <1>4, <1>5

LEMMA ReadersKeep == ASSUME ConfigInv, RuntimeLoad \/ HookLoad \/ NextContainer PROVE ConfigInv'
<1> USE DEF ConfigInv, env, run
<1>1. UNCHANGED <<files, env, run, faults, optedIn>>
  BY DEF RuntimeLoad, HookLoad, NextContainer
<1>2. Setting'
  BY <1>1 DEF Setting, Done, LastSays
<1>3. Search(hookPaths) \in Paths
  BY DEF Types, Search, Paths
<1>4. CASE RuntimeLoad
  <2>1. runtimeCfg' = RuntimeReads /\ RuntimeReads \in {Refused} \cup Config
    BY <1>4 DEF RuntimeLoad, RuntimeReads, Types, Paths
  <2>2. RuntimeReads \in Config /\ RuntimeReads["allow"] => optedIn
    BY MarksDistinct DEF RuntimeReads, Types, Explicit, Paths
  <2>3. Types' /\ Explicit'
    BY <1>4, <2>1, <2>2 DEF RuntimeLoad, Types, Explicit
  <2>4. Current'
    BY <1>4, <2>1 DEF RuntimeLoad, Current, RuntimeReads
  <2> QED
    BY <1>2, <2>3, <2>4
<1>5. CASE HookLoad
  <2>1. hookCfg' = HookReads /\ HookReads \in {Refused} \cup Config
    BY <1>3, <1>5, DefaultIsConfig DEF HookLoad, HookReads, Types
  <2>2. HookReads \in Config /\ HookReads["allow"] => optedIn
    BY <1>3, DefaultIsConfig, MarksDistinct DEF HookReads, Types, Explicit
  <2>3. Types' /\ Explicit'
    BY <1>5, <2>1, <2>2 DEF HookLoad, Types, Explicit
  <2>4. Current'
    BY <1>5, <2>1 DEF HookLoad, Current, RuntimeReads, HookReads, Search
  <2> QED
    BY <1>2, <2>3, <2>4
<1>6. CASE NextContainer
  BY <1>2, <1>6, MarksDistinct DEF NextContainer, Types, Explicit, Current
<1> QED
  BY <1>4, <1>5, <1>6

LEMMA ConfigNext == ConfigInv /\ [Next]_vars => ConfigInv'
<1> SUFFICES ASSUME ConfigInv, [Next]_vars PROVE ConfigInv'
  OBVIOUS
<1>1. CASE UNCHANGED vars
  BY <1>1, ReadsAgain DEF vars, env, run, ConfigInv, Types, Explicit, Current, Setting, Done,
                          LastSays
<1> QED
  BY <1>1, BeginKeeps, ApplyKeeps, SavingKeeps, ReadersKeep DEF Next

LEMMA ConfigInvariant == Spec => []ConfigInv
BY ConfigInit, ConfigNext, PTL DEF Spec

\* Runtime and hook never allow device requests of the environment unless the
\* administrator has said so, whatever options were given in whatever form, wherever
\* a save was cut off, and whichever file is found.
THEOREM NobodyOptsInByAccident == Spec => []OptInIsExplicit
<1>1. ConfigInv => OptInIsExplicit
  BY MarksDistinct DEF ConfigInv, Types, Explicit, OptInIsExplicit, Read
<1> QED
  BY <1>1, ConfigInvariant, PTL

\* Unless files have changed or the two look at different ones, the hook works by
\* the configuration the runtime has worked by.
THEOREM HookReadsTheSame == Spec => []HookFollowsRuntime
<1>1. ConfigInv => HookFollowsRuntime
  <2> SUFFICES ASSUME ConfigInv, hookCfg # Unread, steady,
                      runtimePath = "custom" <=> hookPaths = <<"custom">>,
                      runtimePath = "etc" => files["driver"] = Missing
               PROVE  hookCfg = runtimeCfg
    BY DEF HookFollowsRuntime
  <2>1. files[runtimePath] # Missing /\ runtimeCfg = files[runtimePath] /\ hookCfg = HookReads
    BY DEF ConfigInv, Current, RuntimeReads
  <2>2. Search(hookPaths) = runtimePath
    <3>1. CASE runtimePath = "custom"
      <4>1. hookPaths = <<"custom">>
        BY <3>1
      <4>2. DOMAIN hookPaths = {1}
        BY <4>1
      <4> QED
        BY <2>1, <3>1, <4>1, <4>2 DEF Search
    <3>2. CASE runtimePath = "etc"
      <4>1. hookPaths = <<"driver", "etc">>
        BY <3>2 DEF ConfigInv, Types
      <4> DEFINE found == {i \in DOMAIN hookPaths : files[hookPaths[i]] # Missing}
      <4>2. found = {2} /\ hookPaths[2] = "etc"
        BY <2>1, <3>2, <4>1
      <4>3. (CHOOSE i \in found : \A j \in found : i <= j) = 2
        BY <4>2
      <4> QED
        BY <3>2, <4>2, <4>3 DEF Search
    <3> QED
      BY <3>1, <3>2 DEF ConfigInv, Types
  <2> QED
    BY <2>1, <2>2 DEF HookReads
<1> QED
  BY <1>1, ConfigInvariant, PTL

\* A run that completes its write had only valid options, and leaves the last value
\* given for each setting and the defaults of the others.
THEOREM RunsSetWhatTheySay == Spec => LastValueOfAll
<1> DEFINE Says ==
      At("write") /\ faults' = faults /\ files' # files =>
        /\ \A i \in DOMAIN sets : Accepts(sets[i])
        /\ \A name \in Names :
             LET given == {i \in DOMAIN sets : sets[i].name = name}
             IN files'[toolPath][name] =
                  IF given = {} THEN DefaultConfig[name]
                  ELSE Assigned(sets[CHOOSE i \in given : \A j \in given : j <= i])
<1>1. ASSUME ConfigInv, [Next]_vars PROVE [Says]_vars
  <2> SUFFICES ASSUME At("write"), faults' = faults, files' # files
               PROVE  /\ \A i \in DOMAIN sets : Accepts(sets[i])
                      /\ \A name \in Names : LastSays(name, Len(sets), files'[toolPath][name])
    <3>1. DOMAIN sets = 1..Len(sets) /\ Len(sets) \in Nat
      BY <1>1 DEF ConfigInv, Types
    <3>2. ASSUME NEW name \in Names, NEW value, LastSays(name, Len(sets), value)
          PROVE  LET given == {i \in DOMAIN sets : sets[i].name = name}
                 IN value = IF given = {} THEN DefaultConfig[name]
                            ELSE Assigned(sets[CHOOSE i \in given : \A j \in given : j <= i])
      <4> DEFINE given == {i \in DOMAIN sets : sets[i].name = name}
                 last  == CHOOSE i \in given : \A j \in given : j <= i
      <4>1. CASE given = {}
        BY <3>1, <3>2, <4>1 DEF LastSays
      <4>2. CASE given # {}
        <5>1. PICK i \in given : value = Assigned(sets[i]) /\ \A j \in given : j <= i
          BY <3>1, <3>2, <4>2 DEF LastSays
        <5>2. last \in given /\ \A j \in given : j <= last
          BY <5>1
        <5>3. last = i
          BY <3>1, <5>1, <5>2
        <5> QED
          BY <4>2, <5>1, <5>3
      <4> QED
        BY <4>1, <4>2
    <3> QED
      BY <3>2
  <2>1. ~Fault
    BY <1>1 DEF Fault, ConfigInv, Types
  <2>2. Write
    BY <1>1, <2>1 DEF Next, Begin, Apply, Applied, Truncate, Kill, RuntimeLoad, HookLoad,
                      NextContainer, At, vars
  <2>3. files' = [files EXCEPT ![toolPath] = data]
    BY <2>1, <2>2 DEF Write, Rewrite
  <2>4. files'[toolPath] = data
    BY <1>1, <2>3 DEF ConfigInv, Types, Paths
  <2>5. Done = Len(sets) /\ DOMAIN sets = 1..Len(sets)
    BY <1>1 DEF ConfigInv, Types, Setting, At, Done
  <2> QED
    BY <1>1, <2>4, <2>5 DEF ConfigInv, Setting, At
<1> QED
  BY <1>1, ConfigInvariant, PTL DEF Spec, LastValueOfAll

(***************************************************************************)
(* The arguments.  First, that runc's reading of them is well defined.     *)
(***************************************************************************)
LEMMA LeastExists ==
  ASSUME NEW S \in SUBSET Nat, S # {}
  PROVE  \E x \in S : \A y \in S : x <= y
<1>1. \A x, y \in Nat : <<y, x>> \in OpToRel(<, Nat) <=> y < x
  BY DEF OpToRel
<1>2. PICK x \in S : \A y \in S : <<y, x>> \notin OpToRel(<, Nat)
  BY NatLessThanWellFounded, WFMin
<1>3. ASSUME NEW y \in S PROVE x <= y
  <2>1. ~(y < x)
    BY <1>1, <1>2, Zenon
  <2>2. x \in Nat /\ y \in Nat
    OBVIOUS
  <2> QED
    BY <2>1, <2>2
<1> QED
  BY <1>3

\* The reading of runc from left to right is a function of the arguments: one is
\* a value if an odd number of arguments before it take one.
LEMMA ValuesDefined ==
  ASSUME NEW line \in Seq(Argument)
  PROVE  IsValue(line) = [i \in 1..Len(line) |-> i > 1 /\ Takes(line[i - 1]) /\ ~IsValue(line)[i - 1]]
<1> DEFINE n == Len(line)
           Stops(i) == {d \in 0..(i - 1) : d = i - 1 \/ ~Takes(line[i - 1 - d])}
           Least(i, d) == d \in Stops(i) /\ \A e \in Stops(i) : d <= e
           D(i) == CHOOSE d \in Nat : Least(i, d)
           g == [i \in 1..n |-> D(i) % 2 = 1]
<1>1. n \in Nat
  OBVIOUS
<1>2. ASSUME NEW i \in 1..n PROVE D(i) \in Nat /\ Least(i, D(i))
  <2>1. i - 1 \in Stops(i) /\ Stops(i) \in SUBSET Nat
    BY <1>1
  <2>2. \E d \in Stops(i) : \A e \in Stops(i) : d <= e
    <3> HIDE DEF Stops
    <3> QED
      BY <2>1, LeastExists
  <2>3. \E d \in Nat : Least(i, d)
    BY <2>1, <2>2
  <2> HIDE DEF Least
  <2> QED
    BY <2>3
<1>3. ASSUME NEW i \in 1..n, NEW d \in Nat, Least(i, d) PROVE D(i) = d
  <2>1. D(i) \in Nat /\ D(i) \in Stops(i) /\ d \in Stops(i) /\ D(i) <= d /\ d <= D(i)
    BY <1>2, <1>3
  <2> HIDE DEF D, Stops
  <2> QED
    BY <2>1
<1>4. ASSUME NEW i \in 1..n, i = 1 \/ ~Takes(line[i - 1]) PROVE D(i) = 0
  <2>1. Least(i, 0)
    BY <1>4, <1>1
  <2> HIDE DEF Least, D
  <2> QED
    BY <2>1, <1>3
<1>5. ASSUME NEW i \in 1..n, i > 1, Takes(line[i - 1]) PROVE D(i) = D(i - 1) + 1
  <2>1. i - 1 \in 1..n
    BY <1>5, <1>1
  <2> DEFINE d == D(i - 1)
  <2>2. d \in Nat /\ Least(i - 1, d)
    BY <2>1, <1>2
  <2> HIDE DEF D, d
  <2>3. d + 1 \in Stops(i)
    BY <2>1, <2>2, <1>1
  <2>4. ASSUME NEW e \in Stops(i) PROVE d + 1 <= e
    <3>1. e \in 0..(i - 1) /\ e # 0
      BY <1>5, <1>1
    <3>2. e - 1 \in Stops(i - 1)
      BY <3>1, <2>4, <1>5, <1>1
    <3> HIDE DEF Stops
    <3> QED
      BY <3>1, <3>2, <2>2
  <2>5. Least(i, d + 1)
    BY <2>3, <2>4
  <2> HIDE DEF Least
  <2> QED
    BY <2>2, <2>5, <1>3 DEF d
<1>6. ASSUME NEW i \in 1..n
      PROVE  (D(i) % 2 = 1) <=> i > 1 /\ Takes(line[i - 1]) /\ ~(D(i - 1) % 2 = 1)
  <2>1. CASE i = 1 \/ ~Takes(line[i - 1])
    <3>1. D(i) = 0
      BY <2>1, <1>4
    <3> HIDE DEF D
    <3> QED
      BY <2>1, <3>1
  <2>2. CASE i > 1 /\ Takes(line[i - 1])
    <3>1. D(i - 1) \in Nat
      BY <2>2, <1>2, <1>1
    <3>2. D(i) = D(i - 1) + 1
      BY <2>2, <1>5
    <3> HIDE DEF D
    <3> QED
      BY <2>2, <3>1, <3>2
  <2> QED
    BY <2>1, <2>2, <1>1
<1> HIDE DEF D
<1>7. g = [i \in 1..n |-> i > 1 /\ Takes(line[i - 1]) /\ ~g[i - 1]]
  <2>1. ASSUME NEW i \in 1..n
        PROVE  g[i] = (i > 1 /\ Takes(line[i - 1]) /\ ~g[i - 1])
    <3>1. CASE i = 1
      BY <3>1, <1>6
    <3>2. CASE i > 1
      <4>1. i - 1 \in 1..n
        BY <3>2, <1>1
      <4>2. g[i] = (D(i) % 2 = 1) /\ g[i - 1] = (D(i - 1) % 2 = 1)
        BY <4>1
      <4> HIDE DEF g
      <4> QED
        BY <4>2, <1>6
    <3> QED
      BY <3>1, <3>2, <1>1
  <2> QED
    BY <2>1
<1> HIDE DEF g
<1> QED
  BY <1>7 DEF IsValue

(***************************************************************************)
(* Command lines of engines.                                               *)
(***************************************************************************)
\* A flag for the bundle, and a place where runc looks for a flag or a word.
IsBundle(arg)  == ~IsWord(arg) /\ arg.name \in BundleFlags
Free(line, i)  == i = 1 \/ ~Takes(line[i - 1])
Closed(line)   == line = <<>> \/ ~Takes(line[Len(line)])

\* In whatever part: words have no "=", and a flag for the bundle is no value.
Plain(line) ==
  \A i \in DOMAIN line : /\ IsWord(line[i]) => line[i].value = NoValue
                         /\ IsBundle(line[i]) => Free(line, i)

\* A word stands at p that runc takes for a command, before any bundle.
Commanded(line, p) ==
  /\ p \in DOMAIN line /\ IsWord(line[p]) /\ Free(line, p)
  /\ \A i \in DOMAIN line : IsBundle(line[i]) => p < i

Parts == {"globals", "locals"}

Shape ==
  /\ args \in Seq(Argument) /\ Plain(args)
  /\ verdict \in Parts => Closed(args)
  /\ verdict = "globals" => \A i \in DOMAIN args : ~IsBundle(args[i])
  /\ verdict # "globals" => \E p \in DOMAIN args : Commanded(args, p)
  /\ verdict \notin Parts => args # <<>> /\ IsWord(args[Len(args)])

LineInv == Shape /\ EditsRuncsBundle

\* What is written after a closed command line stands as if it stood alone.
LEMMA Extended ==
  ASSUME NEW line \in Seq(Argument), NEW words \in Seq(Argument), Closed(line),
         Plain(line), Plain(words), words # <<>>
  PROVE  /\ line \o words \in Seq(Argument) /\ Plain(line \o words)
         /\ Len(line \o words) = Len(line) + Len(words) /\ Len(words) > 0
         /\ DOMAIN (line \o words) = 1..(Len(line) + Len(words))
         /\ \A i \in DOMAIN line : /\ i \in DOMAIN (line \o words) /\ (line \o words)[i] = line[i]
                                   /\ Free(line \o words, i) <=> Free(line, i)
         /\ \A i \in DOMAIN words : /\ Len(line) + i \in DOMAIN (line \o words)
                                    /\ (line \o words)[Len(line) + i] = words[i]
                                    /\ Free(words, i) => Free(line \o words, Len(line) + i)
<1> DEFINE whole == line \o words
           m == Len(line)
           n == Len(words)
<1>1. /\ m \in Nat /\ n \in Nat /\ n > 0 /\ DOMAIN line = 1..m /\ DOMAIN words = 1..n
      /\ whole \in Seq(Argument) /\ Len(whole) = m + n /\ DOMAIN whole = 1..(m + n)
  OBVIOUS
<1>2. /\ \A i \in 1..m : whole[i] = line[i]
      /\ \A i \in 1..n : whole[m + i] = words[i]
  OBVIOUS
<1> HIDE DEF whole
<1>3. ASSUME NEW i \in 1..m PROVE Free(whole, i) <=> Free(line, i)
  <2>1. i = 1 \/ i - 1 \in 1..m
    BY <1>1
  <2> QED
    BY <2>1, <1>2 DEF Free
<1>4. ASSUME NEW i \in 1..n, Free(words, i) PROVE Free(whole, m + i)
  <2>1. CASE i = 1
    <3>1. CASE m = 0
      BY <2>1, <3>1 DEF Free
    <3>2. CASE m > 0
      BY <2>1, <3>2, <1>1, <1>2 DEF Free, Closed
    <3> QED
      BY <3>1, <3>2, <1>1
  <2>2. CASE i > 1
    <3>1. i - 1 \in 1..n /\ (m + i) - 1 = m + (i - 1)
      BY <2>2, <1>1
    <3> QED
      BY <2>2, <3>1, <1>1, <1>2, <1>4 DEF Free
  <2> QED
    BY <2>1, <2>2, <1>1
<1>5. Plain(whole)
  <2> SUFFICES ASSUME NEW i \in 1..(m + n)
               PROVE  /\ IsWord(whole[i]) => whole[i].value = NoValue
                      /\ IsBundle(whole[i]) => Free(whole, i)
    BY <1>1 DEF Plain
  <2>1. CASE i \in 1..m
    BY <2>1, <1>1, <1>2, <1>3 DEF Plain
  <2>2. CASE i > m
    <3>1. i - m \in 1..n /\ m + (i - m) = i
      BY <2>2, <1>1
    <3> QED
      BY <3>1, <1>1, <1>2, <1>4 DEF Plain
  <2> QED
    BY <2>1, <2>2, <1>1
<1> QED
  BY <1>1, <1>2, <1>3, <1>4, <1>5 DEF whole

LEMMA WordIs ==
  ASSUME NEW name \in Text
  PROVE  /\ Word(name) \in Argument /\ IsWord(Word(name)) /\ Word(name).value = NoValue
         /\ Word(name).name = name /\ ~Takes(Word(name)) /\ ~IsBundle(Word(name))
BY DEF Word, Argument, IsWord, Takes, IsBundle

\* What a flag comes to that is written with the value it takes.
LEMMA CompleteFlag ==
  ASSUME NEW flag, Complete(flag)
  PROVE  /\ flag \in Seq(Argument) /\ flag # <<>> /\ Plain(flag) /\ Closed(flag)
         /\ \A i \in DOMAIN flag : IsBundle(flag[i]) => i = 1
<1>1. CASE \E arg \in Argument : flag = <<arg>> /\ ~IsWord(arg) /\ ~Takes(arg)
  <2>1. PICK arg \in Argument : flag = <<arg>> /\ ~IsWord(arg) /\ ~Takes(arg)
    BY <1>1
  <2>2. DOMAIN flag = {1} /\ flag[1] = arg /\ Len(flag) = 1
    BY <2>1
  <2> QED
    BY <2>1, <2>2 DEF Plain, Closed, Free
<1>2. CASE \E arg \in Argument, name \in Text : flag = <<arg, Word(name)>> /\ Takes(arg)
  <2>1. PICK arg \in Argument, name \in Text : flag = <<arg, Word(name)>> /\ Takes(arg)
    BY <1>2
  <2>2. DOMAIN flag = {1, 2} /\ flag[1] = arg /\ flag[2] = Word(name) /\ Len(flag) = 2
    BY <2>1
  <2>3. flag \in Seq(Argument) /\ flag # <<>>
    BY <2>1, <2>2, WordIs
  <2>4. ~IsWord(arg)
    BY <2>1 DEF Takes
  <2> QED
    BY <2>2, <2>3, <2>4, WordIs DEF Plain, Closed, Free
<1> QED
  BY <1>1, <1>2 DEF Complete

LEMMA OneWord ==
  ASSUME NEW name \in Text
  PROVE  /\ <<Word(name)>> \in Seq(Argument) /\ <<Word(name)>> # <<>> /\ Plain(<<Word(name)>>)
         /\ Closed(<<Word(name)>>)
<1>1. DOMAIN <<Word(name)>> = {1} /\ <<Word(name)>>[1] = Word(name) /\ Len(<<Word(name)>>) = 1
  OBVIOUS
<1> QED
  BY <1>1, WordIs DEF Plain, Closed

\* The command stays what it is whatever follows.
LEMMA StillCommanded ==
  ASSUME NEW line \in Seq(Argument), NEW words \in Seq(Argument), Closed(line),
         Plain(line), Plain(words), words # <<>>, NEW p \in DOMAIN line, Commanded(line, p)
  PROVE  \E q \in DOMAIN (line \o words) : Commanded(line \o words, q)
<1>1. p \in DOMAIN (line \o words) /\ IsWord((line \o words)[p]) /\ Free(line \o words, p)
  BY Extended DEF Commanded
<1>2. ASSUME NEW i \in DOMAIN (line \o words), IsBundle((line \o words)[i]) PROVE p < i
  <2>1. CASE i \in DOMAIN line
    BY <1>2, <2>1, Extended DEF Commanded
  <2>2. CASE i \notin DOMAIN line
    BY <2>2, Extended
  <2> QED
    BY <2>1, <2>2
<1> QED
  BY <1>1, <1>2 DEF Commanded

(***************************************************************************)
(* What runc makes of them, and what the runtime does.                     *)
(***************************************************************************)
LEMMA FreeIsNoValue ==
  ASSUME NEW line \in Seq(Argument), NEW i \in DOMAIN line, Free(line, i)
  PROVE  ~IsValue(line)[i]
<1>1. i \in 1..Len(line)
  OBVIOUS
<1>2. IsValue(line)[i] <=> i > 1 /\ Takes(line[i - 1]) /\ ~IsValue(line)[i - 1]
  BY ValuesDefined, <1>1, Zenon
<1> QED
  BY <1>2 DEF Free

\* runc finds its command at p or before.
LEMMA CommandFound ==
  ASSUME NEW line \in Seq(Argument), NEW p, Commanded(line, p)
  PROVE  Command(line) \in DOMAIN line /\ IsWord(line[Command(line)]) /\ Command(line) <= p
<1> DEFINE Words0 == {i \in DOMAIN line : IsWord(line[i]) /\ ~IsValue(line)[i]}
<1>1. p \in Words0 /\ DOMAIN line = 1..Len(line) /\ Len(line) \in Nat
  BY FreeIsNoValue DEF Commanded
<1>2. PICK c \in Words0 : \A i \in Words0 : c <= i
  <2>1. Words0 \in SUBSET Nat /\ Words0 # {}
    BY <1>1
  <2> HIDE DEF Words0
  <2> QED
    BY <2>1, LeastExists
<1>3. IsCommand(line, c)
  BY <1>1, <1>2 DEF IsCommand
<1>4. Command(line) \in DOMAIN line /\ IsCommand(line, Command(line))
  BY <1>2, <1>3 DEF Command
<1>5. Command(line) \in Words0
  BY <1>4 DEF IsCommand
<1>6. ~(p < Command(line))
  BY <1>1, <1>4 DEF IsCommand
<1> QED
  BY <1>1, <1>5, <1>6

\* With one argument of a bundle's name at most, runtime and runc look for it at
\* one place: no value of another flag and nothing before the command is taken for it.
LEMMA RequestKeeps == ASSUME Shape, Request PROVE EditsRuncsBundle'
<1> SUFFICES ASSUME Decided', RuncCreates(args'),
                    \A i \in DOMAIN args : IsWord(args[i]) => args[i].name \notin BundleFlags,
                    \A i, j \in DOMAIN args :
                      {args[i].name, args[j].name} \subseteq BundleFlags => i = j
             PROVE  verdict' = "edited" /\ bundle' = RuncBundle(args')
  BY DEF EditsRuncsBundle, Request
<1>1. PICK p \in DOMAIN args : Commanded(args, p)
  BY DEF Shape, Request
<1>2. /\ args' = args /\ args \in Seq(Argument) /\ DOMAIN args = 1..Len(args) /\ Len(args) \in Nat
      /\ Plain(args) /\ args # <<>> /\ IsWord(args[Len(args)])
  <2>1. /\ args' = args /\ args \in Seq(Argument) /\ Plain(args)
        /\ args # <<>> /\ IsWord(args[Len(args)])
    BY DEF Shape, Request, Parts
  <2>2. DOMAIN args = 1..Len(args) /\ Len(args) \in Nat
    BY <2>1
  <2> QED
    BY <2>1, <2>2
<1>3. Command(args) \in DOMAIN args /\ IsWord(args[Command(args)]) /\ Command(args) <= p
  BY <1>1, <1>2, CommandFound
<1>4. hasCreateCommand
  <2> DEFINE arg == args[Command(args)]
  <2>1. arg.name = "create" /\ arg \in Argument /\ IsWord(arg) /\ arg.value = NoValue
    BY <1>2, <1>3 DEF RuncCreates, Plain
  <2>2. arg = Word("create")
    BY <2>1 DEF Argument, Word, IsWord
  <2> QED
    BY <1>3, <2>2 DEF hasCreateCommand
<1> DEFINE named == {i \in 1..Len(args) : isBundleFlag(args[i])}
           flags == {i \in DOMAIN args : i > Command(args) /\ ~IsWord(args[i])
                                           /\ ~IsValue(args)[i] /\ args[i].name \in BundleFlags}
<1>5. flags = named
  <2> SUFFICES ASSUME NEW i \in named PROVE i \in flags
    BY <1>2 DEF isBundleFlag
  <2>1. i \in DOMAIN args /\ IsBundle(args[i])
    BY <1>2 DEF IsBundle, isBundleFlag
  <2>2. ~IsValue(args)[i]
    BY <2>1, <1>2, FreeIsNoValue DEF Plain
  <2>3. p < i
    BY <2>1, <1>1 DEF Commanded
  <2> QED
    BY <2>1, <2>2, <2>3, <1>2, <1>3 DEF IsBundle
<1>6. RuncBundle(args) =
        LET last == CHOOSE i \in flags : \A j \in flags : j <= i
        IN  IF flags = {} THEN Cwd
            ELSE Directory(IF args[last].value = NoValue THEN args[last + 1].name ELSE args[last].value)
  BY DEF RuncBundle
<1>7. SelectInSeq(args, isBundleFlag) = IF named # {} THEN Min(named) ELSE 0
  BY DEF SelectInSeq
<1>8. CASE named = {}
  <2>1. RuncBundle(args) = Cwd
    BY <1>5, <1>6, <1>8
  <2>2. SelectInSeq(args, isBundleFlag) = 0
    BY <1>7, <1>8
  <2> QED
    BY <1>2, <1>4, <2>1, <2>2 DEF Request
<1>9. CASE named # {}
  <2>1. PICK i \in named : TRUE
    BY <1>9
  <2>2. named = {i}
    BY <2>1, <1>2 DEF isBundleFlag
  <2>3. i \in 1..Len(args) /\ ~IsWord(args[i])
    BY <2>1, <1>2 DEF isBundleFlag
  <2>4. SelectInSeq(args, isBundleFlag) = i /\ i # 0
    <3>1. Min(named) = i
      BY <2>2, <2>3 DEF Min
    <3> QED
      BY <3>1, <1>7, <1>9, <2>3
  <2>5. (CHOOSE x \in flags : \A j \in flags : j <= x) = i
    BY <2>2, <2>3, <1>5
  <2>6. RuncBundle(args) =
          Directory(IF args[i].value = NoValue THEN args[i + 1].name ELSE args[i].value)
    BY <2>5, <1>5, <1>6, <1>9
  <2>7. i < Len(args)
    BY <2>3, <1>2
  <2>8. verdict' = "edited" /\ bundle' = RuncBundle(args)
    <3> HIDE DEF named, flags
    <3>1. CASE args[i].value = NoValue
      BY <3>1, <1>4, <2>4, <2>6, <2>7 DEF Request
    <3>2. CASE args[i].value # NoValue
      BY <3>2, <1>4, <2>4, <2>6 DEF Request
    <3> QED
      BY <3>1, <3>2
  <2> QED
    BY <2>8, <1>2
<1> QED
  BY <1>8, <1>9

\* The engine writes, and nothing is decided yet.
LEMMA PutKeeps ==
  ASSUME Shape, NEW words \in Seq(Argument), NEW part \in Parts \cup {"asked"}, Put(words, part),
         verdict \in Parts, words # <<>>, Plain(words),
         part \in Parts => Closed(words),
         part = "globals" => verdict = "globals" /\ \A i \in DOMAIN words : ~IsBundle(words[i]),
         verdict = "globals" /\ part # "globals" => Commanded(words, 1),
         part = "asked" => IsWord(words[Len(words)])
  PROVE  LineInv'
<1>1. /\ args' = args \o words /\ verdict' = part /\ args \in Seq(Argument) /\ Closed(args)
      /\ Plain(args) /\ Len(args) \in Nat /\ Len(words) \in Nat /\ Len(words) > 0
      /\ DOMAIN words = 1..Len(words) /\ DOMAIN args = 1..Len(args)
  <2>1. /\ args' = args \o words /\ verdict' = part /\ args \in Seq(Argument)
        /\ Closed(args) /\ Plain(args)
    BY DEF Put, Shape
  <2>2. /\ Len(args) \in Nat /\ Len(words) \in Nat /\ Len(words) > 0
        /\ DOMAIN words = 1..Len(words) /\ DOMAIN args = 1..Len(args)
    BY <2>1
  <2> QED
    BY <2>1, <2>2
<1>2. /\ args' \in Seq(Argument) /\ Plain(args') /\ Len(args') = Len(args) + Len(words)
      /\ DOMAIN args' = 1..(Len(args) + Len(words))
      /\ \A i \in DOMAIN args : i \in DOMAIN args' /\ args'[i] = args[i]
      /\ \A i \in DOMAIN words : /\ Len(args) + i \in DOMAIN args' /\ args'[Len(args) + i] = words[i]
                                 /\ Free(words, i) => Free(args', Len(args) + i)
  BY <1>1, Extended
<1>3. args'[Len(args')] = words[Len(words)] /\ args' # <<>>
  BY <1>1, <1>2
<1>4. \A i \in DOMAIN args' : i \in DOMAIN args \/ \E j \in DOMAIN words : i = Len(args) + j
  <2> SUFFICES ASSUME NEW i \in DOMAIN args', i \notin DOMAIN args
               PROVE  \E j \in DOMAIN words : i = Len(args) + j
    OBVIOUS
  <2>1. i - Len(args) \in DOMAIN words /\ i = Len(args) + (i - Len(args))
    BY <1>1, <1>2
  <2> QED
    BY <2>1
<1>5. part \in Parts => Closed(args')
  BY <1>1, <1>3 DEF Closed
<1>6. part = "globals" => \A i \in DOMAIN args' : ~IsBundle(args'[i])
  BY <1>1, <1>2, <1>4 DEF Shape
<1>7. part # "globals" => \E p \in DOMAIN args' : Commanded(args', p)
  <2>1. CASE verdict # "globals"
    BY <2>1, <1>1, StillCommanded DEF Shape
  <2>2. CASE verdict = "globals" /\ part # "globals"
    <3> DEFINE p == Len(args) + 1
    <3>1. 1 \in DOMAIN words /\ IsWord(words[1]) /\ Free(words, 1)
      BY <1>1, <2>2 DEF Commanded
    <3>2. p \in DOMAIN args' /\ IsWord(args'[p]) /\ Free(args', p)
      BY <3>1, <1>2
    <3>3. ASSUME NEW i \in DOMAIN args', IsBundle(args'[i]) PROVE p < i
      <4>1. i \notin DOMAIN args
        BY <3>3, <1>2, <2>2 DEF Shape
      <4>2. PICK j \in DOMAIN words : i = Len(args) + j
        BY <4>1, <1>4
      <4>3. IsBundle(words[j])
        BY <4>2, <3>3, <1>2
      <4>4. 1 < j
        BY <4>3, <2>2 DEF Commanded
      <4> QED
        BY <4>2, <4>4, <1>1
    <3> HIDE DEF p
    <3> QED
      BY <3>2, <3>3 DEF Commanded
  <2> QED
    BY <2>1, <2>2
<1>8. Shape'
  BY <1>1, <1>2, <1>3, <1>5, <1>6, <1>7 DEF Shape, Parts
<1>9. EditsRuncsBundle'
  BY <1>1 DEF EditsRuncsBundle, Decided, Parts
<1> QED
  BY <1>8, <1>9 DEF LineInv

LEMMA LineNextKeeps == LineInv /\ [LineNext]_lineVars => LineInv'
<1> SUFFICES ASSUME LineInv, [LineNext]_lineVars PROVE LineInv'
  OBVIOUS
<1>s. Shape
  BY DEF LineInv
<1>1. CASE GlobalFlag
  <2>1. PICK flag \in Globals : Put(flag, "globals") /\ verdict = "globals"
    BY <1>1 DEF GlobalFlag
  <2>2. Complete(flag) /\ flag[1].name \notin BundleFlags
    BY FlagsComplete
  <2>3. /\ flag \in Seq(Argument) /\ flag # <<>> /\ Plain(flag) /\ Closed(flag)
        /\ \A i \in DOMAIN flag : ~IsBundle(flag[i])
    BY <2>2, CompleteFlag DEF IsBundle
  <2> QED
    BY <1>s, <2>1, <2>3, PutKeeps DEF Parts
<1>2. CASE GiveCommand
  <2>1. PICK command \in Commands : Put(<<Word(command)>>, "locals") /\ verdict = "globals"
    BY <1>2 DEF GiveCommand
  <2>2. command \in Text
    BY LineTyped
  <2>3. Commanded(<<Word(command)>>, 1)
    <3>1. DOMAIN <<Word(command)>> = {1} /\ <<Word(command)>>[1] = Word(command)
      OBVIOUS
    <3> QED
      BY <2>2, <3>1, WordIs DEF Commanded, Free
  <2> QED
    BY <1>s, <2>1, <2>2, <2>3, OneWord, PutKeeps DEF Parts
<1>3. CASE LocalFlag
  <2>1. PICK flag \in Locals : Put(flag, "locals") /\ verdict = "locals"
    BY <1>3 DEF LocalFlag
  <2>2. Complete(flag)
    BY FlagsComplete
  <2> QED
    BY <1>s, <2>1, <2>2, CompleteFlag, PutKeeps DEF Parts
<1>4. CASE GiveId
  <2>1. PICK id \in Words, process \in Words :
          /\ verdict = "locals"
          /\ Put(<<Word(id)>>, "asked") \/ Put(<<Word(id), Word(process)>>, "asked")
    BY <1>4 DEF GiveId
  <2>2. id \in Text /\ process \in Text
    BY LineTyped
  <2>3. CASE Put(<<Word(id)>>, "asked")
    <3>1. IsWord(<<Word(id)>>[Len(<<Word(id)>>)])
      BY <2>2, WordIs
    <3> QED
      BY <1>s, <2>1, <2>2, <2>3, <3>1, OneWord, PutKeeps DEF Parts
  <2>4. CASE Put(<<Word(id), Word(process)>>, "asked")
    <3> DEFINE words == <<Word(id), Word(process)>>
    <3>1. /\ words \in Seq(Argument) /\ words # <<>> /\ Len(words) = 2
          /\ DOMAIN words = {1, 2} /\ words[1] = Word(id) /\ words[2] = Word(process)
      BY <2>2, WordIs
    <3>2. Plain(words) /\ IsWord(words[Len(words)])
      BY <3>1, <2>2, WordIs DEF Plain
    <3> HIDE DEF words
    <3>3. Put(words, "asked")
      BY <2>4 DEF words
    <3> QED
      BY <1>s, <2>1, <3>1, <3>2, <3>3, PutKeeps DEF Parts
  <2> QED
    BY <2>1, <2>3, <2>4
<1>5. CASE Request
  <2>1. EditsRuncsBundle'
    BY <1>s, <1>5, RequestKeeps
  <2>2. args' = args /\ verdict = "asked" /\ verdict' \notin Parts
    BY <1>5 DEF Request, Parts
  <2>3. Shape'
    BY <1>s, <2>2 DEF Shape, Parts
  <2> QED
    BY <2>1, <2>3 DEF LineInv
<1>6. CASE UNCHANGED lineVars
  BY <1>6 DEF lineVars, LineInv, Shape, EditsRuncsBundle, Decided
<1> QED
  BY <1>1, <1>2, <1>3, <1>4, <1>5, <1>6 DEF LineNext

\* For any number of flags in any form: what runc is going to create is edited
\* first, and in the bundle that runc takes.
THEOREM WhatRuncCreatesIsEdited == LineSpec => []EditsRuncsBundle
<1>1. LineInit => LineInv
  BY DEF LineInit, LineInv, Shape, Plain, Closed, EditsRuncsBundle, Decided, Parts
<1>2. LineInv => EditsRuncsBundle
  BY DEF LineInv
<1> QED
  BY <1>1, <1>2, LineNextKeeps, PTL DEF LineSpec
==============================================================================
