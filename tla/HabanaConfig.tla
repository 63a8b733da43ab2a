---- MODULE HabanaConfig ----
(***************************************************************************)
(* config.toml of the runtime: "habana-container-toolkit config" writes it *)
(* (cmd/habana-container-toolkit/config, TomlConfig of internal/utils),    *)
(* the runtime reads it at every request (config.Load) and the hook reads  *)
(* it again, by rules of its own, when the container is created            *)
(* (getHookConfig).  Settings are one of each type the code tells apart,   *)
(* and values are what parseSetOption and reflection tell apart.           *)
(***************************************************************************)
EXTENDS Integers, Sequences

CONSTANTS
  Missing,        \* a file that is not there
  Refused,        \* a file no parser takes; also the outcome of reading it
  Unread,         \* nothing has been read yet
  FirstFiles,     \* what a file may be at first
  MaxSets,        \* bound on the --set options of a run
  MaxRuns,        \* bound on runs of the toolkit
  MaxFaults       \* bound on runs killed, and on errors of their writes

VARIABLES
  files,        \* the file at each path
  runtimePath,  \* the path the runtime reads, by XDG_CONFIG_HOME
  hookPaths,    \* the paths the hook tries, by its flag
  toolPath,     \* the path the toolkit writes, by --config
  pc, sets, todo, data,  \* a run: its next step, its options, those not yet
                         \* applied, and the configuration so far
  runtimeCfg, hookCfg,   \* what runtime and hook have read for a container
  runs, faults,
  optedIn,      \* a file or an option of the administrator has said
                \* allow-env-device-requests = true
  steady        \* no file has changed since the runtime has read its

run  == <<pc, sets, todo, data>>
env  == <<runtimePath, hookPaths, toolPath>>
vars == <<files, env, run, runtimeCfg, hookCfg, runs, faults, optedIn, steady>>

BoundsNatural == {MaxSets, MaxRuns, MaxFaults} \subseteq Nat
ASSUME BoundsNatural

Paths == {"etc", "driver", "custom"}

\* The settings in the order Marshal writes them: AllowEnvDeviceRequests,
\* BinariesDir, CLI.Environment, Runtime.LogLevel, Runtime.Mode; CLI.Path is
\* a pointer, and nil in every file this model has.
Settings == <<"allow", "dir", "environment", "level", "mode">>
Names    == {Settings[i] : i \in DOMAIN Settings}
Type(name) == CASE name = "allow"       -> "bool"
                [] name = "dir"         -> "string"
                [] name = "mode"        -> "string"
                [] name = "environment" -> "list"
                [] name = "level"       -> "int"
                [] name = "path"        -> "pointer"
                [] OTHER                -> "none"

\* What may follow "key=" on the command line: nothing at all without the "=",
\* a word or a word that begins with a number ("3rdparty", "2.5"), and lists.
Texts == {"absent", "true", "false", "word", "number", "fraction", "words", "numbers"}

DefaultConfig == [allow |-> FALSE, dir |-> "default", environment |-> "default",
                  level |-> "default", mode |-> "default"]

\* What is given for a setting: a text, or what becomes of one.
Values == Texts \cup {"default", "character", "whole part"}
Config == [allow : BOOLEAN, dir : Values, environment : Values, level : Values, mode : Values]

ASSUME FilesTyped == FirstFiles \subseteq {Missing, Refused} \cup Config

ASSUME MarksDistinct ==
  /\ {Missing, Refused, Unread} \cap Config = {}
  /\ Missing # Refused /\ Refused # Unread /\ Unread # Missing

\* parseSetOption: the type a text is taken for.  Sscanf takes the number a text
\* begins with, and leaves the rest of the text.
ParseSetOption(text) ==
  CASE text \in {"absent", "true", "false"} -> "bool"
    [] text \in {"number", "numbers"}       -> "int"
    [] text = "fraction"                    -> "float"
    [] text = "words"                       -> "list"
    [] text = "word"                        -> "string"

\* reflect: a value of the type of the setting, or convertible to it; a number
\* converted to a string is the character of that number.
Assignable(from, to)  == from = to
Convertible(from, to) == <<from, to>> \in {<<"int", "string">>, <<"float", "int">>}

\* Mutant: a number may stand for a truth value.
AcceptsNumbers(set) ==
  LET from == ParseSetOption(set.text) IN
  \/ Assignable(from, Type(set.name)) \/ Convertible(from, Type(set.name))
  \/ from = "int" /\ Type(set.name) = "bool"

\* SetPath finds a field of that name which takes the value.
Accepts(set) == LET from == ParseSetOption(set.text)
                IN Assignable(from, Type(set.name)) \/ Convertible(from, Type(set.name))

Assigned(set) ==
  CASE Type(set.name) = "bool" -> set.text # "false"
    [] Type(set.name) = "string" /\ ParseSetOption(set.text) = "int" -> "character"
    [] Type(set.name) = "int" /\ ParseSetOption(set.text) = "float"  -> "whole part"
    [] OTHER -> set.text

SetPath(c, set) == [c EXCEPT ![set.name] = Assigned(set)]

----------------------------------------------------------------------------
(* Readers                                                                 *)

\* A file cut off after its first n settings, read over the defaults.
Prefix(c, n) ==
  [name \in Names |-> IF \E i \in 1..n : Settings[i] = name THEN c[name] ELSE DefaultConfig[name]]

\* Mutant: only the first path is tried.
SearchFirst(paths) == Head(paths)

\* getHookConfig: the first path where there is a file, or the last.
Search(paths) ==
  LET found == {i \in DOMAIN paths : files[paths[i]] # Missing}
  IN IF found = {} THEN paths[Len(paths)]
     ELSE paths[CHOOSE i \in found : \A j \in found : i <= j]

\* Load: there must be a file.
RuntimeLoad ==
  /\ runtimeCfg = Unread
  /\ runtimeCfg' = IF files[runtimePath] = Missing THEN Refused ELSE files[runtimePath]
  /\ steady' = TRUE
  /\ UNCHANGED <<files, env, run, hookCfg, runs, faults, optedIn>>

\* The hook runs once the runtime has handed the container over.  Without a
\* file it goes on with the defaults, but not if its flag names the file.
HookLoad ==
  /\ runtimeCfg \notin {Unread, Refused} /\ hookCfg = Unread
  /\ hookCfg' = LET f == files[Search(hookPaths)]
                IN IF f # Missing THEN f
                   ELSE IF Len(hookPaths) = 1 THEN Refused ELSE DefaultConfig
  /\ UNCHANGED <<files, env, run, runtimeCfg, runs, faults, optedIn, steady>>

NextContainer ==
  /\ runtimeCfg = Refused \/ hookCfg # Unread
  /\ runtimeCfg' = Unread /\ hookCfg' = Unread
  /\ UNCHANGED <<files, env, run, runs, faults, optedIn, steady>>

----------------------------------------------------------------------------
(* "config"                                                                *)

Options == [name : Names \cup {"path", "unknown"}, text : Texts]

At(here) == pc = here
Fault    == faults < MaxFaults /\ faults' = faults + 1
Ended    == pc' = "idle" /\ sets' = <<>> /\ todo' = <<>> /\ data' = DefaultConfig
Rewrite(f) == files' = [files EXCEPT ![toolPath] = f] /\ steady' = FALSE

\* DefaultConfig: a run begins with the defaults, whatever the file holds.
Begin ==
  /\ At("idle") /\ runs < MaxRuns /\ runs' = runs + 1
  /\ \E n \in 1..MaxSets : sets' \in [1..n -> Options]
  /\ todo' = sets' /\ data' = DefaultConfig /\ pc' = "apply"
  /\ optedIn' = (optedIn \/ \E i \in DOMAIN sets' : /\ sets'[i].name = "allow"
                                                    /\ sets'[i].text \in {"absent", "true"})
  /\ UNCHANGED <<files, env, runtimeCfg, hookCfg, faults, steady>>

\* Mutant: an option that cannot be set is passed over.
RefuseSkips == todo' = Tail(todo) /\ UNCHANGED <<pc, sets, data>>

\* An option that cannot be set ends the run.
Refuse == Ended

Apply ==
  /\ At("apply") /\ todo # <<>>
  /\ IF Accepts(Head(todo))
     THEN data' = SetPath(data, Head(todo)) /\ todo' = Tail(todo) /\ UNCHANGED <<pc, sets>>
     ELSE Refuse
  /\ UNCHANGED <<files, env, runtimeCfg, hookCfg, runs, faults, optedIn, steady>>

\* All options are set: a dry run prints, another saves.
Applied ==
  /\ At("apply") /\ todo = <<>>
  /\ Ended \/ (pc' = "save" /\ UNCHANGED <<sets, todo, data>>)
  /\ UNCHANGED <<files, env, runtimeCfg, hookCfg, runs, faults, optedIn, steady>>

\* WriteFile truncates: an empty file holds the defaults.
Truncate ==
  /\ At("save")
  /\ \/ Rewrite(DefaultConfig) /\ pc' = "write" /\ UNCHANGED <<sets, todo, data, faults>>
     \/ Fault /\ Ended /\ UNCHANGED <<files, steady>>
  /\ UNCHANGED <<env, runtimeCfg, hookCfg, runs, optedIn>>

\* It writes; an error leaves what was written, cut off between settings or
\* within one.
Write ==
  /\ At("write") /\ Ended
  /\ \/ Rewrite(data) /\ UNCHANGED faults
     \/ Fault /\ (Rewrite(Refused) \/ \E n \in 0..Len(Settings) : Rewrite(Prefix(data, n)))
  /\ UNCHANGED <<env, runtimeCfg, hookCfg, runs, optedIn>>

Kill == /\ ~At("idle") /\ Fault /\ Ended
        /\ UNCHANGED <<files, env, runtimeCfg, hookCfg, runs, optedIn, steady>>

Init == /\ files \in [Paths -> FirstFiles]
        /\ runtimePath \in {"etc", "custom"} /\ toolPath \in {"etc", "custom"}
        /\ hookPaths \in {<<"driver", "etc">>, <<"custom">>}
        /\ pc = "idle" /\ sets = <<>> /\ todo = <<>> /\ data = DefaultConfig
        /\ runtimeCfg = Unread /\ hookCfg = Unread
        /\ runs = 0 /\ faults = 0 /\ steady = FALSE
        /\ optedIn = \E p \in Paths : files[p] \notin {Missing, Refused} /\ files[p].allow

Next == \/ Begin \/ Apply \/ Applied \/ Truncate \/ Write \/ Kill
        \/ RuntimeLoad \/ HookLoad \/ NextContainer

Spec == Init /\ [][Next]_vars

----------------------------------------------------------------------------
(* Properties                                                              *)

Read == {runtimeCfg, hookCfg} \ {Unread, Refused}

\* Environment-only device requests are never allowed by accident: whatever
\* text was given for a setting, wherever a save was cut off and whichever
\* file is found, runtime and hook follow allow-env-device-requests = true only
\* if the administrator has said so in a file or an option.
OptInIsExplicit == (\E c \in Read : c.allow) => optedIn

\* The hook works by the configuration the runtime has worked by, unless a
\* file has changed in between, the driver's directory has a file of its own,
\* or the two were sent to different files.
HookFollowsRuntime ==
  /\ hookCfg # Unread /\ steady
  /\ runtimePath = "custom" <=> hookPaths = <<"custom">>
  /\ runtimePath = "etc" => files["driver"] = Missing
  => hookCfg = runtimeCfg

\* A run changes the file only if each of its options was valid, and what it
\* leaves, if nothing goes wrong, has the last value given for every setting
\* and the default of every other.
LastValueOfAll ==
  [][At("write") /\ faults' = faults /\ files' # files =>
       /\ \A i \in DOMAIN sets : Accepts(sets[i])
       /\ \A name \in Names :
            LET given == {i \in DOMAIN sets : sets[i].name = name}
            IN files'[toolPath][name] =
                 IF given = {} THEN DefaultConfig[name]
                 ELSE Assigned(sets[CHOOSE i \in given : \A j \in given : j <= i])]_vars

====
