---- MODULE MCStartup ----
(* What runtime, hook and toolkit read when they start: the configuration    *)
(* files (HabanaConfig) and the command line (CommandLine).  Neither module  *)
(* has a variable of the other, so that the two are explored one after the   *)
(* other and not in all their combinations.                                  *)
EXTENDS MCHabanaConfig, MCCommandLine

StartupInit == Init /\ LineInit

\* Files change while no argument has been written yet.
FilesStep == LineInit /\ Next /\ UNCHANGED lineVars

\* Command lines are written where nothing has happened to the files yet.
Untouched == /\ files = [p \in Paths |-> Missing] /\ pc = "idle" /\ runs = 0
             /\ runtimeCfg = Unread /\ hookCfg = Unread
             /\ env = <<"etc", <<"custom">>, "etc">>
LineStep  == Untouched /\ LineNext /\ UNCHANGED vars

StartupSpec == StartupInit /\ [][FilesStep \/ LineStep]_<<vars, lineVars>>
====
