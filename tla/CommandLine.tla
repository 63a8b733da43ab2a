---- MODULE CommandLine ----
(***************************************************************************)
(* What the runtime makes of its arguments: whether they are a request to  *)
(* create a container, and where the bundle is (hasCreateCommand in        *)
(* main.go, flags.go).  It looks at the arguments one by one, without      *)
(* knowing which of them are values of flags; runc, which gets the same    *)
(* arguments afterwards, does know.                                        *)
(***************************************************************************)
EXTENDS Naturals, Sequences, SequencesExt

CONSTANTS
  Text,        \* names and values of arguments
  NoValue,     \* an argument without "="
  NoText,      \* an argument or a value of no characters
  Cwd,         \* the working directory
  Globals,     \* flags before the command, each with its value
  Locals,      \* flags after the command
  Words,       \* container ids and what follows them
  MaxGlobals,  \* bound on flags before the command
  MaxLocals    \* bound on flags after it

VARIABLES
  args,        \* the arguments so far
  written,     \* the flags of this part of the command line, so far
  verdict,     \* the part the engine writes, then what the runtime does
  bundle

lineVars == <<args, written, verdict, bundle>>

\* An argument: its dashes, its name, and what is behind an "=".
Argument == [dashes : 0..2, name : Text, value : Text \cup {NoValue}]

Word(name)        == [dashes |-> 0, name |-> name, value |-> NoValue]
Flag(name)        == [dashes |-> 2, name |-> name, value |-> NoValue]
FlagIs(name, val) == [dashes |-> 2, name |-> name, value |-> val]

IsWord(arg) == arg.dashes = 0

----------------------------------------------------------------------------
(* runc: flags, the command, its flags, its arguments.                     *)

Commands == {"create", "start", "exec", "delete"}
BundleFlags == {"b", "bundle"}

\* The flags runc takes a value for.
Takes(arg) == ~IsWord(arg) /\ arg.value = NoValue
                /\ arg.name \in {"root", "log", "pid-file"} \cup BundleFlags

\* A flag as the engine writes it: with the value it takes, or without.
Complete(flag) == \/ \E arg \in Argument : flag = <<arg>> /\ ~IsWord(arg) /\ ~Takes(arg)
                  \/ \E arg \in Argument, name \in Text : flag = <<arg, Word(name)>> /\ Takes(arg)

\* create has the flags for a bundle, and runc itself has not.
ASSUME FlagsComplete ==
  /\ \A flag \in Globals \cup Locals : Complete(flag)
  /\ \A flag \in Globals : flag[1].name \notin BundleFlags

ASSUME LineTyped ==
  /\ Commands \cup Words \subseteq Text /\ NoValue \notin Text
  /\ {MaxGlobals, MaxLocals} \subseteq Nat

\* Argument i is the value of the flag before it.
IsValue(line) ==
  LET f[i \in 1..Len(line)] == i > 1 /\ Takes(line[i - 1]) /\ ~f[i - 1] IN f

IsCommand(line, i) == /\ IsWord(line[i]) /\ ~IsValue(line)[i]
                      /\ \A j \in 1..(i - 1) : IsWord(line[j]) => IsValue(line)[j]

Command(line) == CHOOSE i \in DOMAIN line : IsCommand(line, i)

RuncCreates(line) == line[Command(line)].name = "create"

\* What stands for the working directory.
Directory(text) == IF text = NoText THEN Cwd ELSE text

\* The last bundle flag counts.
RuncBundle(line) ==
  LET flags == {i \in DOMAIN line : i > Command(line) /\ ~IsWord(line[i]) /\ ~IsValue(line)[i]
                                      /\ line[i].name \in BundleFlags}
      last  == CHOOSE i \in flags : \A j \in flags : j <= i
  IN IF flags = {} THEN Cwd
     ELSE Directory(IF line[last].value = NoValue THEN line[last + 1].name ELSE line[last].value)

----------------------------------------------------------------------------
(* The runtime                                                             *)

hasCreateCommand == \E i \in DOMAIN args : args[i] = Word("create")

\* Mutant: the short form is not known.
LongForm(arg) == arg.name = "bundle"

\* Dashes do not matter, not even if there are none.
isBundleFlag(arg) == arg.name \in BundleFlags

\* parseBundle: behind the first such argument, in it or next to it; if it is
\* the last one, the index is out of range and run recovers from the panic.
Request ==
  /\ verdict = "asked"
  /\ IF ~hasCreateCommand
     THEN verdict' = "passed on" /\ UNCHANGED bundle
     ELSE LET i == SelectInSeq(args, isBundleFlag) IN
          IF i = 0 THEN verdict' = "edited" /\ bundle' = Cwd
          ELSE IF args[i].value # NoValue THEN verdict' = "edited" /\ bundle' = Directory(args[i].value)
          ELSE IF i < Len(args) THEN verdict' = "edited" /\ bundle' = Directory(args[i + 1].name)
          ELSE verdict' = "failed" /\ UNCHANGED bundle
  /\ UNCHANGED <<args, written>>

----------------------------------------------------------------------------
(* The engine's command lines: flags, a command, flags, a container id,    *)
(* and for some commands one word more.                                    *)

Put(words, part) ==
  /\ args' = args \o words /\ verdict' = part
  /\ written' = IF part = verdict THEN written + 1 ELSE 0
  /\ UNCHANGED bundle

GlobalFlag == /\ verdict = "globals" /\ written < MaxGlobals
              /\ \E flag \in Globals : Put(flag, "globals")

GiveCommand == /\ verdict = "globals"
               /\ \E command \in Commands : Put(<<Word(command)>>, "locals")

LocalFlag == /\ verdict = "locals" /\ written < MaxLocals
             /\ \E flag \in Locals : Put(flag, "locals")

GiveId == /\ verdict = "locals"
          /\ \E id, process \in Words : \/ Put(<<Word(id)>>, "asked")
                                        \/ Put(<<Word(id), Word(process)>>, "asked")

LineInit == args = <<>> /\ written = 0 /\ verdict = "globals" /\ bundle = Cwd

LineNext == GlobalFlag \/ GiveCommand \/ LocalFlag \/ GiveId \/ Request

LineSpec == LineInit /\ [][LineNext]_lineVars

----------------------------------------------------------------------------
(* Properties                                                              *)

Decided == verdict \in {"passed on", "edited", "failed"}

\* Whatever flags the engine gives and in whatever form, a request on which
\* runc will create a container is edited first, in the bundle runc will take,
\* as long as no word of the command line is itself "b" or "bundle" and the
\* bundle is given once.
EditsRuncsBundle ==
  Decided /\ RuncCreates(args)
    /\ (\A i \in DOMAIN args : IsWord(args[i]) => args[i].name \notin BundleFlags)
    /\ (\A i, j \in DOMAIN args : {args[i].name, args[j].name} \subseteq BundleFlags => i = j)
  => verdict = "edited" /\ bundle = RuncBundle(args)

====
