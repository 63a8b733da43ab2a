--------------------------- MODULE ContainerProofs ---------------------------
(***************************************************************************)
(* Proofs about module Container: what hooks and cli give to a container,  *)
(* under whatever configuration the hook has read, is bounded by what the  *)
(* runtime selected, by what the engine had allocated, and nothing where   *)
(* nothing is asked for; under one configuration it is all of what was     *)
(* selected once the container starts.                                     *)
(***************************************************************************)
EXTENDS Container, RuntimeProofs

(***************************************************************************)
(* What the selection of discover is bounded by.                           *)
(***************************************************************************)
LEMMA ResolvedAreAllocated ==
  ASSUME NEW s, NEW h, NEW always
  PROVE  ResolveDevices(s, h, FALSE, always).ids \subseteq AllocatedDevices(s, h)
BY DEF ResolveDevices, SelectDevices, Failure, Success

\* Explicit devices, as --devices gives them, are never exceeded.
LEMMA ResolvedAreExplicit ==
  ASSUME NEW s \in OciSpec, NEW h, NEW ids, NEW allowEnv, NEW always
  PROVE  ResolveDevices([s EXCEPT !.env = Explicit(ids)], h, allowEnv, always).ids \subseteq ids
<1> DEFINE t == [s EXCEPT !.env = Explicit(ids)]
           v == [form |-> "list", toks |-> ids]
<1>1. /\ t.env["DEVICES"] = <<v>> /\ t.env["MODULES"] = <<>> /\ t.env["PCI"] = <<>>
  BY DEF OciSpec, Explicit, EnvKeys, SelectionKeys
<1>2. <<v>> # <<>> /\ <<v>>[1] = v
  OBVIOUS
<1>3. ASSUME NEW authorized PROVE Chosen("DEVICES", v, authorized, h) \subseteq ids
  BY DEF Chosen, Identity
<1>4. ASSUME NEW authorized
      PROVE  SelectDevices(t.env, authorized, always, h).ids \subseteq ids
  <2>1. {k \in SelectionKeys : t.env[k] # <<>>} = {"DEVICES"}
    BY <1>1, <1>2 DEF SelectionKeys
  <2> HIDE DEF t, v
  <2> QED
    BY <1>1, <1>2, <1>3, <2>1 DEF SelectDevices, Failure, Success
<1> HIDE DEF t, v
<1>5. ResolveDevices(t, h, allowEnv, always).ids \subseteq ids
  BY <1>4 DEF ResolveDevices, Failure, Success
<1> QED
  BY <1>5 DEF t

(***************************************************************************)
(* Types, and the order in which runc, hook and cli run: there is a hook   *)
(* only for a runc that waits, and a runc only for a saved bundle.         *)
(***************************************************************************)
Stages == {"prestart", "createRuntime"}
Ended  == {"none", "succeeded", "failed"}
Parsed == {"mount", "mountUverbs", "netinfo", "cdiNetinfo", "interfaces"}

Hooks(s) == Elems(s.prestart) \cup Elems(s.createRuntime)

Typed ==
  /\ hcfg \in HookConfig
  /\ runc \in {"none", "hooks", "started", "failed"}
  /\ todo \in Seq([hook : Hook, stage : Stages])
  /\ hpc \in Ended \cup Parsed \cup {"load", "cli", "parse"}
  /\ arg \in Value
  /\ found \in [accelerators : SUBSET Path, uverbs : SUBSET Path]
  /\ cont \in [nodes : SUBSET [path : Path, dev : DevNum], allowed : SUBSET DevNum,
               ifaces : SUBSET Accel]
  /\ basis \in SUBSET Accel
  /\ hpc \in Parsed \cup {"parse"} =>
       arg.form # "none" /\ (arg.form = "list" => arg.toks \subseteq Accel)

Flow ==
  /\ pc # "runc" => runc = "none" /\ cont = Untouched
  /\ hpc # "none" => todo # <<>>
  /\ todo # <<>> => runc = "hooks" /\ disk # NoSpec
  /\ todo \in Seq([hook : Hooks(disk), stage : Stages])
  /\ hpc \notin Ended => Head(todo).hook.habana

CInv == TypeInv /\ Typed /\ Flow

\* Hooks that runc is to run are those of config.json.
LEMMA StagedType ==
  ASSUME NEW H, NEW hooks \in Seq(H), NEW stage \in Stages
  PROVE  Staged(hooks, stage) \in Seq([hook : Elems(hooks), stage : Stages])
<1> DEFINE T == [hook : Elems(hooks), stage : Stages]
<1>1. PICK n \in Nat : hooks \in [1..n -> H]
  OBVIOUS
<1>2. Staged(hooks, stage) \in [1..n -> T]
  BY <1>1 DEF Staged, Elems
<1> HIDE DEF T
<1>3. Staged(hooks, stage) \in Seq(T)
  BY <1>2
<1> QED
  BY <1>3 DEF T

\* A sequence over a set is one over every larger set.
LEMMA SeqWiden == ASSUME NEW A, NEW B, A \subseteq B, NEW s \in Seq(A) PROVE s \in Seq(B)
<1>1. PICK n \in Nat : s \in [1..n -> A]
  OBVIOUS
<1>2. s \in [1..n -> B]
  BY <1>1
<1> QED
  BY <1>2

LEMMA EndsType ==
  ASSUME NEW A, NEW s \in Seq(A)
  PROVE  <<>> \in Seq(A) /\ (s # <<>> => Head(s) \in A /\ Tail(s) \in Seq(A))
OBVIOUS

LEMMA TodoType ==
  ASSUME NEW s \in OciSpec
  PROVE  LET list == Staged(s.prestart, "prestart") \o Staged(s.createRuntime, "createRuntime")
         IN  /\ list \in Seq([hook : Hooks(s), stage : Stages])
             /\ list \in Seq([hook : Hook, stage : Stages])
<1> DEFINE A == [hook : Hooks(s), stage : Stages]
           pre == Staged(s.prestart, "prestart")
           cre == Staged(s.createRuntime, "createRuntime")
<1>1. s.prestart \in Seq(Hook) /\ s.createRuntime \in Seq(Hook)
  BY DEF OciSpec
<1>2. Hooks(s) \subseteq Hook
  BY <1>1 DEF Hooks, Elems
<1>3. /\ pre \in Seq([hook : Elems(s.prestart), stage : Stages])
      /\ cre \in Seq([hook : Elems(s.createRuntime), stage : Stages])
  BY <1>1, StagedType DEF Stages
<1>4. /\ [hook : Elems(s.prestart), stage : Stages] \subseteq A
      /\ [hook : Elems(s.createRuntime), stage : Stages] \subseteq A
      /\ A \subseteq [hook : Hook, stage : Stages]
  BY <1>2 DEF Hooks
<1> HIDE DEF A, pre, cre
<1>5. pre \in Seq(A) /\ cre \in Seq(A)
  BY <1>3, <1>4, SeqWiden
<1>6. pre \o cre \in Seq(A)
  BY <1>5
<1>7. pre \o cre \in Seq([hook : Hook, stage : Stages])
  BY <1>4, <1>6, SeqWiden
<1> QED
  BY <1>6, <1>7 DEF A, pre, cre

LEMMA CTypeInit == CInit => CInv
<1> SUFFICES ASSUME CInit PROVE CInv
  OBVIOUS
<1>1. TypeInv
  BY TypeInit DEF CInit
<1>2. NoArg \in Value
  BY DEF NoArg, Value
<1>3. Typed
  BY <1>2 DEF CInit, Typed, NoPaths, Untouched, Ended, Parsed
<1>4. Flow
  BY DEF CInit, Init, Flow, Ended
<1> QED
  BY <1>1, <1>3, <1>4 DEF CInv

\* A step of the runtime or its host leaves what runc has started alone.
LEMMA RuntimeKeeps ==
  ASSUME CInv, RuntimeStep \/ Disturbance
  PROVE  CInv' /\ [Next]_vars /\ UNCHANGED <<hookVars, cfg, origin>> /\ (pc = "runc" => UNCHANGED <<pc, disk>>)
<1>1. Next /\ UNCHANGED hookVars
  BY DEF RuntimeStep, Disturbance, Next, Request
<1>2. TypeInv'
  BY <1>1, TypeNext DEF CInv
<1>3. UNCHANGED <<cfg, origin>>
  BY DEF RuntimeStep, Disturbance, Resolve, EditSpec, NetworkFiles, SaveSpecs, AddPrestartHook,
     AddAcceleratorDevices, AddModuleIDs, AddUverbsDevices, AddCreateRuntimeHook,
     GenerateNetinfo, CopyGaudinet, CreateTemp, WriteTemp, RenameTemp, SaveFails, ExecRunc,
     Kill, HostChange, Fail, Continue, PutAside, Written, history
<1>4. pc = "runc" => UNCHANGED <<pc, disk>>
  BY DEF RuntimeStep, Disturbance, Resolve, EditSpec, NetworkFiles, SaveSpecs, AddPrestartHook,
     AddAcceleratorDevices, AddModuleIDs, AddUverbsDevices, AddCreateRuntimeHook,
     GenerateNetinfo, CopyGaudinet, CreateTemp, WriteTemp, RenameTemp, SaveFails, ExecRunc,
     Kill, HostChange, runVars, bundle, Running
<1>5. Typed'
  BY <1>1 DEF CInv, Typed, hookVars
<1>6. Flow'
  <2>1. CASE pc = "runc"
    BY <1>1, <1>4, <2>1 DEF CInv, Flow, hookVars
  <2>2. CASE pc # "runc"
    <3>1. runc = "none" /\ cont = Untouched /\ todo = <<>> /\ hpc = "none"
      BY <2>2 DEF CInv, Flow
    <3>2. runc' = "none" /\ cont' = Untouched /\ todo' = <<>> /\ hpc' = "none"
      BY <1>1, <3>1 DEF hookVars
    <3> QED
      BY <3>2 DEF Flow, Ended
  <2> QED
    BY <2>1, <2>2
<1> QED
  BY <1>1, <1>2, <1>3, <1>4, <1>5, <1>6 DEF CInv

LEMMA CreateKeeps ==
  ASSUME CInv, CreateContainer
  PROVE  CInv' /\ [Next]_vars /\ UNCHANGED <<hcfg, cfg, origin, disk, found>> /\ pc' # "runc"
         /\ cont' = Untouched /\ hpc' = "none"
<1>1. Next /\ UNCHANGED <<hcfg, cfg, origin, disk, found>>
  BY DEF CreateContainer, Create, Next, Request, bundle
<1>2. TypeInv'
  BY <1>1, TypeNext DEF CInv
<1>3. todo = <<>> /\ hpc = "none"
  BY DEF CreateContainer, CInv, Flow
<1>4. pc' # "runc" /\ todo' = <<>> /\ hpc' = "none" /\ runc' = "none" /\ cont' = Untouched
  BY <1>3 DEF CreateContainer, Create, AfterLoad
<1>5. Typed'
  BY <1>3 DEF CreateContainer, CInv, Typed, Untouched, Ended, Parsed
<1>6. Flow'
  BY <1>4 DEF Flow, Ended
<1> QED
  BY <1>1, <1>2, <1>4, <1>5, <1>6 DEF CInv

\* A step that leaves the runtime alone.
LEMMA AloneKeeps ==
  ASSUME CInv, UNCHANGED vars, Typed',
         pc = "runc", hpc' # "none" => todo' # <<>>, todo' # <<>> => runc' = "hooks" /\ disk # NoSpec,
         todo' \in Seq([hook : Hooks(disk), stage : Stages]),
         hpc' \notin Ended => Head(todo').hook.habana
  PROVE  CInv'
<1>1. TypeInv'
  BY TypeNext DEF CInv
<1>2. pc' = pc /\ disk' = disk
  BY DEF vars, runVars, bundle
<1> QED
  BY <1>1, <1>2 DEF CInv, Flow

LEMMA RuncKeeps == ASSUME CInv, RuncStep \/ Exit PROVE CInv'
<1> USE DEF CInv
<1>1. CASE RuncCreate
  <2>1. UNCHANGED vars /\ pc = "runc" /\ runc = "none" /\ todo = <<>> /\ hpc = "none" /\ hpc' = "none"
        /\ disk \in OciSpec \cup {NoSpec}
    BY <1>1 DEF RuncCreate, Flow, TypeInv, TypeOK
  <2>2. CASE disk = NoSpec
    <3>1. runc' = "failed" /\ UNCHANGED <<todo, cont, hcfg, hpc, arg, found, basis>>
      BY <1>1, <2>2 DEF RuncCreate
    <3>2. Typed'
      BY <3>1 DEF Typed
    <3> QED
      BY <2>1, <3>1, <3>2, AloneKeeps DEF Ended, Flow
  <2>3. CASE disk # NoSpec
    <3>1. /\ runc' = "hooks"
          /\ todo' = Staged(disk.prestart, "prestart") \o Staged(disk.createRuntime, "createRuntime")
          /\ cont' = [Untouched EXCEPT !.nodes = {[path |-> d.path, dev |-> d.dev] : d \in disk.devices}]
          /\ UNCHANGED <<hcfg, hpc, arg, found, basis>>
      BY <1>1, <2>3 DEF RuncCreate
    <3>2. /\ todo' \in Seq([hook : Hooks(disk), stage : Stages])
          /\ todo' \in Seq([hook : Hook, stage : Stages])
      BY <2>1, <2>3, <3>1, TodoType
    <3>3. {[path |-> d.path, dev |-> d.dev] : d \in disk.devices} \subseteq [path : Path, dev : DevNum]
      BY <2>1, <2>3 DEF OciSpec, Device
    <3>4. cont' \in [nodes : SUBSET [path : Path, dev : DevNum], allowed : SUBSET DevNum,
                     ifaces : SUBSET Accel]
      BY <3>1, <3>3 DEF Untouched
    <3>5. Typed'
      BY <2>1, <3>1, <3>2, <3>4 DEF Typed, Ended, Parsed
    <3> QED
      BY <2>1, <2>3, <3>1, <3>2, <3>5, AloneKeeps DEF Ended
  <2> QED
    BY <2>2, <2>3
<1>2. CASE StartHook
  <2>1. /\ UNCHANGED vars /\ todo # <<>> /\ runc = "hooks" /\ pc = "runc"
        /\ UNCHANGED <<hcfg, runc, todo, arg, found, cont, basis>>
        /\ hpc' \in {"load", "succeeded", "failed"} /\ (hpc' = "load" => Head(todo).hook.habana)
    BY <1>2 DEF StartHook, Flow
  <2>2. Typed'
    BY <2>1 DEF Typed, Ended, Parsed
  <2> QED
    BY <2>1, <2>2, AloneKeeps DEF Flow, Ended
<1>3. CASE EndHook
  <2>1. /\ UNCHANGED vars /\ todo # <<>> /\ runc = "hooks" /\ pc = "runc" /\ hpc' = "none"
        /\ UNCHANGED <<hcfg, arg, found, cont, basis>>
        /\ \/ runc' = "failed" /\ todo' = <<>>
           \/ runc' = runc /\ todo' = Tail(todo)
    BY <1>3 DEF EndHook, Flow
  <2>9. ASSUME NEW A, todo \in Seq(A) PROVE todo' \in Seq(A)
    BY <2>1, <2>9, EndsType
  <2>2. /\ todo' \in Seq([hook : Hook, stage : Stages])
        /\ todo' \in Seq([hook : Hooks(disk), stage : Stages])
    BY <2>9, Zenon DEF Typed, Flow
  <2>3. Typed'
    BY <2>1, <2>2 DEF Typed, Ended, Parsed
  <2> QED
    BY <2>1, <2>2, <2>3, AloneKeeps DEF Flow, Ended
<1>4. CASE RuncStart
  <2>1. /\ UNCHANGED vars /\ todo = <<>> /\ todo' = <<>> /\ pc = "runc" /\ hpc' = "none"
        /\ runc' = "started" /\ UNCHANGED <<hcfg, todo, arg, found, cont, basis>>
    BY <1>4 DEF RuncStart, Flow
  <2>2. Typed'
    BY <2>1 DEF Typed, Ended, Parsed
  <2> QED
    BY <2>1, <2>2, AloneKeeps DEF Flow, Ended
<1>5. CASE Exit
  <2>1. /\ UNCHANGED vars /\ todo = <<>> /\ todo' = <<>> /\ pc = "runc" /\ hpc' = "none"
        /\ runc' = "failed" /\ cont' = Untouched /\ UNCHANGED <<hcfg, arg, found, basis>>
    BY <1>5 DEF Exit, Flow
  <2>2. Typed'
    BY <2>1 DEF Typed, Ended, Parsed, Untouched
  <2> QED
    BY <2>1, <2>2, AloneKeeps DEF Flow, Ended
<1> QED
  BY <1>1, <1>2, <1>3, <1>4, <1>5 DEF RuncStep

\* A running hook leaves config.json, runc and its list alone.
LEMMA HookKeeps ==
  ASSUME CInv, TypeInv', Typed', UNCHANGED <<pc, disk, runc, todo>>, hpc \notin Ended
  PROVE  CInv'
BY DEF CInv, Flow, Ended

LEMMA Allocated ==
  ASSUME NEW s, NEW h PROVE AllocatedDevices(s, h) \subseteq Accel
BY DEF AllocatedDevices

LEMMA DevicesFromEnvType ==
  ASSUME NEW s \in OciSpec PROVE DevicesFromEnv(s.env) \in Value
<1>1. s.env["DEVICES"] \in Seq(Value)
  BY DEF OciSpec, Env, EnvKeys, SelectionKeys
<1>2. [form |-> "all", toks |-> {}] \in Value
  BY DEF Value
<1> QED
  BY <1>1, <1>2 DEF DevicesFromEnv, Final

LEMMA ConfigKeeps ==
  ASSUME CInv, GetContainerConfig
  PROVE  /\ CInv' /\ UNCHANGED <<vars, hcfg, runc, todo, cont>> /\ hpc = "load"
         /\ pc = "runc" /\ disk \in OciSpec /\ Head(todo).hook \in Hooks(disk)
         /\ Head(todo).hook.habana
<1> DEFINE result == Reauthorize(disk, Head(todo).hook)
<1>1. /\ UNCHANGED <<vars, hcfg, runc, todo, cont>> /\ hpc = "load" /\ found' = NoPaths
      /\ hpc' \in {"failed", "succeeded", "cli"}
      /\ arg' = IF hcfg.mode = "cdi" THEN DevicesFromEnv(disk.env)
                ELSE [form |-> "list", toks |-> result.ids]
      /\ basis' = basis \cup (IF origin = NoSpec THEN {} ELSE AllocatedDevices(origin, host))
  BY DEF GetContainerConfig
<1>2. pc = "runc" /\ disk \in OciSpec
  BY <1>1 DEF CInv, Flow, Ended, TypeInv, TypeOK
<1>3. Head(todo).hook \in Hooks(disk) /\ Head(todo).hook.habana
  <2>1. Head(todo) \in [hook : Hooks(disk), stage : Stages] /\ Head(todo).hook.habana
    <3>1. todo # <<>> /\ todo \in Seq([hook : Hooks(disk), stage : Stages]) /\ Head(todo).hook.habana
      BY <1>1 DEF CInv, Flow, Ended
    <3> QED
      BY <3>1, EndsType, Zenon
  <2> QED
    BY <2>1
<1>4. result.ids \in SUBSET Token
  <2>1. result.ids \in SUBSET Accel
    BY ResolveType DEF Reauthorize
  <2> QED
    BY <2>1 DEF Token
<1>5. arg' \in Value
  <2>1. [form |-> "list", toks |-> result.ids] \in Value
    BY <1>4 DEF Value
  <2> QED
    BY <1>1, <1>2, <2>1, DevicesFromEnvType
<1>6. basis' \in SUBSET Accel
  BY <1>1, Allocated DEF CInv, Typed
<1>7. Typed'
  BY <1>1, <1>5, <1>6 DEF CInv, Typed, NoPaths, Ended, Parsed
<1>8. TypeInv'
  BY <1>1, TypeNext DEF CInv
<1>9. UNCHANGED <<pc, disk>>
  BY <1>1 DEF vars, runVars, bundle
<1> QED
  BY <1>1, <1>2, <1>3, <1>7, <1>8, <1>9, HookKeeps DEF Ended

(***************************************************************************)
(* The cli, step by step: what it does to the container.                   *)
(***************************************************************************)
\* What a step of the cli, or the end of it, may do.
CliEffect ==
  /\ hpc \notin Ended /\ UNCHANGED <<pc, disk, cfg, origin, host>>
  /\ UNCHANGED <<hcfg, runc, todo, arg, basis>>
  /\ hpc' \in Ended \cup Parsed \cup {"parse"}
  /\ \/ /\ hpc' = "parse" => hpc = "cli"
        /\ hpc' \in Parsed => hpc \in Parsed
        /\ UNCHANGED <<found, cont>>
     \/ /\ hpc = "parse" /\ UNCHANGED cont
        /\ \A p \in found'.uverbs : p[1] = "uverb"
        /\ arg.form = "list" => \A p \in found'.accelerators : p[2] \in arg.toks
     \/ /\ hpc \in Parsed /\ hpc' \in Ended \cup Parsed /\ UNCHANGED found
        /\ \E ids \in SUBSET FoundIds : cont'.ifaces = cont.ifaces \cup ids
        /\ \A n \in cont'.nodes : \/ n \in cont.nodes
                                  \/ n.path \in found.uverbs
                                  \/ n.path \in found.accelerators /\ MountAccelerators

LEMMA PresentType ==
  ASSUME NEW h, NEW names \in SUBSET {"accel", "control", "uverb"}, NEW ids \in SUBSET Accel
  PROVE  /\ Present(h, names, ids) \subseteq Path
         /\ \A p \in Present(h, names, ids) : p[1] \in names /\ p[2] \in ids
BY DEF Present, Path

LEMMA ParseKeeps == ASSUME CInv, ParseDevices PROVE CInv' /\ CliEffect
<1> DEFINE wanted    == IF arg.form = "all" THEN Accel ELSE arg.toks
           available == Present(host, {"accel", "control"}, Accel)
           chosen    == {p \in available : p[2] \in wanted}
           ids       == {p[2] : p \in chosen}
<1>1. /\ hpc = "parse" /\ UNCHANGED <<vars, hcfg, runc, todo, arg, cont, basis>>
      /\ \/ hpc' \in {"succeeded", "failed"} /\ UNCHANGED found
         \/ /\ hpc' = AfterParse
            /\ found' = [accelerators |-> chosen, uverbs |-> Present(host, {"uverb"}, ids)]
  BY DEF ParseDevices
<1>2. UNCHANGED <<pc, disk, cfg, origin, host>>
  BY <1>1 DEF vars, runVars, bundle, hostVars, history
<1>3. available \subseteq Path /\ \A p \in available : p[2] \in Accel
  BY PresentType
<1>4. chosen \in SUBSET Path /\ ids \in SUBSET Accel
  BY <1>3
<1>5. /\ Present(host, {"uverb"}, ids) \in SUBSET Path
      /\ \A p \in Present(host, {"uverb"}, ids) : p[1] = "uverb"
  <2>1. {"uverb"} \in SUBSET {"accel", "control", "uverb"}
    OBVIOUS
  <2> HIDE DEF ids
  <2>2. /\ Present(host, {"uverb"}, ids) \subseteq Path
        /\ \A p \in Present(host, {"uverb"}, ids) : p[1] \in {"uverb"}
    BY <1>4, <2>1, PresentType
  <2> QED
    BY <2>2
<1> HIDE DEF available, ids
<1>6. AfterParse \in Parsed
  BY DEF AfterParse, Parsed
<1>7. Typed'
  BY <1>1, <1>4, <1>5, <1>6 DEF CInv, Typed, Ended, Parsed
<1>8. TypeInv'
  BY <1>1, TypeNext DEF CInv
<1>9. CInv'
  BY <1>1, <1>2, <1>7, <1>8, HookKeeps DEF Ended
<1>10. CliEffect
  BY <1>1, <1>2, <1>5, <1>6 DEF CliEffect, Ended, Parsed
<1> QED
  BY <1>9, <1>10

\* A step of a parsed cli that changes the container to one of the right kind.
LEMMA ChangeKeeps ==
  ASSUME CInv, hpc \in Parsed, NEW c, NEW next \in Ended \cup Parsed, Change(c, next),
         c \in [nodes : SUBSET [path : Path, dev : DevNum], allowed : SUBSET DevNum,
                ifaces : SUBSET Accel],
         \E ids \in SUBSET FoundIds : c.ifaces = cont.ifaces \cup ids,
         \A n \in c.nodes : \/ n \in cont.nodes
                            \/ n.path \in found.uverbs
                            \/ n.path \in found.accelerators /\ MountAccelerators
  PROVE  CInv' /\ CliEffect
<1>1. UNCHANGED <<vars, hcfg, runc, todo, arg, found, basis>> /\ cont' = c /\ hpc' = next
  BY DEF Change
<1>2. UNCHANGED <<pc, disk, cfg, origin, host>>
  BY <1>1 DEF vars, runVars, bundle, hostVars, history
<1>3. Typed'
  BY <1>1 DEF CInv, Typed, Ended, Parsed
<1>4. TypeInv'
  BY <1>1, TypeNext DEF CInv
<1>5. hpc \notin Ended
  BY DEF Ended, Parsed
<1>6. CInv'
  BY <1>1, <1>2, <1>3, <1>4, <1>5, HookKeeps
<1> QED
  BY <1>1, <1>2, <1>5, <1>6 DEF CliEffect

LEMMA NodeOfType ==
  ASSUME NEW h \in Inventory, NEW p \in Path PROVE NodeOf(h, p) \in Node
BY DEF NodeOf, Path, Inventory

\* Mounts replace or add nodes at their own paths only.
LEMMA MountsKeep ==
  ASSUME CInv, hpc \in Parsed, NEW paths \in SUBSET Path, NEW next \in Parsed,
         \/ paths = found.uverbs
         \/ paths = found.accelerators /\ MountAccelerators,
         HandleMounts(paths, next)
  PROVE  CInv' /\ CliEffect
<1> DEFINE after(seen, done, ruled) ==
             [cont EXCEPT !.nodes   = Mounted(done, seen),
                          !.allowed = @ \cup {Number(p) : p \in ruled}]
<1>1. PICK seen \in SUBSET (paths \cap {n.path : n \in cont.nodes}), done \in SUBSET paths :
        \/ \E ruled \in {{}} \cup (IF done = paths THEN SUBSET paths ELSE {}) :
             Change(after(seen, done, ruled), "failed")
        \/ done = paths /\ Change(after(seen, done, paths), next)
  BY DEF HandleMounts
<1>2. PICK ruled \in SUBSET paths, end \in {"failed", next} : Change(after(seen, done, ruled), end)
  BY <1>1
<1>3. \A p \in paths : Number(p) \in DevNum
  BY HostType, NodeOfType DEF Number, Node, CInv, TypeInv, TypeOK
<1>4. cont \in [nodes : SUBSET [path : Path, dev : DevNum], allowed : SUBSET DevNum,
                ifaces : SUBSET Accel]
  BY DEF CInv, Typed
<1>5. /\ Mounted(done, seen) \in SUBSET [path : Path, dev : DevNum]
      /\ \A n \in Mounted(done, seen) : n \in cont.nodes \/ n.path \in paths
  BY <1>3, <1>4 DEF Mounted
<1> DEFINE c == after(seen, done, ruled)
<1>6. /\ c \in [nodes : SUBSET [path : Path, dev : DevNum], allowed : SUBSET DevNum,
                ifaces : SUBSET Accel]
      /\ c.nodes = Mounted(done, seen) /\ c.ifaces = cont.ifaces
  BY <1>2, <1>3, <1>4, <1>5
<1>7. Change(c, end) /\ end \in Ended \cup Parsed
  BY <1>2 DEF Ended
<1>8. \E ids \in SUBSET FoundIds : c.ifaces = cont.ifaces \cup ids
  <2>1. c.ifaces = cont.ifaces \cup {}
    BY <1>6
  <2> QED
    BY <2>1
<1> HIDE DEF c
<1> QED
  BY <1>5, <1>6, <1>7, <1>8, ChangeKeeps

LEMMA SameKeeps ==
  ASSUME CInv, hpc \in Parsed, NEW next \in Ended \cup Parsed, Change(cont, next)
  PROVE  CInv' /\ CliEffect
<1>1. cont \in [nodes : SUBSET [path : Path, dev : DevNum], allowed : SUBSET DevNum,
                ifaces : SUBSET Accel]
  BY DEF CInv, Typed
<1>2. cont.ifaces = cont.ifaces \cup {}
  OBVIOUS
<1> QED
  BY <1>1, <1>2, ChangeKeeps

LEMMA CliMountsKeep == ASSUME CInv, MountAccelerator \/ MountUverb PROVE CInv' /\ CliEffect
<1>1. found.accelerators \in SUBSET Path /\ found.uverbs \in SUBSET Path
  BY DEF CInv, Typed
<1>2. {"mountUverbs", "netinfo"} \subseteq Parsed /\ "failed" \in Ended
  BY DEF Parsed, Ended
<1>3. CASE MountAccelerator
  <2>1. hpc \in Parsed
    BY <1>3 DEF MountAccelerator, Parsed
  <2>2. \/ Change(cont, "failed") \/ Change(cont, "mountUverbs")
        \/ MountAccelerators /\ HandleMounts(found.accelerators, "mountUverbs")
    BY <1>3 DEF MountAccelerator
  <2> QED
    BY <1>1, <1>2, <2>1, <2>2, MountsKeep, SameKeeps
<1>4. CASE MountUverb
  <2>1. hpc \in Parsed
    BY <1>4 DEF MountUverb, Parsed
  <2>2. Change(cont, "netinfo") \/ HandleMounts(found.uverbs, "netinfo")
    BY <1>4 DEF MountUverb
  <2> QED
    BY <1>1, <1>2, <2>1, <2>2, MountsKeep, SameKeeps
<1> QED
  BY <1>3, <1>4

LEMMA ExposeKeeps == ASSUME CInv, ExposeInterfaces PROVE CInv' /\ CliEffect
<1>1. hpc \in Parsed
  BY DEF ExposeInterfaces, Parsed
<1>2. Exposable(host, FoundIds) \subseteq FoundIds
  BY DEF Exposable
<1>3. FoundIds \subseteq Accel
  BY DEF CInv, Typed, FoundIds, Path
<1>4. PICK done \in SUBSET FoundIds, next \in Ended :
        Change([cont EXCEPT !.ifaces = @ \cup done], next)
  BY <1>2 DEF ExposeInterfaces, Ended
<1>5. cont \in [nodes : SUBSET [path : Path, dev : DevNum], allowed : SUBSET DevNum,
                ifaces : SUBSET Accel]
  BY DEF CInv, Typed
<1> DEFINE c == [cont EXCEPT !.ifaces = @ \cup done]
<1>6. /\ c \in [nodes : SUBSET [path : Path, dev : DevNum], allowed : SUBSET DevNum,
                ifaces : SUBSET Accel]
      /\ c.nodes = cont.nodes /\ c.ifaces = cont.ifaces \cup done
  BY <1>3, <1>4, <1>5
<1>7. Change(c, next)
  BY <1>4
<1> HIDE DEF c
<1> QED
  BY <1>1, <1>6, <1>7, ChangeKeeps

LEMMA RunCliKeeps == ASSUME CInv, RunCli PROVE CInv' /\ CliEffect
<1>1. /\ hpc = "cli" /\ UNCHANGED <<vars, hcfg, runc, todo, arg, found, cont, basis>>
      /\ hpc' \in {"failed", "parse"}
      /\ hpc' = "parse" => arg.form # "none" /\ (arg.form = "list" => arg.toks \subseteq Accel)
  BY DEF RunCli, BadArguments
<1>2. UNCHANGED <<pc, disk, cfg, origin, host>>
  BY <1>1 DEF vars, runVars, bundle, hostVars, history
<1>3. Typed' /\ TypeInv'
  BY <1>1, TypeNext DEF CInv, Typed, Ended, Parsed
<1> QED
  BY <1>1, <1>2, <1>3, HookKeeps DEF CliEffect, Ended, Parsed

LEMMA KillKeeps == ASSUME CInv, KillHook PROVE CInv' /\ CliEffect
<1>1. /\ hpc \notin Ended /\ hpc' = "failed"
      /\ UNCHANGED <<vars, hcfg, runc, todo, arg, found, cont, basis>>
  BY DEF KillHook, Change, Ended
<1>2. UNCHANGED <<pc, disk, cfg, origin, host>>
  BY <1>1 DEF vars, runVars, bundle, hostVars, history
<1>3. Typed' /\ TypeInv'
  BY <1>1, TypeNext DEF CInv, Typed, Ended, Parsed
<1> QED
  BY <1>1, <1>2, <1>3, HookKeeps DEF CliEffect, Ended, Parsed

\* The one step of the cli that touches the bundle's files.
LEMMA NetinfoKeeps == ASSUME CInv, CliNetinfo PROVE CInv' /\ CliEffect
<1>1. /\ hpc \in {"netinfo", "cdiNetinfo"} /\ hpc' \in {"interfaces", "failed"}
      /\ UNCHANGED <<cfg, hostVars, disk, temps, runVars, history>>
      /\ UNCHANGED <<hcfg, runc, todo, arg, found, cont, basis>>
      /\ files' = files \/ files' = [files EXCEPT !.mac = IF FoundIds = {} THEN @ ELSE FoundIds]
  BY DEF CliNetinfo
<1>2. files' \in [mac : SUBSET Accel, gaudinet : BOOLEAN]
  <2>1. FoundIds \subseteq Accel /\ files \in [mac : SUBSET Accel, gaudinet : BOOLEAN]
    BY DEF CInv, Typed, FoundIds, Path, TypeInv, TypeOK
  <2> QED
    BY <1>1, <2>1
<1>3. TypeInv'
  BY <1>1, <1>2 DEF CInv, TypeInv, TypeOK, TempInv, hostVars, runVars, history
<1>4. Typed'
  BY <1>1 DEF CInv, Typed, Ended, Parsed
<1>5. UNCHANGED <<pc, disk, cfg, origin, host>>
  BY <1>1 DEF runVars, hostVars, history
<1> QED
  BY <1>1, <1>3, <1>4, <1>5, HookKeeps DEF CliEffect, Ended, Parsed

LEMMA CliKeeps == ASSUME CInv, CliStep \/ KillHook PROVE CInv' /\ CliEffect
BY RunCliKeeps, ParseKeeps, CliMountsKeep, NetinfoKeeps, ExposeKeeps, KillKeeps DEF CliStep

LEMMA CTypeNext == CInv /\ [CNext]_allVars => CInv'
<1> SUFFICES ASSUME CInv, [CNext]_allVars PROVE CInv'
  OBVIOUS
<1>1. CASE UNCHANGED allVars
  <2>1. UNCHANGED vars /\ UNCHANGED hookVars
    BY <1>1 DEF allVars
  <2>2. TypeInv'
    BY <2>1, TypeNext DEF CInv
  <2> QED
    BY <2>1, <2>2 DEF CInv, Typed, Flow, hookVars, vars, runVars, bundle
<1> QED
  BY <1>1, CreateKeeps, RuntimeKeeps, RuncKeeps, ConfigKeeps, CliKeeps DEF CNext

LEMMA CInvariant == CSpec => []CInv
<1> QED
  BY CTypeInit, CTypeNext, PTL DEF CSpec

\* Every variable keeps its type; a hook runs only for a runc that waits for it,
\* whatever is killed, fails or changes, and the cli works on accelerator numbers.
THEOREM ContainerTypeCorrect == CSpec => []CTypeOK
<1>1. CInv => CTypeOK
  BY DEF CInv, Typed, Flow, CTypeOK, Ended, Parsed, Stages
<1> QED
  BY <1>1, CInvariant, PTL

(***************************************************************************)
(* What a container has got, and what its hook is about to give it, is     *)
(* within a set of accelerators; nodes are the engine's own or uverbs.     *)
(***************************************************************************)
Within(S) ==
  /\ cont.ifaces \subseteq S
  /\ hpc \in {"cli", "parse"} => arg.form = "list" /\ arg.toks \subseteq S
  /\ hpc \in Parsed => FoundIds \subseteq S

\* A container that has got nothing from a hook is within every set.
LEMMA NothingIsWithin ==
  ASSUME NEW S, cont = Untouched, hpc = "none" PROVE Within(S)
BY DEF Within, Untouched, Parsed

\* The cli stays within what it was called with.
LEMMA CliWithin == ASSUME NEW S, CliEffect, Within(S) PROVE Within(S)'
<1> USE DEF Within, CliEffect
<1>1. cont'.ifaces \subseteq S
  BY DEF Ended, Parsed
<1>2. hpc' \in {"cli", "parse"} => arg'.form = "list" /\ arg'.toks \subseteq S
  BY DEF Ended, Parsed
<1>3. hpc' \in Parsed => FoundIds' \subseteq S
  <2>1. CASE UNCHANGED found /\ hpc \in Parsed
    BY <2>1 DEF FoundIds
  <2>2. CASE hpc = "parse" /\ (arg.form = "list" => \A p \in found'.accelerators : p[2] \in arg.toks)
    BY <2>2 DEF FoundIds
  <2> QED
    BY <2>1, <2>2 DEF Ended, Parsed
<1> QED
  BY <1>1, <1>2, <1>3

\* runc starts no hook with something at hand, and gives no interface itself.
LEMMA RuncWithin == ASSUME NEW S, RuncStep \/ Exit, Within(S) PROVE Within(S)'
<1>1. hpc' \in {"none", "load", "succeeded", "failed"} \/ UNCHANGED <<hpc, arg, found>>
  BY DEF RuncStep, RuncCreate, StartHook, EndHook, RuncStart, Exit
<1>2. cont'.ifaces \subseteq cont.ifaces
  BY DEF RuncStep, RuncCreate, StartHook, EndHook, RuncStart, Exit, Untouched
<1> QED
  BY <1>1, <1>2 DEF Within, FoundIds, Parsed

\* A hook is bounded by the devices it is given and, without environment
\* requests, by what is allocated in the saved bundle.
LEMMA ConfigWithin ==
  ASSUME NEW S, CInv, GetContainerConfig, hcfg.mode # "cdi", cont.ifaces \subseteq S,
         \/ Head(todo).hook.devs # {} /\ Head(todo).hook.devs \subseteq S
         \/ ~hcfg.allowEnv /\ AllocatedDevices(disk, host) \subseteq S
  PROVE  Within(S)'
<1> DEFINE hook == Head(todo).hook
           spec == IF hook.devs = {} THEN disk ELSE [disk EXCEPT !.env = Explicit(hook.devs)]
           ids  == ResolveDevices(spec, host, hcfg.allowEnv, hcfg.alwaysMount).ids
<1>1. disk \in OciSpec
  BY ConfigKeeps
<1>2. ids \subseteq S
  <2>1. CASE hook.devs # {} /\ hook.devs \subseteq S
    BY <1>1, <2>1, ResolvedAreExplicit
  <2>2. CASE ~hcfg.allowEnv /\ AllocatedDevices(disk, host) \subseteq S
    <3>1. AllocatedDevices(spec, host) = AllocatedDevices(disk, host)
      BY <1>1 DEF AllocatedDevices, OciSpec
    <3>2. hcfg.allowEnv = FALSE
      BY <2>2, HookConfigTyped DEF CInv, Typed
    <3> HIDE DEF spec
    <3>3. ids \subseteq AllocatedDevices(spec, host)
      BY <3>2, ResolvedAreAllocated
    <3> QED
      BY <2>2, <3>1, <3>3
  <2> QED
    BY <2>1, <2>2
<1>3. Reauthorize(disk, hook) = ResolveDevices(spec, host, hcfg.allowEnv, hcfg.alwaysMount)
  BY DEF Reauthorize
<1>4. arg' = [form |-> "list", toks |-> ids]
  BY <1>3 DEF GetContainerConfig
<1>5. hpc' \in {"failed", "succeeded", "cli"} /\ cont' = cont
  BY DEF GetContainerConfig
<1> HIDE DEF ids
<1> QED
  BY <1>2, <1>4, <1>5 DEF Within, Parsed

(***************************************************************************)
(* --devices of the runtime bounds the hooks.                              *)
(***************************************************************************)
EveryHookGiven ==
  /\ hcfg.mode # "cdi" /\ disk # NoSpec
  /\ \A h \in Elems(disk.prestart) \cup Elems(disk.createRuntime) : h.habana => h.devs # {}

SelInv == EveryHookGiven => Within(HookDevices(disk))

LEMMA SelNext == CInv /\ SelInv /\ [CNext]_allVars => SelInv'
<1> SUFFICES ASSUME CInv, SelInv, [CNext]_allVars, EveryHookGiven' PROVE Within(HookDevices(disk))'
  BY DEF SelInv
<1>1. ASSUME cont' = Untouched, hpc' = "none" PROVE Within(HookDevices(disk))'
  BY <1>1 DEF Within, Untouched, Parsed
<1>2. ASSUME UNCHANGED <<disk, hcfg>>, NEW S, S = HookDevices(disk),
             cont'.ifaces \subseteq S,
             hpc' \in {"cli", "parse"} => arg'.form = "list" /\ arg'.toks \subseteq S,
             hpc' \in Parsed => FoundIds' \subseteq S
      PROVE  Within(HookDevices(disk))'
  BY <1>2 DEF Within, HookDevices
<1>s. ASSUME UNCHANGED <<disk, hcfg>> PROVE EveryHookGiven /\ Within(HookDevices(disk))
  BY <1>s DEF EveryHookGiven, SelInv
<1>3. CASE CreateContainer
  BY <1>1, <1>3, CreateKeeps
<1>4. CASE RuntimeStep \/ Disturbance
  <2>1. UNCHANGED hookVars /\ (pc = "runc" => UNCHANGED <<pc, disk>>)
    BY <1>4, RuntimeKeeps
  <2>2. CASE pc = "runc"
    <3>1. UNCHANGED <<disk, hcfg, hpc, arg, found, cont>>
      BY <2>1, <2>2 DEF hookVars
    <3> QED
      BY <3>1, <1>s DEF Within, FoundIds, HookDevices
  <2>3. CASE pc # "runc"
    BY <1>1, <2>1, <2>3 DEF CInv, Flow, hookVars
  <2> QED
    BY <2>2, <2>3
<1>5. CASE RuncStep \/ Exit
  <2>1. UNCHANGED <<disk, hcfg>>
    BY <1>5 DEF RuncStep, RuncCreate, StartHook, EndHook, RuncStart, Exit, vars, bundle
  <2>2. ASSUME NEW S, Within(S) PROVE Within(S)'
    BY <1>5, <2>2, RuncWithin
  <2> QED
    BY <1>s, <1>2, <2>1, <2>2 DEF Within
<1>6. CASE GetContainerConfig
  <2>1. UNCHANGED <<disk, hcfg>> /\ Head(todo).hook \in Hooks(disk) /\ Head(todo).hook.habana
    BY <1>6, ConfigKeeps DEF vars, bundle
  <2>2. EveryHookGiven /\ Within(HookDevices(disk))
    BY <1>s, <2>1
  <2>3. Head(todo).hook.devs # {} /\ Head(todo).hook.devs \subseteq HookDevices(disk)
    BY <2>1, <2>2 DEF EveryHookGiven, HookDevices, Hooks
  <2>4. ASSUME NEW S, S = HookDevices(disk) PROVE Within(S)'
    BY <1>6, <2>2, <2>3, <2>4, ConfigWithin DEF EveryHookGiven, Within
  <2> QED
    BY <1>2, <2>1, <2>4 DEF Within
<1>7. CASE CliStep \/ KillHook
  <2>1. UNCHANGED <<disk, hcfg>> /\ CliEffect
    BY <1>7, CliKeeps DEF CliEffect
  <2>2. ASSUME NEW S, Within(S) PROVE Within(S)'
    BY <2>1, <2>2, CliWithin
  <2> QED
    BY <1>s, <1>2, <2>1, <2>2 DEF Within
<1>8. CASE UNCHANGED allVars
  <2>1. UNCHANGED <<disk, hcfg, hpc, arg, found, cont>>
    BY <1>8 DEF allVars, vars, bundle, hookVars
  <2> QED
    BY <2>1, <1>s DEF Within, FoundIds, HookDevices
<1> QED
  BY <1>3, <1>4, <1>5, <1>6, <1>7, <1>8 DEF CNext

\* Hooks expose no accelerator outside what the runtime put into --devices, in
\* whichever configuration (but CDI) they have read, for any bundle and host.
THEOREM SelectionIsABound == CSpec => []SelectionIsBound
<1>1. CInit => SelInv
  <2> SUFFICES ASSUME CInit PROVE Within(HookDevices(disk))
    BY DEF SelInv
  <2> QED
    BY NothingIsWithin DEF CInit
<1>2. SelInv => SelectionIsBound
  BY DEF SelInv, EveryHookGiven, SelectionIsBound, Within
<1> QED
  BY <1>1, <1>2, CInvariant, SelNext, PTL DEF CSpec

(***************************************************************************)
(* The engine's allocation bounds the hooks.  The runtime's own edits only *)
(* add nodes that are no accelerator on any host.                          *)
(***************************************************************************)
NewNodesApart(s, o) ==
  \A d \in s.devices \ o.devices :
    /\ d.path[1] = "uverb"
    /\ \A g \in Host, a \in Accel : g.accel[a].kind # "absent" => g.accel[a].dev # d.dev

NodeInv ==
  ~cfg.allowEnv /\ origin # NoSpec =>
    /\ NewNodesApart(disk, origin)
    /\ pc \in Running \ {"exec"} => NewNodesApart(mem, origin)

\* uverbs nodes have numbers of their own driver.
LEMMA UverbsAreApart ==
  ASSUME NEW s \in OciSpec, NEW h \in Host, NEW ids \in SUBSET Accel, NEW o, NewNodesApart(s, o)
  PROVE  NewNodesApart(AddNodes(s, NodesOf("uverb", h.uverb, ids)), o)
<1> DEFINE nodes == NodesOf("uverb", h.uverb, ids)
           t == AddDevicesToSpec(s, nodes)
<1>1. \A n \in nodes : /\ n.path[1] = "uverb"
                       /\ \A g \in Host, a \in Accel : g.accel[a].kind # "absent" =>
                            g.accel[a].dev # n.dev
  BY MajorsDistinct DEF NodesOf
<1>2. t.devices = s.devices \cup {[path |-> n.path, type |-> "c", dev |-> n.dev] :
          n \in {m \in nodes : \A d \in s.devices : d.path # m.path}}
  BY DEF AddDevicesToSpec, OciSpec
<1>3. t \in OciSpec
  BY HostType, NodesOfType, AddDevicesType DEF Inventory
<1>4. AddNodes(s, nodes).devices = t.devices
  BY <1>3 DEF AddNodes, AddAllowList, OciSpec
<1> HIDE DEF nodes, t
<1>5. \A d \in t.devices \ s.devices :
        \E n \in nodes : d = [path |-> n.path, type |-> "c", dev |-> n.dev]
  BY <1>2
<1>6. \A d \in t.devices \ s.devices : \E n \in nodes : d.path = n.path /\ d.dev = n.dev
  BY <1>5
<1>7. NewNodesApart(AddNodes(s, nodes), o)
  BY <1>1, <1>4, <1>6 DEF NewNodesApart
<1> QED
  BY <1>7 DEF nodes

LEMMA NodeNext == TypeInv /\ GrantInv /\ NodeInv /\ [Next]_vars => NodeInv'
<1> SUFFICES ASSUME TypeInv, GrantInv, NodeInv, [Next]_vars, ~cfg'.allowEnv, origin' # NoSpec
             PROVE  /\ NewNodesApart(disk', origin')
                    /\ pc' \in Running \ {"exec"} => NewNodesApart(mem', origin')
  BY DEF NodeInv
<1>0. cfg' = cfg /\ origin' = origin
  BY DEF Next, Request, EditSpec, NetworkFiles, SaveSpecs, Create, Resolve, AddPrestartHook,
     AddAcceleratorDevices, AddModuleIDs, AddUverbsDevices, AddCreateRuntimeHook,
     GenerateNetinfo, CopyGaudinet, CreateTemp, WriteTemp, RenameTemp, SaveFails, ExecRunc,
     Kill, HostChange, Fail, Continue, PutAside, Written, vars, history
<1>1. /\ ~cfg.allowEnv /\ origin # NoSpec /\ NewNodesApart(disk, origin)
      /\ pc \in Running \ {"exec"} => NewNodesApart(mem, origin) /\ mem \in OciSpec
      /\ pc # "accelerators" /\ host \in Host /\ req \in SUBSET Accel
  BY <1>0 DEF GrantInv, NodeInv, TypeInv, TypeOK
<1>2. ASSUME disk' = disk, mem'.devices = mem.devices, pc \in Running \ {"exec"}
      PROVE  /\ NewNodesApart(disk', origin') /\ NewNodesApart(mem', origin')
  BY <1>0, <1>1, <1>2 DEF NewNodesApart
<1>3. CASE Create
  BY <1>0, <1>1, <1>3 DEF Create, bundle
<1>4. CASE Resolve
  BY <1>2, <1>4 DEF Resolve, bundle, Running
<1>5. CASE AddPrestartHook \/ AddModuleIDs \/ AddCreateRuntimeHook
  <2>1. pc \in Running \ {"exec"}
    BY <1>5 DEF AddPrestartHook, AddModuleIDs, AddCreateRuntimeHook, Running
  <2>2. disk' = disk
    BY <1>5 DEF AddPrestartHook, AddModuleIDs, AddCreateRuntimeHook, Fail, Continue, bundle
  <2>3. mem'.devices = mem.devices
    BY <1>1, <1>5, <2>1
       DEF AddPrestartHook, AddModuleIDs, AddCreateRuntimeHook, AddEnvVar, Fail, Continue, OciSpec
  <2> QED
    BY <1>2, <2>1, <2>2, <2>3
<1>6. CASE AddAcceleratorDevices
  BY <1>1, <1>6 DEF AddAcceleratorDevices
<1>7. CASE AddUverbsDevices
  <2>1. /\ disk' = disk /\ pc = "uverbs" /\ pc \in Running \ {"exec"}
        /\ mem' \in {mem, AddNodes(mem, NodesOf("uverb", host.uverb, req))}
    BY <1>7 DEF AddUverbsDevices, Fail, Continue, bundle, Running
  <2> QED
    BY <1>0, <1>1, <2>1, UverbsAreApart
<1>8. CASE NetworkFiles
  <2>1. pc \in Running \ {"exec"} /\ disk' = disk /\ mem' \in {mem, AddErrorEnvVar(mem, "netinfo"),
                                                              AddErrorEnvVar(mem, "gaudinet")}
    BY <1>8 DEF NetworkFiles, GenerateNetinfo, CopyGaudinet, Written, PutAside, Running, bundle
  <2>2. mem'.devices = mem.devices
    BY <1>1, <2>1 DEF AddErrorEnvVar, AddEnvVar, OciSpec
  <2> QED
    BY <1>2, <2>1, <2>2
<1>9. CASE CreateTemp \/ WriteTemp \/ SaveFails \/ ExecRunc \/ Kill
  BY <1>0, <1>1, <1>9 DEF CreateTemp, WriteTemp, SaveFails, ExecRunc, Kill, Continue, Running, bundle
<1>10. CASE RenameTemp
  BY <1>0, <1>1, <1>10 DEF RenameTemp, Running
<1>11. CASE HostChange \/ UNCHANGED vars
  BY <1>0, <1>1, <1>11 DEF HostChange, vars, bundle, runVars
<1> QED
  BY <1>3, <1>4, <1>5, <1>6, <1>7, <1>8, <1>9, <1>10, <1>11
  DEF Next, Request, EditSpec, SaveSpecs

\* What the saved bundle is allocated the engine had allocated.
LEMMA SavedAllocation ==
  ASSUME NEW s, NEW o, SameGrants(s, o), NewNodesApart(s, o), NEW h \in Host
  PROVE  AllocatedDevices(s, h) \subseteq AllocatedDevices(o, h)
<1> SUFFICES ASSUME NEW a \in AllocatedDevices(s, h) PROVE a \in AllocatedDevices(o, h)
  OBVIOUS
<1>1. /\ a \in Accel /\ h.accel[a].kind = "char"
      /\ \E d \in s.devices : d.type = "c" /\ d.dev = h.accel[a].dev
      /\ Granted(s.rules, h.accel[a].dev, "r") /\ Granted(s.rules, h.accel[a].dev, "w")
  BY DEF AllocatedDevices
<1>2. \E d \in o.devices : d.type = "c" /\ d.dev = h.accel[a].dev
  BY <1>1 DEF NewNodesApart
<1>3. <<a, "r">> \in AcceleratorAccess(s, h) /\ <<a, "w">> \in AcceleratorAccess(s, h)
  BY <1>1 DEF AcceleratorAccess, Access
<1>4. <<a, "r">> \in AcceleratorAccess(o, h) /\ <<a, "w">> \in AcceleratorAccess(o, h)
  BY <1>3 DEF SameGrants
<1>5. Granted(o.rules, h.accel[a].dev, "r") /\ Granted(o.rules, h.accel[a].dev, "w")
  BY <1>4 DEF AcceleratorAccess
<1> QED
  BY <1>1, <1>2, <1>5 DEF AllocatedDevices

\* Runtime and hook both leave allocation to the engine.
EngineAllocates == ~cfg.allowEnv /\ ~hcfg.allowEnv /\ hcfg.mode # "cdi" /\ origin # NoSpec

EngineNode(n) == n.path[1] = "uverb" \/ \E d \in origin.devices : d.dev = n.dev

AllocInv ==
  /\ \A p \in found.uverbs : p[1] = "uverb"
  /\ EngineAllocates => Within(basis) /\ \A n \in cont.nodes : EngineNode(n)

LEMMA AllocNext ==
  CInv /\ GrantInv /\ NodeInv /\ AllocInv /\ [CNext]_allVars => GrantInv' /\ NodeInv' /\ AllocInv'
<1> SUFFICES ASSUME CInv, GrantInv, NodeInv, AllocInv, [CNext]_allVars
             PROVE  GrantInv' /\ NodeInv' /\ AllocInv'
  OBVIOUS
<1>1. GrantInv' /\ NodeInv'
  <2>1. CASE [Next]_vars
    BY <2>1, GrantNext, NodeNext DEF CInv
  <2>2. CASE UNCHANGED <<cfg, origin, disk, mem, pc>>
    BY <2>2 DEF GrantInv, NodeInv
  <2>3. CASE CliNetinfo
    BY <2>2, <2>3 DEF CliNetinfo, runVars, history
  <2>4. ASSUME RuncStep \/ Exit \/ GetContainerConfig \/ RunCli \/ ParseDevices \/ MountAccelerator
               \/ MountUverb \/ ExposeInterfaces \/ KillHook \/ UNCHANGED allVars
        PROVE  UNCHANGED vars
    BY <2>4 DEF RuncStep, RuncCreate, StartHook, EndHook, RuncStart, Exit, GetContainerConfig,
         RunCli, ParseDevices, MountAccelerator, MountUverb, HandleMounts, ExposeInterfaces,
         KillHook, Change, allVars
  <2> QED
    BY <2>1, <2>3, <2>4, CreateKeeps, RuntimeKeeps DEF CNext, CliStep
<1> SUFFICES AllocInv'
  BY <1>1
<1>2. ASSUME UNCHANGED <<cfg, hcfg, origin>> PROVE EngineAllocates' <=> EngineAllocates
  BY <1>2 DEF EngineAllocates
<1>3. ASSUME UNCHANGED <<cfg, hcfg, origin, found>>, cont' = Untouched, hpc' = "none" PROVE AllocInv'
  BY <1>3 DEF AllocInv, Within, Untouched, Parsed
<1>4. CASE CreateContainer
  BY <1>3, <1>4, CreateKeeps
<1>5. CASE UNCHANGED <<hookVars, cfg, origin>>
  <2>1. UNCHANGED <<cfg, hcfg, origin, found, basis, cont, hpc, arg>>
    BY <1>5 DEF hookVars
  <2> QED
    BY <1>2, <2>1 DEF AllocInv, Within, FoundIds, EngineNode
<1>6. CASE RuncStep \/ Exit
  <2>1. UNCHANGED <<cfg, hcfg, origin, disk, found, basis>>
    BY <1>6 DEF RuncStep, RuncCreate, StartHook, EndHook, RuncStart, Exit, vars, bundle, history
  <2>2. ASSUME NEW S, Within(S) PROVE Within(S)'
    BY <1>6, <2>2, RuncWithin
  <2>3. Within(basis) => Within(basis)'
    BY <2>1, <2>2 DEF Within
  <2>4. \A n \in cont'.nodes : n \in cont.nodes \/ \E d \in disk.devices : n.path = d.path /\ n.dev = d.dev
    BY <1>6 DEF RuncStep, RuncCreate, StartHook, EndHook, RuncStart, Exit, Untouched
  <2>5. ASSUME EngineAllocates, NEW d \in disk.devices
        PROVE  d.path[1] = "uverb" \/ d \in origin.devices
    BY <2>5 DEF EngineAllocates, NodeInv, NewNodesApart
  <2> QED
    BY <1>2, <2>1, <2>3, <2>4, <2>5 DEF AllocInv, EngineNode
<1>7. CASE GetContainerConfig
  <2>1. /\ UNCHANGED <<cfg, hcfg, origin, cont>> /\ found' = NoPaths /\ disk \in OciSpec
        /\ basis' = basis \cup (IF origin = NoSpec THEN {} ELSE AllocatedDevices(origin, host))
    BY <1>7, ConfigKeeps DEF GetContainerConfig, vars, history
  <2>2. ASSUME EngineAllocates PROVE Within(basis)'
    <3>1. AllocatedDevices(disk, host) \subseteq AllocatedDevices(origin, host)
      BY <2>2, SavedAllocation DEF EngineAllocates, GrantInv, NodeInv, CInv, TypeInv, TypeOK
    <3>2. ASSUME NEW S, S = basis' PROVE Within(S)'
      <4>1. cont.ifaces \subseteq S /\ AllocatedDevices(disk, host) \subseteq S
        BY <2>1, <2>2, <3>1, <3>2 DEF EngineAllocates, AllocInv, Within
      <4> QED
        BY <1>7, <2>2, <4>1, ConfigWithin DEF EngineAllocates
    <3> QED
      BY <3>2 DEF Within
  <2> QED
    BY <1>2, <2>1, <2>2 DEF AllocInv, EngineNode, NoPaths
<1>8. CASE CliStep \/ KillHook
  <2>1. CliEffect /\ UNCHANGED <<cfg, hcfg, origin, basis>>
    BY <1>8, CliKeeps DEF CliEffect
  <2>2. ASSUME NEW S, Within(S) PROVE Within(S)'
    BY <2>1, <2>2, CliWithin
  <2>3. Within(basis) => Within(basis)'
    BY <2>1, <2>2 DEF Within
  <2>4. EngineAllocates => ~MountAccelerators
    BY DEF EngineAllocates, MountAccelerators
  <2>5. \A p \in found'.uverbs : p[1] = "uverb"
    BY <2>1 DEF CliEffect, AllocInv
  <2>6. EngineAllocates => \A n \in cont'.nodes : n \in cont.nodes \/ n.path[1] = "uverb"
    BY <2>1, <2>4 DEF CliEffect, AllocInv
  <2> QED
    BY <1>2, <2>1, <2>3, <2>5, <2>6 DEF AllocInv, EngineNode
<1>9. CASE UNCHANGED allVars
  BY <1>5, <1>9 DEF allVars, vars, history
<1> QED
  BY <1>4, <1>5, <1>6, <1>7, <1>8, <1>9, RuntimeKeeps DEF CNext

\* Where runtime and hook both leave allocation to the engine, a container never
\* comes to an interface or a node of an accelerator that the engine's config.json
\* did not give it, whatever requests, hooks, failures and host changes come.
THEOREM AllocationIsABound == CSpec => []WithinAllocation
<1>1. CInit => GrantInv /\ NodeInv /\ AllocInv
  <2> SUFFICES ASSUME CInit PROVE GrantInv /\ NodeInv /\ AllocInv
    OBVIOUS
  <2>1. GrantInv /\ NodeInv
    BY GrantInit DEF CInit, Init, NodeInv, NewNodesApart, Running
  <2>2. Within(basis) /\ found = NoPaths /\ cont = Untouched
    BY NothingIsWithin DEF CInit
  <2> QED
    BY <2>1, <2>2 DEF AllocInv, NoPaths, Untouched
<1>2. AllocInv => WithinAllocation
  BY DEF AllocInv, EngineAllocates, EngineNode, Within, WithinAllocation
<1> QED
  BY <1>1, <1>2, CInvariant, AllocNext, PTL DEF CSpec

(***************************************************************************)
(* Nothing asked, nothing done.  The bundle is never edited, and its hooks *)
(* name no devices, so that the hook comes to what the runtime came to.    *)
(***************************************************************************)
AsksForNothing(s) == /\ s.env["DEVICES"] # <<>>
             /\ Final(s.env["DEVICES"]).form \in {"empty", "none", "void"}

Quiet == hcfg.mode # "cdi" /\ origin # NoSpec /\ AsksForNothing(origin)

QuietInv ==
  /\ origin \in Bundle
  /\ Quiet =>
       /\ disk = origin /\ pc \in Idle \cup {"resolve", "exec"} /\ (pc = "resolve" => mem = origin)
       /\ hpc \in {"none", "load", "succeeded", "failed"} /\ cont.ifaces = {}

LEMMA LengthOfOne ==
  ASSUME NEW A, NEW q \in Seq(A), q # <<>>, ~(Len(q) > 1)
  PROVE  Len(q) = 1
<1>1. PICK n \in Nat : q \in [1..n -> A]
  OBVIOUS
<1>2. Len(q) = n /\ n # 0
  BY <1>1
<1> QED
  BY <1>2

\* A last entry that selects nothing makes the selection empty or refused.
LEMMA SilentSelectsNothing ==
  ASSUME NEW s \in OciSpec, AsksForNothing(s), NEW h, NEW allowEnv, NEW always
  PROVE  ResolveDevices(s, h, allowEnv, always).ids = {}
<1>1. s.env["DEVICES"] \in Seq(Value)
  BY DEF OciSpec, Env, EnvKeys, SelectionKeys
<1> DEFINE v == s.env["DEVICES"][1]
<1>2. Len(s.env["DEVICES"]) > 1 \/ v.form \in {"empty", "none", "void"}
  <2>1. CASE Len(s.env["DEVICES"]) > 1
    BY <2>1
  <2>2. CASE ~(Len(s.env["DEVICES"]) > 1)
    <3>1. Len(s.env["DEVICES"]) = 1
      BY <1>1, <2>2, LengthOfOne DEF AsksForNothing
    <3> QED
      BY <3>1 DEF AsksForNothing, Final
  <2> QED
    BY <2>1, <2>2
<1>3. ASSUME NEW authorized, v.form \in {"empty", "none", "void"}
      PROVE  Chosen("DEVICES", v, authorized, h) = {}
  BY <1>3 DEF Chosen
<1>4. ASSUME NEW authorized PROVE SelectDevices(s.env, authorized, always, h).ids = {}
  <2> DEFINE used == {k \in SelectionKeys : s.env[k] # <<>>}
             picked(k) == Chosen(k, s.env[k][1], authorized, h)
             bad == \E k \in used : \/ Len(s.env[k]) > 1
                                    \/ Malformed(k, s.env[k][1], authorized, h)
                                    \/ \E l \in used : picked(k) # picked(l)
  <2>1. "DEVICES" \in used
    BY DEF SelectionKeys, AsksForNothing
  <2>2. CASE bad
    BY <2>2 DEF SelectDevices, Failure
  <2>3. CASE ~bad
    <3>1. ~(Len(s.env["DEVICES"]) > 1)
      BY <2>1, <2>3
    <3>2. picked("DEVICES") = {}
      BY <1>2, <1>3, <3>1
    <3> HIDE DEF picked
    <3>3. \A k \in used : picked(k) = {}
      BY <2>1, <2>3, <3>2
    <3>4. SelectDevices(s.env, authorized, always, h)
            = Success({a \in authorized : \/ used = {} /\ always
                                          \/ \E k \in used : a \in picked(k)})
      BY <2>3 DEF SelectDevices, picked
    <3> QED
      BY <2>1, <3>3, <3>4 DEF Success
  <2> QED
    BY <2>2, <2>3
<1> QED
  BY <1>4 DEF ResolveDevices, Failure, Success

LEMMA QuietNext == CInv /\ QuietInv /\ [CNext]_allVars => QuietInv'
<1> SUFFICES ASSUME CInv, QuietInv, [CNext]_allVars PROVE QuietInv'
  OBVIOUS
<1>1. ASSUME UNCHANGED <<vars, hcfg>>,
             Quiet => hpc' \in {"none", "load", "succeeded", "failed"} /\ cont'.ifaces = {}
      PROVE  QuietInv'
  <2>1. UNCHANGED <<origin, disk, pc, mem>>
    BY <1>1 DEF vars, bundle, runVars, history
  <2> QED
    BY <1>1, <2>1 DEF QuietInv, Quiet
<1>2. CASE CreateContainer
  <2>1. /\ UNCHANGED <<hcfg, origin, disk>> /\ mem' = disk /\ cont' = Untouched /\ hpc' = "none"
        /\ pc' \in {"exec", "failed", "resolve"}
    BY <1>2, CreateKeeps DEF CreateContainer, Create, AfterLoad
  <2> QED
    BY <2>1 DEF QuietInv, Quiet, Untouched, Idle
<1>3. CASE RuntimeStep \/ Disturbance
  <2>1. UNCHANGED <<hookVars, origin>> /\ UNCHANGED <<hcfg, hpc, cont>>
    BY <1>3, RuntimeKeeps DEF hookVars
  <2> SUFFICES ASSUME Quiet
               PROVE  /\ disk' = disk /\ pc' \in Idle \cup {"resolve", "exec"}
                      /\ pc' = "resolve" => mem' = origin
    BY <2>1 DEF QuietInv, Quiet
  <2>2. pc \in Idle \cup {"resolve", "exec"} /\ (pc = "resolve" => mem = origin)
    BY DEF QuietInv
  <2>3. CASE Resolve
    <3>1. mem \in OciSpec /\ AsksForNothing(mem) /\ pc = "resolve"
      BY <2>2, <2>3 DEF Quiet, Resolve, CInv, TypeInv, TypeOK
    <3>2. ResolveDevices(mem, host, cfg.allowEnv, cfg.alwaysMount).ids = {}
      BY <3>1, SilentSelectsNothing
    <3> QED
      BY <2>3, <3>2 DEF Resolve, bundle, Idle
  <2>4. CASE ExecRunc \/ Kill \/ HostChange
    BY <2>2, <2>4 DEF ExecRunc, Kill, HostChange, Continue, bundle, runVars, Idle
  <2>5. ASSUME EditSpec \/ NetworkFiles \/ SaveSpecs PROVE FALSE
    BY <2>2, <2>5 DEF EditSpec, NetworkFiles, SaveSpecs, AddPrestartHook,
       AddAcceleratorDevices, AddModuleIDs, AddUverbsDevices, AddCreateRuntimeHook,
       GenerateNetinfo, CopyGaudinet, CreateTemp, WriteTemp, RenameTemp, SaveFails, Idle
  <2> QED
    BY <1>3, <2>3, <2>4, <2>5 DEF RuntimeStep, Disturbance
<1>4. CASE RuncStep \/ Exit
  <2>1. UNCHANGED <<vars, hcfg>> /\ hpc' \in {hpc, "none", "load", "succeeded", "failed"}
        /\ cont'.ifaces \in {{}, cont.ifaces}
    BY <1>4 DEF RuncStep, RuncCreate, StartHook, EndHook, RuncStart, Exit, Untouched
  <2> QED
    BY <1>1, <2>1 DEF QuietInv
<1>5. CASE GetContainerConfig
  <2>1. /\ UNCHANGED <<vars, hcfg, cont>> /\ disk \in OciSpec /\ Head(todo).hook \in Hooks(disk)
    BY <1>5, ConfigKeeps
  <2>2. ASSUME Quiet PROVE hpc' \in {"failed", "succeeded"}
    <3>1. disk = origin /\ origin \in Bundle \ {NoSpec} /\ hcfg.mode # "cdi"
      BY <2>2 DEF QuietInv, Quiet
    <3>2. Head(todo).hook.devs = {}
      BY <2>1, <3>1, HooksAskNothing DEF HookDevices, Hooks
    <3>3. Reauthorize(disk, Head(todo).hook).ids = {}
      BY <2>1, <2>2, <3>1, <3>2, SilentSelectsNothing DEF Reauthorize, Quiet
    <3> QED
      BY <1>5, <3>1, <3>3 DEF GetContainerConfig
  <2> QED
    BY <1>1, <2>1, <2>2 DEF QuietInv
<1>6. CASE CliStep
  <2>1. ~Quiet
    BY <1>6 DEF QuietInv, CliStep, RunCli, ParseDevices, MountAccelerator, MountUverb,
       CliNetinfo, ExposeInterfaces
  <2>2. UNCHANGED <<hcfg, origin>>
    BY <1>6, CliKeeps DEF CliEffect
  <2> QED
    BY <2>1, <2>2 DEF QuietInv, Quiet
<1>7. CASE KillHook
  BY <1>1, <1>7 DEF KillHook, Change, QuietInv
<1>8. CASE UNCHANGED allVars
  <2>1. UNCHANGED <<vars, hcfg, hpc, cont>>
    BY <1>8 DEF allVars, hookVars
  <2> QED
    BY <1>1, <2>1 DEF QuietInv
<1> QED
  BY <1>2, <1>3, <1>4, <1>5, <1>6, <1>7, <1>8 DEF CNext

\* A container whose last HABANA_VISIBLE_DEVICES is empty, none or void gets no
\* interface, whichever hooks run, under whatever configurations of runtime and
\* hook but CDI, however often it is created (README, selectDevices, doHook).
THEOREM NothingAskedIsNothingDone == CSpec => []NothingAskedNothingDone
<1>1. CInit => QuietInv
  BY DEF CInit, Init, QuietInv, Quiet, Untouched, Idle
<1>2. QuietInv => NothingAskedNothingDone
  BY DEF QuietInv, Quiet, AsksForNothing, NothingAskedNothingDone
<1> QED
  BY <1>1, <1>2, CInvariant, QuietNext, PTL DEF CSpec

(***************************************************************************)
(* A container that starts has all of the selection.  First what a request *)
(* hands over: config.json has a hook for what was selected, and nodes     *)
(* with the numbers of the host.                                           *)
(***************************************************************************)
\* Every node the spec lists has the number it has on the host.
CurrentOn(s, h) == \A d \in s.devices : d.dev = NodeOf(h, d.path).dev

\* The spec lists a node for each accelerator of ids that h has.
ListsNodes(s, ids, h) ==
  \A a \in ids : h.accel[a].kind = "char" => \E d \in s.devices : d.dev = h.accel[a].dev

\* The runtime adds the nodes itself.
AddsNodes == cfg.mode = "oci" /\ cfg.allowEnv /\ cfg.mountAccelerators

WithNodes == {"modules", "uverbs", "createRuntime", "netinfo", "gaudinet", "save", "write", "rename"}

\* The host still is the one config.json was saved on.
SameHost == steady /\ last # None /\ last.host = host /\ ModulesKnown(host)

EditedNodes ==
  steady /\ pc \in Running \ {"exec"} /\ CurrentOn(loaded, host) =>
    /\ CurrentOn(mem, host)
    /\ AddsNodes /\ pc \in WithNodes => ListsNodes(mem, req, host)

SavedSomething == last # None => disk # NoSpec /\ last.ids # {}

HandedOver ==
  pc \in {"exec", "runc"} /\ cfg.mode # "cdi" /\ SameHost =>
    /\ loaded \in OciSpec
    /\ Entitled(last.ids) /\ Carries(OwnHooks(disk), last.ids) /\ Grows(loaded, disk)
    /\ CurrentOn(loaded, host) => /\ CurrentOn(disk, host)
                                  /\ AddsNodes => ListsNodes(disk, last.ids, host)

SavedInv == EditedNodes /\ SavedSomething /\ HandedOver

\* Nodes that are added keep their numbers, and are there when their paths were
\* not taken by others.
LEMMA AddNodesCurrent ==
  ASSUME NEW s \in OciSpec, NEW h, NEW nodes \in SUBSET [path : Path, dev : DevNum],
         CurrentOn(s, h), \A n \in nodes : n.dev = NodeOf(h, n.path).dev
  PROVE  /\ CurrentOn(AddNodes(s, nodes), h)
         /\ s.devices \subseteq AddNodes(s, nodes).devices
         /\ \A n \in nodes : \E d \in AddNodes(s, nodes).devices : d.dev = n.dev
<1> DEFINE t == AddDevicesToSpec(s, nodes)
           new == {[path |-> n.path, type |-> "c", dev |-> n.dev] :
                     n \in {m \in nodes : \A d \in s.devices : d.path # m.path}}
<1>1. t.devices = s.devices \cup new
  BY DEF AddDevicesToSpec, OciSpec
<1>2. t \in OciSpec
  BY AddDevicesType
<1>3. AddNodes(s, nodes).devices = t.devices
  BY <1>2 DEF AddNodes, AddAllowList, OciSpec
<1>4. \A d \in new : \E n \in nodes : d.path = n.path /\ d.dev = n.dev
  OBVIOUS
<1>5. CurrentOn(t, h)
  BY <1>1, <1>4 DEF CurrentOn
<1>6. \A n \in nodes : \E d \in t.devices : d.dev = n.dev
  <2> SUFFICES ASSUME NEW n \in nodes PROVE \E d \in t.devices : d.dev = n.dev
    OBVIOUS
  <2>1. CASE \E d \in s.devices : d.path = n.path
    BY <1>1, <2>1 DEF CurrentOn
  <2>2. CASE \A d \in s.devices : d.path # n.path
    <3>1. [path |-> n.path, type |-> "c", dev |-> n.dev] \in new
      BY <2>2
    <3>2. PICK d \in new : d = [path |-> n.path, type |-> "c", dev |-> n.dev]
      BY <3>1
    <3>3. d.dev = n.dev /\ d \in t.devices
      BY <1>1, <3>2
    <3> QED
      BY <3>3
  <2> QED
    BY <2>1, <2>2
<1> HIDE DEF t, new
<1> QED
  BY <1>1, <1>3, <1>5, <1>6 DEF CurrentOn

\* The nodes the runtime adds have the numbers of the host.
LEMMA NodesOfCurrent ==
  ASSUME NEW h, NEW ids \in SUBSET Accel
  PROVE  /\ \A n \in NodesOf("accel", h.accel, ids) : n.dev = NodeOf(h, n.path).dev
         /\ \A n \in NodesOf("control", h.control, ids) : n.dev = NodeOf(h, n.path).dev
         /\ \A n \in NodesOf("uverb", h.uverb, ids) : n.dev = NodeOf(h, n.path).dev
BY DEF NodesOf, NodeOf

LEMMA EditedNodesNext ==
  TypeInv /\ EditInv /\ HandInv /\ EditedNodes /\ [Next]_vars => EditedNodes'
<1> SUFFICES ASSUME TypeInv, EditInv, HandInv, EditedNodes, [Next]_vars,
                    steady', pc' \in Running \ {"exec"}, CurrentOn(loaded, host)'
             PROVE  /\ CurrentOn(mem', host')
                    /\ AddsNodes' /\ pc' \in WithNodes => ListsNodes(mem', req', host')
  BY DEF EditedNodes
<1>0. pc \in Running \ {"exec"} => mem \in OciSpec /\ disk = loaded
  BY DEF TypeInv, TypeOK, EditInv, HandInv
<1>h. host \in Inventory /\ req \in SUBSET Accel
  BY HostType DEF TypeInv, TypeOK
<1>1. CASE Create
  BY <1>1 DEF Create, AfterLoad, hostVars, WithNodes, CurrentOn
<1>n. ASSUME ~Create
      PROVE  /\ UNCHANGED <<cfg, host, loaded>> /\ steady
             /\ pc \in Running \ {"exec"} /\ mem \in OciSpec
             /\ AddsNodes' = AddsNodes /\ CurrentOn(loaded, host)
  <2>1. UNCHANGED <<cfg, host, loaded, steady>>
    BY <1>n DEF Next, Request, EditSpec, NetworkFiles, SaveSpecs, Resolve, AddPrestartHook,
       AddAcceleratorDevices, AddModuleIDs, AddUverbsDevices, AddCreateRuntimeHook,
       GenerateNetinfo, CopyGaudinet, CreateTemp, WriteTemp, RenameTemp, SaveFails, ExecRunc,
       Kill, HostChange, Fail, Continue, PutAside, Written, vars, hostVars, history
  <2>2. pc \in Running \ {"exec"}
    BY <1>n DEF Next, Request, EditSpec, NetworkFiles, SaveSpecs, Resolve, AddPrestartHook,
       AddAcceleratorDevices, AddModuleIDs, AddUverbsDevices, AddCreateRuntimeHook,
       GenerateNetinfo, CopyGaudinet, CreateTemp, WriteTemp, RenameTemp, SaveFails, ExecRunc,
       Kill, HostChange, Continue, vars, runVars, Running, Idle
  <2> QED
    BY <1>0, <2>1, <2>2 DEF AddsNodes, CurrentOn
\* A step that leaves the nodes alone.
<1>e. ASSUME ~Create, mem'.devices = mem.devices, req' = req,
             AddsNodes /\ pc' \in WithNodes => pc \in WithNodes
      PROVE  /\ CurrentOn(mem', host')
             /\ AddsNodes' /\ pc' \in WithNodes => ListsNodes(mem', req', host')
  <2>1. /\ CurrentOn(mem, host)
        /\ AddsNodes /\ pc \in WithNodes => ListsNodes(mem, req, host)
    BY <1>e, <1>n DEF EditedNodes
  <2> QED
    BY <1>e, <1>n, <2>1 DEF CurrentOn, ListsNodes
<1>2. CASE Resolve
  <2>1. /\ pc = "resolve" /\ mem' = mem /\ pc' \in {"prestart", "accelerators", "modules"}
        /\ pc' = "modules" => ~AddsNodes
    BY <1>2 DEF Resolve, FirstEdit, AddsNodes, Running, Idle
  <2>2. ~Create
    BY <2>1 DEF Create, Idle
  <2>3. CurrentOn(mem, host)
    BY <1>n, <2>2 DEF EditedNodes
  <2> QED
    BY <1>n, <2>1, <2>2, <2>3 DEF CurrentOn, WithNodes
<1>3. CASE (AddPrestartHook \/ AddModuleIDs \/ AddCreateRuntimeHook) /\ ~Fail
  <2>1. /\ pc \in {"prestart", "modules", "createRuntime"} /\ req' = req
        /\ pc = "prestart" => ~AddsNodes
    BY <1>3 DEF AddPrestartHook, AddModuleIDs, AddCreateRuntimeHook, Continue, HandInv, AddsNodes
  <2>2. ~Create
    BY <2>1 DEF Create, Idle
  <2>3. mem'.devices = mem.devices
    BY <1>3, <1>n, <2>2
       DEF AddPrestartHook, AddModuleIDs, AddCreateRuntimeHook, AddEnvVar, Continue, OciSpec
  <2> QED
    BY <1>e, <2>1, <2>2, <2>3 DEF WithNodes
<1>4. CASE AddAcceleratorDevices /\ ~Fail
  <2> DEFINE nodes == NodesOf("accel", host.accel, req)
                      \cup NodesOf("control", host.control, req)
  <2>1. pc = "accelerators" /\ mem' = AddNodes(mem, nodes) /\ req' = req
    BY <1>4 DEF AddAcceleratorDevices, Continue
  <2>2. ~Create
    BY <2>1 DEF Create, Idle
  <2>3. nodes \in SUBSET [path : Path, dev : DevNum]
    BY <1>h, NodesOfType DEF Inventory
  <2>4. \A n \in nodes : n.dev = NodeOf(host, n.path).dev
    BY <1>h, NodesOfCurrent
  <2>5. \A a \in req : host.accel[a].kind = "char" => \E n \in nodes : n.dev = host.accel[a].dev
    <3> SUFFICES ASSUME NEW a \in req, host.accel[a].kind = "char"
                 PROVE  \E n \in nodes : n.dev = host.accel[a].dev
      OBVIOUS
    <3>1. [path |-> <<"accel", a>>, dev |-> host.accel[a].dev] \in nodes
      BY DEF NodesOf
    <3> QED
      BY <3>1
  <2>6. CurrentOn(mem, host)
    BY <1>n, <2>2 DEF EditedNodes
  <2> HIDE DEF nodes
  <2>7. CurrentOn(mem', host) /\ \A n \in nodes : \E d \in mem'.devices : d.dev = n.dev
    BY <1>n, <2>1, <2>2, <2>3, <2>4, <2>6, AddNodesCurrent
  <2>8. ListsNodes(mem', req, host)
    BY <2>5, <2>7 DEF ListsNodes
  <2> QED
    BY <1>n, <2>1, <2>2, <2>7, <2>8
<1>5. CASE AddUverbsDevices /\ ~Fail
  <2> DEFINE nodes == NodesOf("uverb", host.uverb, req)
  <2>1. pc = "uverbs" /\ mem' = AddNodes(mem, nodes) /\ req' = req
    BY <1>5 DEF AddUverbsDevices, Continue
  <2>2. ~Create
    BY <2>1 DEF Create, Idle
  <2>3. nodes \in SUBSET [path : Path, dev : DevNum]
    BY <1>h, NodesOfType DEF Inventory
  <2>4. \A n \in nodes : n.dev = NodeOf(host, n.path).dev
    BY <1>h, NodesOfCurrent
  <2>5. /\ CurrentOn(mem, host)
        /\ AddsNodes => ListsNodes(mem, req, host)
    BY <1>n, <2>1, <2>2 DEF EditedNodes, WithNodes
  <2> HIDE DEF nodes
  <2>6. CurrentOn(mem', host) /\ mem.devices \subseteq mem'.devices
    BY <1>n, <2>1, <2>2, <2>3, <2>4, <2>5, AddNodesCurrent
  <2>7. AddsNodes => ListsNodes(mem', req, host)
    BY <2>5, <2>6 DEF ListsNodes
  <2> QED
    BY <1>n, <2>1, <2>2, <2>6, <2>7
<1>6. CASE NetworkFiles \/ CreateTemp \/ WriteTemp
  <2>1. /\ pc \in {"netinfo", "gaudinet", "save", "write"} /\ req' = req
        /\ mem' \in {mem} \cup {AddErrorEnvVar(mem, msg) : msg \in Message}
    BY <1>6 DEF NetworkFiles, GenerateNetinfo, CopyGaudinet, PutAside, Written, CreateTemp,
       WriteTemp, Continue, Message
  <2>2. ~Create
    BY <2>1 DEF Create, Idle
  <2>3. mem'.devices = mem.devices
    BY <1>n, <2>1, <2>2 DEF AddErrorEnvVar, AddEnvVar, OciSpec
  <2> QED
    BY <1>e, <2>1, <2>2, <2>3 DEF WithNodes
<1>7. CASE Fail \/ RenameTemp \/ SaveFails \/ ExecRunc \/ Kill \/ HostChange
  BY <1>7 DEF Fail, Continue, RenameTemp, SaveFails, ExecRunc, Kill, HostChange, Running
<1>8. CASE UNCHANGED vars
  <2>1. UNCHANGED <<cfg, host, loaded, steady, mem, req, pc>>
    BY <1>8 DEF vars, hostVars, runVars, history
  <2>2. CurrentOn(loaded, host)
    BY <2>1 DEF CurrentOn
  <2>3. EditedNodes /\ steady /\ pc \in Running \ {"exec"}
    BY <2>1
  <2> QED
    BY <2>1, <2>2, <2>3 DEF EditedNodes, AddsNodes
<1> QED
  BY <1>1, <1>2, <1>3, <1>4, <1>5, <1>6, <1>7, <1>8 DEF Next, Request, EditSpec, SaveSpecs

LEMMA SavedNext ==
  TypeInv /\ EditInv /\ HandInv /\ SelectorInv /\ SavedInv /\ [Next]_vars => SavedInv'
<1> SUFFICES ASSUME TypeInv, EditInv, HandInv, SelectorInv, SavedInv, [Next]_vars
             PROVE  SavedSomething' /\ HandedOver'
  BY EditedNodesNext DEF SavedInv
<1>0. pc \in Running \ {"exec"} => /\ mem \in OciSpec /\ disk \in OciSpec /\ mem # NoSpec
                                   /\ disk = loaded /\ Grows(loaded, mem)
  BY ParametersTyped DEF TypeInv, TypeOK, EditInv, HandInv
\* A step that leaves config.json and the way to runc alone.
<1>k. ASSUME UNCHANGED <<disk, last>>, pc' \notin {"exec", "runc"} \/ cfg'.mode = "cdi" \/ ~steady'
      PROVE  SavedSomething' /\ HandedOver'
  BY <1>k DEF SavedInv, SavedSomething, HandedOver, SameHost
<1>1. CASE Create
  BY <1>k, <1>1 DEF Create, AfterLoad, bundle
<1>2. CASE Resolve
  <2>1. UNCHANGED <<cfg, host, disk, last, loaded, steady>> /\ mem = disk /\ pc = "resolve"
    BY <1>2 DEF Resolve, hostVars, bundle, history, EditInv
  <2>2. CASE pc' \in {"exec", "runc"} /\ SameHost
    <3>1. ResolveDevices(mem, host, cfg.allowEnv, cfg.alwaysMount) = Success(last.ids)
      BY <2>1, <2>2 DEF SelectorInv, SameHost
    <3>2. Success(last.ids).ok /\ Success(last.ids).ids = last.ids
      BY DEF Success
    <3>3. last.ids # {}
      BY <2>2 DEF SavedInv, SavedSomething, SameHost
    <3>4. pc' \notin {"exec", "runc"}
      BY <1>2, <3>1, <3>2, <3>3 DEF Resolve, FirstEdit
    <3> QED
      BY <2>2, <3>4
  <2>3. CASE ~SameHost
    <3>1. ~SameHost'
      BY <2>1, <2>3 DEF SameHost
    <3> QED
      BY <2>1, <3>1 DEF SavedInv, SavedSomething, HandedOver
  <2> QED
    BY <1>k, <2>1, <2>2, <2>3
<1>3. CASE RenameTemp
  <2>1. /\ pc = "rename" /\ pc' = "exec" /\ disk' = mem /\ mem \in OciSpec /\ mem # NoSpec
        /\ disk = loaded /\ loaded \in OciSpec /\ Grows(loaded, mem)
        /\ last' = IF steady THEN [ids |-> req, host |-> host] ELSE None
        /\ UNCHANGED <<cfg, host, loaded, steady>> /\ req # {}
    BY <1>0, <1>3 DEF RenameTemp, hostVars, Running, EditInv
  <2>2. last' # None => steady /\ last'.ids = req
    BY <2>1
  <2>3. SavedSomething'
    BY <2>1, <2>2 DEF SavedSomething
  <2>4. ASSUME SameHost' PROVE HandedOver'
    <3>1. steady /\ last'.ids = req
      BY <2>1, <2>2, <2>4 DEF SameHost
    <3>2. /\ ResolveDevices(loaded, host, cfg.allowEnv, cfg.alwaysMount) = Success(req)
          /\ Carries(OwnHooks(mem), req)
      BY <2>1, <3>1 DEF HandInv, Entitled, Asked, Running
    <3>3. CurrentOn(loaded, host) => /\ CurrentOn(mem, host)
                                     /\ AddsNodes => ListsNodes(mem, req, host)
      BY <2>1, <3>1 DEF SavedInv, EditedNodes, WithNodes, Running
    <3>4. Entitled(last.ids)'
      BY <2>1, <3>1, <3>2 DEF Entitled
    <3>5. Carries(OwnHooks(disk), last.ids)'
      BY <2>1, <3>1, <3>2 DEF Carries, OwnHooks
    <3>6. (CurrentOn(loaded, host) => /\ CurrentOn(disk, host)
                                      /\ AddsNodes => ListsNodes(disk, last.ids, host))'
      BY <2>1, <3>1, <3>3 DEF CurrentOn, ListsNodes, AddsNodes
    <3>7. Grows(loaded, disk)'
      BY <2>1 DEF Grows, GrantsGrow
    <3> QED
      BY <2>1, <3>4, <3>5, <3>6, <3>7 DEF HandedOver
  <2> QED
    BY <2>3, <2>4 DEF HandedOver
<1>4. CASE ExecRunc
  <2>1. UNCHANGED <<cfg, host, disk, last, loaded, steady>> /\ pc = "exec"
    BY <1>4 DEF ExecRunc, Continue, hostVars, bundle, history
  <2>2. SameHost' <=> SameHost
    BY <2>1 DEF SameHost
  <2>3. SavedSomething' /\ (cfg.mode # "cdi" /\ SameHost => HandedOver')
    BY <2>1, <2>2 DEF SavedInv, SavedSomething, HandedOver, Entitled, Carries, OwnHooks, Grows, GrantsGrow,
       CurrentOn, ListsNodes, AddsNodes
  <2> QED
    BY <2>1, <2>2, <2>3 DEF HandedOver
<1>5. CASE EditSpec \/ NetworkFiles \/ CreateTemp \/ WriteTemp \/ SaveFails \/ Kill
  <2>1. UNCHANGED <<disk, last>> /\ pc' \notin {"exec", "runc"}
    BY <1>5 DEF EditSpec, NetworkFiles, AddPrestartHook, AddAcceleratorDevices, AddModuleIDs,
       AddUverbsDevices, AddCreateRuntimeHook, GenerateNetinfo, CopyGaudinet, CreateTemp, WriteTemp,
       SaveFails, Kill, Fail, Continue, PutAside, Written, bundle, history
  <2> QED
    BY <1>k, <2>1
<1>6. CASE HostChange
  BY <1>k, <1>6 DEF HostChange, bundle
<1>7. CASE UNCHANGED vars
  <2>1. UNCHANGED <<cfg, host, disk, last, loaded, steady, pc>>
    BY <1>7 DEF vars, hostVars, bundle, runVars, history
  <2>2. SavedSomething /\ HandedOver
    BY DEF SavedInv
  <2> QED
    BY <2>1, <2>2 DEF SavedSomething, HandedOver, SameHost, Entitled, Carries, OwnHooks, Grows, GrantsGrow,
       CurrentOn, ListsNodes, AddsNodes, ModulesKnown
<1> QED
  BY <1>1, <1>2, <1>3, <1>4, <1>5, <1>6, <1>7 DEF Next, Request, SaveSpecs

(***************************************************************************)
(* What the hooks make of it.                                              *)
(***************************************************************************)
\* What holds of the runtime's variables holds with those of the container.
RequestInv == EditInv /\ HandInv /\ SelectorInv /\ SavedInv

LEMMA RequestNext == CInv /\ RequestInv /\ [CNext]_allVars => RequestInv'
<1> SUFFICES ASSUME CInv, RequestInv, [CNext]_allVars PROVE RequestInv'
  OBVIOUS
<1>1. CASE [Next]_vars
  BY <1>1, EditNext, HandNext, SelectorNext, SavedNext DEF CInv, RequestInv
<1>2. ASSUME UNCHANGED <<cfg, host, disk, pc, mem, req, loaded, steady, last>> PROVE RequestInv'
  <2>1. EditInv'
    BY <1>2 DEF RequestInv, EditInv, Edited
  <2>2. HandInv'
    BY <1>2 DEF RequestInv, HandInv, Hooked, Silent, OthersSilent, OwnHooks, OtherHooks, Carries,
       Grows, GrantsGrow, Entitled, Bare, Usable, Managed
  <2>3. SelectorInv'
    BY <1>2 DEF RequestInv, SelectorInv
  <2>4. SavedInv'
    BY <1>2 DEF RequestInv, SavedInv, EditedNodes, SavedSomething, HandedOver, SameHost, AddsNodes,
       ListsNodes, CurrentOn, Entitled, Carries, OwnHooks, Grows, GrantsGrow
  <2> QED
    BY <2>1, <2>2, <2>3, <2>4 DEF RequestInv
<1>3. CASE CliNetinfo
  BY <1>2, <1>3 DEF CliNetinfo, hostVars, runVars, history
<1>4. ASSUME RuncStep \/ Exit \/ GetContainerConfig \/ RunCli \/ ParseDevices \/ MountAccelerator
             \/ MountUverb \/ ExposeInterfaces \/ KillHook \/ UNCHANGED allVars
      PROVE  UNCHANGED vars
  BY <1>4 DEF RuncStep, RuncCreate, StartHook, EndHook, RuncStart, Exit, GetContainerConfig,
     RunCli, ParseDevices, MountAccelerator, MountUverb, HandleMounts, ExposeInterfaces,
     KillHook, Change, allVars
<1> QED
  BY <1>1, <1>3, <1>4, CreateKeeps, RuntimeKeeps DEF CNext, CliStep

\* The container has all interfaces, and a node of each accelerator, of ids.
Exposed(ids) == cont.ifaces = Exposable(host, ids)

Provided(ids) ==
  \A a \in ids : host.accel[a].kind = "char" => \E n \in cont.nodes : n.dev = host.accel[a].dev

NodesOfHost == \A n \in cont.nodes : n.dev = NodeOf(host, n.path).dev

\* A habana hook is still to end; one of the prestart list is.
HookLeft     == \E i \in DOMAIN todo : todo[i].hook.habana
PrestartLeft == \E i \in DOMAIN todo : todo[i].hook.habana /\ todo[i].stage = "prestart"

\* The places of a cli that has mounted the accelerators.
Mounting == {"mountUverbs", "netinfo", "interfaces", "succeeded"}

NodesWanted == cfg.mountAccelerators \/ ~cfg.allowEnv

Standing == SameHost /\ PoliciesAgree /\ CurrentOn(loaded, host)

\* How far the hooks have come with the selection.
Progress ==
  /\ NodesOfHost
  /\ cont.ifaces \subseteq Exposable(host, last.ids)
  /\ hpc \in {"cli", "parse"} => arg = [form |-> "list", toks |-> last.ids]
  /\ hpc \in Parsed => /\ hpc # "cdiNetinfo" /\ FoundIds = last.ids
                       /\ \A a \in last.ids : host.accel[a].kind = "char"
                                                => <<"accel", a>> \in found.accelerators
  /\ hpc = "succeeded" /\ Head(todo).hook.habana => Exposed(last.ids)
  /\ HookLeft \/ Exposed(last.ids)
  /\ NodesWanted => PrestartLeft \/ Provided(last.ids)
  /\ NodesWanted /\ ~MountAccelerators => Provided(last.ids)
  /\ NodesWanted /\ hpc \in Mounting /\ Head(todo).hook.habana /\ Stage = "prestart"
       => Provided(last.ids)

StartInv == runc \in {"hooks", "started"} /\ Standing => Progress

\* Where nothing has changed, every habana hook authorizes what was selected.
LEMMA HooksSelect ==
  ASSUME CInv, RequestInv, pc = "runc", Standing
  PROVE  /\ disk \in OciSpec /\ disk # NoSpec /\ CurrentOn(disk, host)
         /\ last.ids # {} /\ last.ids \subseteq PresentDevices(host)
         /\ HookDevices(disk) = last.ids
         /\ Carries(OwnHooks(disk), last.ids)
         /\ \A hook \in Hooks(disk) : Reauthorize(disk, hook) = Success(last.ids)
         /\ NodesWanted => cfg.mode = "legacy" \/ ListsNodes(disk, last.ids, host)
         /\ NodesWanted /\ ~MountAccelerators => ListsNodes(disk, last.ids, host)
<1>1. /\ loaded \in OciSpec /\ Carries(OwnHooks(disk), last.ids) /\ Grows(loaded, disk)
      /\ ResolveDevices(loaded, host, cfg.allowEnv, cfg.alwaysMount) = Success(last.ids)
      /\ CurrentOn(disk, host) /\ (AddsNodes => ListsNodes(disk, last.ids, host))
      /\ disk # NoSpec /\ last.ids # {}
  BY DEF RequestInv, SavedInv, HandedOver, SavedSomething, Standing, SameHost, PoliciesAgree, Entitled
<1>2. /\ disk \in OciSpec /\ host \in Inventory /\ cfg.allowEnv \in BOOLEAN
      /\ cfg.alwaysMount \in BOOLEAN /\ cfg.mode \in {"legacy", "oci"}
  BY <1>1, HostType, ParametersTyped DEF CInv, TypeInv, TypeOK, Standing, PoliciesAgree
<1>3. Hooked(disk)
  BY <1>1 DEF RequestInv, HandInv
<1>4. HookDevices(disk) = last.ids
  BY <1>1, <1>2, <1>3, CarriedDevices
<1>5. last.ids \subseteq Authorized(loaded, host, cfg.allowEnv)
  BY <1>1, <1>2, ResolvedAuthorized
<1>6. last.ids \subseteq PresentDevices(host)
  BY <1>5 DEF Authorized, PresentDevices, AllocatedDevices
<1>7. ASSUME NEW hook \in Hooks(disk) PROVE Reauthorize(disk, hook) = Success(last.ids)
  <2>1. hook.devs \in {last.ids, {}}
    BY <1>1, <1>3, <1>7 DEF Hooked, Silent, OthersSilent, Carries, OwnHooks, OtherHooks, Hooks, Elems
  <2>2. hcfg.allowEnv = cfg.allowEnv /\ hcfg.alwaysMount = cfg.alwaysMount
    BY DEF Standing, PoliciesAgree
  <2>3. CASE hook.devs = {}
    <3>1. ResolveDevices(disk, host, cfg.allowEnv, cfg.alwaysMount) = Success(last.ids)
      BY DEF RequestInv, SelectorInv, Standing, SameHost
    <3> QED
      BY <2>2, <2>3, <3>1 DEF Reauthorize
  <2>4. CASE hook.devs = last.ids
    <3>1. ResolveDevices([disk EXCEPT !.env = Explicit(last.ids)], host, cfg.allowEnv, cfg.alwaysMount)
            = Success(last.ids)
      BY <1>1, <1>2, EntitlementStays
    <3> QED
      BY <1>1, <2>2, <2>4, <3>1 DEF Reauthorize
  <2> QED
    BY <2>1, <2>3, <2>4
<1>8. ~cfg.allowEnv => ListsNodes(disk, last.ids, host)
  <2>1. loaded.devices \subseteq disk.devices
    BY <1>1 DEF Grows
  <2> QED
    BY <1>5, <2>1 DEF Authorized, AllocatedDevices, ListsNodes
<1>9. NodesWanted /\ ~MountAccelerators => ListsNodes(disk, last.ids, host)
  BY <1>8 DEF NodesWanted, MountAccelerators, Standing, PoliciesAgree
<1>10. NodesWanted => cfg.mode = "legacy" \/ ListsNodes(disk, last.ids, host)
  BY <1>1, <1>2, <1>8 DEF NodesWanted, AddsNodes
<1> QED
  BY <1>1, <1>2, <1>4, <1>6, <1>7, <1>8, <1>9, <1>10

LEMMA Concatenated ==
  ASSUME NEW A, NEW a \in Seq(A), NEW b \in Seq(A)
  PROVE  /\ DOMAIN (a \o b) = 1..(Len(a) + Len(b)) /\ \A i \in 1..Len(a) : (a \o b)[i] = a[i]
         /\ \A i \in 1..Len(b) : (a \o b)[Len(a) + i] = b[i]
OBVIOUS

\* Each hook of config.json is on runc's list, with its stage.
LEMMA AllStaged ==
  ASSUME NEW s \in OciSpec
  PROVE  LET list == Staged(s.prestart, "prestart") \o Staged(s.createRuntime, "createRuntime")
         IN  /\ \A i \in DOMAIN s.prestart : \E j \in DOMAIN list :
                   list[j].hook = s.prestart[i] /\ list[j].stage = "prestart"
             /\ \A i \in DOMAIN s.createRuntime : \E j \in DOMAIN list :
                   list[j].hook = s.createRuntime[i]
<1> DEFINE pre == Staged(s.prestart, "prestart")
           cre == Staged(s.createRuntime, "createRuntime")
           list == pre \o cre
           m == Len(s.prestart)
           n == Len(s.createRuntime)
<1>1. /\ m \in Nat /\ DOMAIN s.prestart = 1..m /\ n \in Nat /\ DOMAIN s.createRuntime = 1..n
      /\ s.prestart \in Seq(Hook) /\ s.createRuntime \in Seq(Hook)
  BY DEF OciSpec
<1>2. /\ pre \in Seq([hook : Elems(s.prestart), stage : Stages])
      /\ cre \in Seq([hook : Elems(s.createRuntime), stage : Stages])
  BY <1>1, StagedType DEF Stages
<1>3. /\ DOMAIN pre = 1..m /\ \A i \in 1..m : pre[i] = [hook |-> s.prestart[i], stage |-> "prestart"]
      /\ DOMAIN cre = 1..n
      /\ \A i \in 1..n : cre[i] = [hook |-> s.createRuntime[i], stage |-> "createRuntime"]
  BY <1>1 DEF Staged
<1> HIDE DEF pre, cre, m, n
<1>4. Len(pre) = m /\ Len(cre) = n
  BY <1>1, <1>2, <1>3
<1>5. /\ DOMAIN list = 1..(m + n) /\ (\A i \in 1..m : list[i] = pre[i])
      /\ \A i \in 1..n : list[m + i] = cre[i]
  <2> DEFINE B == [hook : Hooks(s), stage : Stages]
  <2>1. /\ [hook : Elems(s.prestart), stage : Stages] \subseteq B
        /\ [hook : Elems(s.createRuntime), stage : Stages] \subseteq B
    BY DEF Hooks
  <2> HIDE DEF B
  <2>2. pre \in Seq(B) /\ cre \in Seq(B)
    BY <1>2, <2>1, SeqWiden
  <2>3. /\ DOMAIN list = 1..(Len(pre) + Len(cre)) /\ \A i \in 1..Len(pre) : list[i] = pre[i]
        /\ \A i \in 1..Len(cre) : list[Len(pre) + i] = cre[i]
    BY <2>2, Concatenated
  <2> HIDE DEF list
  <2> QED
    BY <1>4, <2>3
<1> HIDE DEF list
<1>6. ASSUME NEW i \in DOMAIN s.prestart
      PROVE  \E j \in DOMAIN list : list[j].hook = s.prestart[i] /\ list[j].stage = "prestart"
  <2>1. i \in 1..m /\ i \in DOMAIN list
    BY <1>1, <1>5
  <2> QED
    BY <1>3, <1>5, <2>1
<1>7. ASSUME NEW i \in DOMAIN s.createRuntime
      PROVE  \E j \in DOMAIN list : list[j].hook = s.createRuntime[i]
  <2>1. i \in 1..n /\ m + i \in DOMAIN list
    BY <1>1, <1>5
  <2>2. list[m + i].hook = s.createRuntime[i]
    BY <1>3, <1>5, <2>1
  <2> QED
    BY <2>1, <2>2
<1> QED
  BY <1>6, <1>7 DEF list, pre, cre

\* What is behind the head of a sequence is in its tail.
LEMMA TailKeeps ==
  ASSUME NEW A, NEW s \in Seq(A), s # <<>>
  PROVE  \A i \in DOMAIN s : s[i] = Head(s) \/ \E j \in DOMAIN Tail(s) : Tail(s)[j] = s[i]
<1> SUFFICES ASSUME NEW i \in DOMAIN s, i # 1 PROVE \E j \in DOMAIN Tail(s) : Tail(s)[j] = s[i]
  OBVIOUS
<1>1. i - 1 \in DOMAIN Tail(s) /\ Tail(s)[i - 1] = s[i]
  OBVIOUS
<1> QED
  BY <1>1

\* Over nodes of the host a mount adds nodes of the host, one for each path.
LEMMA MountsProvide ==
  ASSUME CInv, NodesOfHost, NEW paths \in SUBSET Path, NEW next, HandleMounts(paths, next)
  PROVE  /\ UNCHANGED <<vars, hcfg, runc, todo, arg, found, basis>>
         /\ cont'.ifaces = cont.ifaces /\ cont.nodes \subseteq cont'.nodes
         /\ \A n \in cont'.nodes : n.dev = NodeOf(host, n.path).dev
         /\ hpc' \in {"failed", next}
         /\ hpc' # "failed" => \A p \in paths : \E n \in cont'.nodes : n.path = p
<1> DEFINE after(seen, done, ruled) ==
             [cont EXCEPT !.nodes   = Mounted(done, seen),
                          !.allowed = @ \cup {Number(p) : p \in ruled}]
<1>1. PICK seen \in SUBSET (paths \cap {n.path : n \in cont.nodes}), done \in SUBSET paths :
        \/ \E ruled \in {{}} \cup (IF done = paths THEN SUBSET paths ELSE {}) :
             Change(after(seen, done, ruled), "failed")
        \/ done = paths /\ Change(after(seen, done, paths), next)
  BY DEF HandleMounts
<1>2. PICK ruled : \/ Change(after(seen, done, ruled), "failed")
                   \/ done = paths /\ Change(after(seen, done, ruled), next)
  BY <1>1
<1>3. cont \in [nodes : SUBSET [path : Path, dev : DevNum], allowed : SUBSET DevNum,
                ifaces : SUBSET Accel]
  BY DEF CInv, Typed
<1>4. /\ UNCHANGED <<vars, hcfg, runc, todo, arg, found, basis>>
      /\ cont' = after(seen, done, ruled) /\ hpc' \in {"failed", next}
      /\ hpc' # "failed" => done = paths
  BY <1>2 DEF Change
<1>5. cont'.nodes = Mounted(done, seen) /\ cont'.ifaces = cont.ifaces
  BY <1>3, <1>4
<1>6. \A n \in cont.nodes : n = [path |-> n.path, dev |-> Number(n.path)]
  BY <1>3 DEF NodesOfHost, Number
<1>7. cont.nodes \subseteq cont'.nodes
  BY <1>5, <1>6 DEF Mounted
<1>8. \A n \in cont'.nodes : n.dev = NodeOf(host, n.path).dev
  BY <1>5 DEF Mounted, NodesOfHost, Number
<1>9. ASSUME done = paths, NEW p \in paths PROVE \E n \in cont'.nodes : n.path = p
  <2>1. CASE p \in seen
    BY <1>1, <1>7, <2>1
  <2>2. CASE p \notin seen
    <3>1. [path |-> p, dev |-> Number(p)] \in cont'.nodes
      BY <1>5, <1>9, <2>2 DEF Mounted
    <3> QED
      BY <3>1
  <2> QED
    BY <2>1, <2>2
<1> QED
  BY <1>4, <1>5, <1>7, <1>8, <1>9

\* A step that leaves runtime, host and configurations alone keeps the case.
LEMMA StillStanding ==
  ASSUME UNCHANGED <<cfg, hcfg, host, loaded, steady, last>>
  PROVE  /\ (Standing' <=> Standing) /\ (NodesWanted' <=> NodesWanted)
         /\ MountAccelerators' <=> MountAccelerators
BY DEF Standing, SameHost, PoliciesAgree, CurrentOn, NodesWanted, MountAccelerators

LEMMA RuncProgress ==
  ASSUME CInv, RequestInv, StartInv, RuncStep \/ Exit, runc' \in {"hooks", "started"}, Standing'
  PROVE  Progress'
<1>u. UNCHANGED <<vars, hcfg>>
  BY DEF RuncStep, RuncCreate, StartHook, EndHook, RuncStart, Exit
<1>0. /\ UNCHANGED <<cfg, hcfg, host, disk, pc, loaded, steady, last>>
      /\ Standing /\ (NodesWanted' <=> NodesWanted)
      /\ MountAccelerators' <=> MountAccelerators
  BY <1>u, StillStanding DEF vars, hostVars, bundle, runVars, history
<1>1. CASE RuncCreate
  <2>1. pc = "runc" /\ hpc = "none" /\ hpc' = "none"
    BY <1>1 DEF RuncCreate, CInv, Flow
  <2>2. /\ disk \in OciSpec /\ disk # NoSpec /\ CurrentOn(disk, host)
        /\ Carries(OwnHooks(disk), last.ids)
        /\ NodesWanted => cfg.mode = "legacy" \/ ListsNodes(disk, last.ids, host)
        /\ NodesWanted /\ ~MountAccelerators => ListsNodes(disk, last.ids, host)
    BY <1>0, <2>1, HooksSelect
  <2>3. /\ todo' = Staged(disk.prestart, "prestart") \o Staged(disk.createRuntime, "createRuntime")
        /\ cont' = [Untouched EXCEPT !.nodes = {[path |-> d.path, dev |-> d.dev] : d \in disk.devices}]
    BY <1>1, <2>2 DEF RuncCreate
  <2>4. /\ cont'.nodes = {[path |-> d.path, dev |-> d.dev] : d \in disk.devices} /\ cont'.ifaces = {}
    BY <2>3 DEF Untouched
  <2>5. NodesOfHost'
    BY <1>0, <2>2, <2>4 DEF NodesOfHost, CurrentOn
  <2>6. PICK i \in DOMAIN OwnHooks(disk) : OwnHooks(disk)[i].habana
    BY <2>2 DEF Carries
  <2>7. HookLeft' /\ (cfg.mode = "legacy" => PrestartLeft')
    <3>1. CASE cfg.mode = "legacy"
      <4>1. PICK j \in DOMAIN todo' : todo'[j].hook = disk.prestart[i] /\ todo'[j].stage = "prestart"
        BY <2>2, <2>3, <2>6, <3>1, AllStaged DEF OwnHooks
      <4> QED
        BY <2>6, <3>1, <4>1 DEF OwnHooks, HookLeft, PrestartLeft
    <3>2. CASE cfg.mode # "legacy"
      <4>1. PICK j \in DOMAIN todo' : todo'[j].hook = disk.createRuntime[i]
        BY <2>2, <2>3, <2>6, <3>2, AllStaged DEF OwnHooks
      <4> QED
        BY <2>6, <3>2, <4>1 DEF OwnHooks, HookLeft
    <3> QED
      BY <3>1, <3>2
  <2>8. ListsNodes(disk, last.ids, host) => Provided(last.ids)'
    <3> SUFFICES ASSUME ListsNodes(disk, last.ids, host), NEW a \in last.ids,
                        host.accel[a].kind = "char"
                 PROVE  \E n \in cont'.nodes : n.dev = host.accel[a].dev
      BY <1>0 DEF Provided
    <3>1. PICK d \in disk.devices : d.dev = host.accel[a].dev
      BY DEF ListsNodes
    <3>2. [path |-> d.path, dev |-> d.dev] \in cont'.nodes
      BY <2>4
    <3> QED
      BY <3>1, <3>2
  <2>9. cont'.ifaces \subseteq Exposable(host', last'.ids)
    BY <2>4
  <2> QED
    BY <1>0, <2>1, <2>2, <2>5, <2>7, <2>8, <2>9 DEF Progress, Parsed, Mounting
<1>2. ASSUME ~RuncCreate PROVE Progress /\ UNCHANGED <<cont, arg, found>> /\ ~Exit
  <2>1. UNCHANGED <<cont, arg, found>> /\ ~Exit /\ runc \in {"hooks", "started"}
    BY <1>2 DEF RuncStep, StartHook, EndHook, RuncStart, Exit
  <2> QED
    BY <1>0, <2>1 DEF StartInv
<1>3. CASE StartHook
  <2>1. /\ UNCHANGED todo /\ hpc' \in {"load", "succeeded", "failed"} /\ ~RuncCreate
        /\ hpc' = "succeeded" => ~Head(todo).hook.habana
    BY <1>3 DEF StartHook, RuncCreate
  <2> QED
    BY <1>0, <1>2, <2>1 DEF Progress, NodesOfHost, Exposed, HookLeft, PrestartLeft, Provided, Parsed,
       Mounting
<1>4. CASE EndHook
  <2>1. hpc = "succeeded" /\ hpc' = "none" /\ todo' = Tail(todo) /\ ~RuncCreate
    BY <1>4 DEF EndHook, RuncCreate
  <2>2. todo # <<>> /\ todo \in Seq([hook : Hook, stage : Stages])
    BY <2>1 DEF CInv, Flow, Typed
  <2>3. HookLeft' \/ Exposed(last.ids)
    <3>1. CASE ~HookLeft
      BY <1>2, <2>1, <3>1 DEF Progress
    <3>2. CASE HookLeft
      <4>1. PICK i \in DOMAIN todo : todo[i].hook.habana
        BY <3>2 DEF HookLeft
      <4>2. CASE todo[i] = Head(todo)
        BY <1>2, <2>1, <4>1, <4>2 DEF Progress
      <4>3. CASE todo[i] # Head(todo)
        BY <2>1, <2>2, <4>1, <4>3, TailKeeps DEF HookLeft
      <4> QED
        BY <4>2, <4>3
    <3> QED
      BY <3>1, <3>2
  <2>4. NodesWanted => PrestartLeft' \/ Provided(last.ids)
    <3>1. CASE ~PrestartLeft
      BY <1>2, <2>1, <3>1 DEF Progress
    <3>2. CASE PrestartLeft
      <4>1. PICK i \in DOMAIN todo : todo[i].hook.habana /\ todo[i].stage = "prestart"
        BY <3>2 DEF PrestartLeft
      <4>2. CASE todo[i] = Head(todo)
        BY <1>2, <2>1, <4>1, <4>2 DEF Progress, Stage, Mounting
      <4>3. CASE todo[i] # Head(todo)
        BY <2>1, <2>2, <4>1, <4>3, TailKeeps DEF PrestartLeft
      <4> QED
        BY <4>2, <4>3
    <3> QED
      BY <3>1, <3>2
  <2> QED
    BY <1>0, <1>2, <2>1, <2>3, <2>4 DEF Progress, NodesOfHost, Exposed, Provided, Parsed, Mounting
<1>5. CASE RuncStart
  <2>1. UNCHANGED <<todo, hpc>> /\ hpc = "none" /\ ~RuncCreate
    BY <1>5 DEF RuncStart, RuncCreate
  <2> QED
    BY <1>0, <1>2, <2>1 DEF Progress, NodesOfHost, Exposed, HookLeft, PrestartLeft, Provided, Parsed,
       Mounting
<1> QED
  BY <1>1, <1>2, <1>3, <1>4, <1>5 DEF RuncStep

\* The hook passes the selection on; it neither succeeds early nor narrows it.
LEMMA ConfigProgress ==
  ASSUME CInv, RequestInv, StartInv, GetContainerConfig, runc' \in {"hooks", "started"}, Standing'
  PROVE  Progress'
<1>1. /\ UNCHANGED <<vars, hcfg, runc, todo, cont>> /\ pc = "runc" /\ Head(todo).hook \in Hooks(disk)
  BY ConfigKeeps
<1>0. /\ UNCHANGED <<cfg, hcfg, host, disk, pc, loaded, steady, last>>
      /\ Standing /\ (NodesWanted' <=> NodesWanted)
      /\ (MountAccelerators' <=> MountAccelerators) /\ Progress
  <2>1. UNCHANGED <<cfg, hcfg, host, disk, pc, loaded, steady, last>>
    BY <1>1 DEF vars, hostVars, bundle, runVars, history
  <2>2. /\ Standing /\ (NodesWanted' <=> NodesWanted)
        /\ MountAccelerators' <=> MountAccelerators
    BY <2>1, StillStanding
  <2> QED
    BY <1>1, <2>1, <2>2 DEF StartInv
<1>2. Reauthorize(disk, Head(todo).hook) = Success(last.ids) /\ last.ids # {}
  BY <1>0, <1>1, HooksSelect
<1>3. Success(last.ids).ok /\ Success(last.ids).ids = last.ids
  BY DEF Success
<1>4. hcfg.mode # "cdi"
  BY <1>0 DEF Standing, PoliciesAgree
<1>5. arg' = [form |-> "list", toks |-> last.ids] /\ hpc' \in {"failed", "cli"}
  BY <1>2, <1>3, <1>4 DEF GetContainerConfig
<1> QED
  BY <1>0, <1>1, <1>5 DEF Progress, NodesOfHost, Exposed, HookLeft, PrestartLeft, Provided, Parsed,
     Mounting

LEMMA ParseProgress ==
  ASSUME CInv, RequestInv, Progress, Standing, ParseDevices, pc = "runc"
  PROVE  Progress'
<1> DEFINE available == Present(host, {"accel", "control"}, Accel)
           chosen    == {p \in available : p[2] \in last.ids}
           ids       == {p[2] : p \in chosen}
<1>1. /\ hpc = "parse" /\ arg = [form |-> "list", toks |-> last.ids]
      /\ UNCHANGED <<vars, hcfg, runc, todo, arg, cont, basis>>
  BY DEF ParseDevices, Progress
<1>0. /\ UNCHANGED <<cfg, hcfg, host, last>> /\ (NodesWanted' <=> NodesWanted)
      /\ MountAccelerators' <=> MountAccelerators
  BY <1>1 DEF vars, hostVars, history, NodesWanted, MountAccelerators
<1>2. last.ids # {} /\ last.ids \subseteq PresentDevices(host)
  BY HooksSelect
<1>3. ASSUME NEW a \in last.ids
      PROVE  /\ \E p \in chosen : p[2] = a
             /\ host.accel[a].kind = "char" => <<"accel", a>> \in chosen
  <2>1. a \in Accel /\ "char" \in {host.accel[a].kind, host.control[a].kind}
    BY <1>2 DEF PresentDevices
  <2>2. host.accel[a].kind = "char" => <<"accel", a>> \in chosen
    BY <2>1 DEF Present, NodeOf
  <2>3. host.control[a].kind = "char" => <<"control", a>> \in chosen
    BY <2>1 DEF Present, NodeOf
  <2>4. <<"accel", a>>[2] = a /\ <<"control", a>>[2] = a
    OBVIOUS
  <2> HIDE DEF chosen
  <2> QED
    BY <2>1, <2>2, <2>3, <2>4
<1>4. ids = last.ids /\ available # {}
  BY <1>2, <1>3
<1>5. arg.form # "all" /\ arg.toks = last.ids
  BY <1>1
<1>6. \/ hpc' = "failed" /\ UNCHANGED found
      \/ hpc' = AfterParse /\ found'.accelerators = chosen
  BY <1>4, <1>5 DEF ParseDevices
<1>7. AfterParse \in {"mount", "interfaces"} /\ (AfterParse = "interfaces" => Stage # "prestart")
  BY DEF AfterParse, Standing, PoliciesAgree
<1>8. found'.accelerators = chosen => FoundIds' = last.ids
  BY <1>4 DEF FoundIds
<1> HIDE DEF chosen
<1>9. Stage' = Stage /\ Head(todo') = Head(todo)
  BY <1>1 DEF Stage
<1> QED
  BY <1>0, <1>1, <1>3, <1>6, <1>7, <1>8, <1>9
  DEF Progress, NodesOfHost, Exposed, HookLeft, PrestartLeft, Provided, Parsed, Mounting

LEMMA MountProgress ==
  ASSUME CInv, RequestInv, Progress, Standing, MountAccelerator \/ MountUverb, pc = "runc"
  PROVE  Progress'
<1>1. /\ UNCHANGED <<vars, hcfg, runc, todo, arg, found, basis>>
      /\ hpc \in {"mount", "mountUverbs"} /\ hpc' \in {"failed", "mountUverbs", "netinfo"}
      /\ hpc' = "mountUverbs" => hpc = "mount"
  BY DEF MountAccelerator, MountUverb, HandleMounts, Change
<1>0. /\ UNCHANGED <<cfg, hcfg, host, last>> /\ (NodesWanted' <=> NodesWanted)
      /\ MountAccelerators' <=> MountAccelerators
  BY <1>1 DEF vars, hostVars, history, NodesWanted, MountAccelerators
<1>2. /\ NodesOfHost /\ FoundIds = last.ids
      /\ \A a \in last.ids : host.accel[a].kind = "char" => <<"accel", a>> \in found.accelerators
  BY <1>1 DEF Progress, Parsed
<1>3. found.accelerators \in SUBSET Path /\ found.uverbs \in SUBSET Path
  BY DEF CInv, Typed
<1>4. /\ cont'.ifaces = cont.ifaces /\ cont.nodes \subseteq cont'.nodes
      /\ \A n \in cont'.nodes : n.dev = NodeOf(host, n.path).dev
  BY <1>2, <1>3, MountsProvide DEF MountAccelerator, MountUverb, Change, NodesOfHost
<1>5. Provided(last.ids) => Provided(last.ids)'
  BY <1>0, <1>4 DEF Provided
<1>6. NodesWanted /\ hpc' = "mountUverbs" => Provided(last.ids)'
  <2> SUFFICES ASSUME NodesWanted, hpc' = "mountUverbs" PROVE Provided(last.ids)'
    OBVIOUS
  <2>1. hpc = "mount" /\ MountAccelerator
    BY <1>1 DEF MountAccelerator, MountUverb
  <2>2. CASE MountAccelerators
    <3>1. HandleMounts(found.accelerators, "mountUverbs")
      BY <2>1, <2>2 DEF MountAccelerator, Change
    <3>2. \A p \in found.accelerators : \E n \in cont'.nodes : n.path = p
      BY <1>2, <1>3, <3>1, MountsProvide
    <3>3. ASSUME NEW a \in last.ids, host.accel[a].kind = "char"
          PROVE  \E n \in cont'.nodes : n.dev = host.accel[a].dev
      <4>1. PICK n \in cont'.nodes : n.path = <<"accel", a>>
        BY <1>2, <3>2, <3>3
      <4>2. n.dev = NodeOf(host, <<"accel", a>>).dev
        BY <1>4, <4>1
      <4> QED
        BY <4>2 DEF NodeOf
    <3> QED
      BY <1>0, <3>3 DEF Provided
  <2>3. CASE ~MountAccelerators
    BY <1>5, <2>3 DEF Progress
  <2> QED
    BY <2>2, <2>3
<1>7. hpc' = "netinfo" => hpc = "mountUverbs"
  BY DEF MountAccelerator, MountUverb, HandleMounts, Change
<1>8. Head(todo').hook.habana /\ Stage' = "prestart" => Head(todo).hook.habana /\ Stage = "prestart"
  BY <1>1 DEF Stage
<1>9. NodesWanted /\ hpc' \in Mounting /\ Head(todo').hook.habana /\ Stage' = "prestart"
        => Provided(last.ids)'
  BY <1>1, <1>5, <1>6, <1>7, <1>8 DEF Progress, Mounting
<1>10. NodesOfHost'
  BY <1>0, <1>4 DEF NodesOfHost
<1>11. /\ (HookLeft' <=> HookLeft) /\ (PrestartLeft' <=> PrestartLeft)
       /\ (Exposed(last.ids)' <=> Exposed(last.ids))
  BY <1>0, <1>1, <1>4 DEF HookLeft, PrestartLeft, Exposed
<1>12. hpc' \in Parsed => /\ hpc' # "cdiNetinfo" /\ FoundIds' = last.ids
                         /\ \A a \in last.ids : host.accel[a].kind = "char"
                                                  => <<"accel", a>> \in found'.accelerators
  BY <1>1, <1>2 DEF FoundIds
<1> QED
  BY <1>0, <1>1, <1>4, <1>5, <1>9, <1>10, <1>11, <1>12 DEF Progress

\* Steps of the cli that leave the container alone.
LEMMA QuietProgress ==
  ASSUME CInv, RequestInv, Progress, Standing, pc = "runc",
         \/ RunCli \/ KillHook \/ CliNetinfo
  PROVE  Progress'
<1>1. /\ UNCHANGED <<cfg, hcfg, host, last, todo, arg, found, cont>>
      /\ hpc' = "parse" => hpc = "cli"
      /\ hpc' # "cli" /\ hpc' # "succeeded" /\ (hpc' \in Parsed => hpc \in Parsed /\ hpc' = "interfaces")
      /\ hpc' \in Mounting => hpc \in Mounting \cup {"cdiNetinfo"}
  BY DEF RunCli, KillHook, CliNetinfo, Change, vars, hostVars, history, Parsed, Mounting
<1>2. /\ (NodesWanted' <=> NodesWanted) /\ (MountAccelerators' <=> MountAccelerators)
      /\ (HookLeft' <=> HookLeft) /\ (PrestartLeft' <=> PrestartLeft)
      /\ (Exposed(last.ids)' <=> Exposed(last.ids)) /\ (Provided(last.ids)' <=> Provided(last.ids))
      /\ (NodesOfHost' <=> NodesOfHost) /\ FoundIds' = FoundIds /\ Stage' = Stage
  BY <1>1 DEF NodesWanted, MountAccelerators, HookLeft, PrestartLeft, Exposed, Provided, NodesOfHost,
     FoundIds, Stage
<1>3. hpc' \in Mounting => hpc \in Mounting
  BY <1>1 DEF Progress, Parsed
<1> QED
  BY <1>1, <1>2, <1>3 DEF Progress, Parsed

\* The interfaces of the selection, all of them when the cli succeeds.
LEMMA ExposeProgress ==
  ASSUME CInv, RequestInv, Progress, Standing, pc = "runc", ExposeInterfaces
  PROVE  Progress'
<1>1. hpc = "interfaces" /\ FoundIds = last.ids
  BY DEF ExposeInterfaces, Progress, Parsed
<1>2. PICK done \in SUBSET Exposable(host, last.ids) :
        \/ /\ done = Exposable(host, last.ids)
           /\ Change([cont EXCEPT !.ifaces = @ \cup done], "succeeded")
        \/ Change([cont EXCEPT !.ifaces = @ \cup done], "failed")
  BY <1>1 DEF ExposeInterfaces
<1>3. /\ UNCHANGED <<vars, hcfg, runc, todo, arg, found, basis>>
      /\ cont' = [cont EXCEPT !.ifaces = @ \cup done] /\ hpc' \in {"succeeded", "failed"}
      /\ hpc' = "succeeded" => done = Exposable(host, last.ids)
  BY <1>2 DEF Change
<1>4. cont'.nodes = cont.nodes /\ cont'.ifaces = cont.ifaces \cup done
  BY <1>3 DEF CInv, Typed
<1>5. UNCHANGED <<cfg, hcfg, host, last>>
  BY <1>3 DEF vars, hostVars, history
<1>6. /\ cont'.ifaces \subseteq Exposable(host, last.ids)
      /\ hpc' = "succeeded" => Exposed(last.ids)'
      /\ Exposed(last.ids) => Exposed(last.ids)'
  BY <1>3, <1>4, <1>5 DEF Progress, Exposed
<1>7. /\ (NodesWanted' <=> NodesWanted) /\ (MountAccelerators' <=> MountAccelerators)
      /\ (HookLeft' <=> HookLeft) /\ (PrestartLeft' <=> PrestartLeft)
      /\ (Provided(last.ids)' <=> Provided(last.ids)) /\ (NodesOfHost' <=> NodesOfHost)
      /\ Stage' = Stage /\ (Head(todo').hook.habana <=> Head(todo).hook.habana)
  BY <1>3, <1>4, <1>5 DEF NodesWanted, MountAccelerators, HookLeft, PrestartLeft, Provided, NodesOfHost,
     Stage
<1>8. hpc' \notin {"cli", "parse"} \cup Parsed /\ hpc \in Mounting
  BY <1>1, <1>3 DEF Parsed, Mounting
<1> QED
  BY <1>5, <1>6, <1>7, <1>8 DEF Progress

LEMMA StartNext ==
  CInv /\ RequestInv /\ StartInv /\ [CNext]_allVars => StartInv'
<1> SUFFICES ASSUME CInv, RequestInv, StartInv, [CNext]_allVars,
                    runc' \in {"hooks", "started"}, Standing'
             PROVE  Progress'
  BY DEF StartInv
\* Steps that leave runtime, host and configurations alone.
<1>s. ASSUME UNCHANGED <<cfg, hcfg, host, loaded, steady, last, runc>>
      PROVE  Progress /\ Standing /\ pc = "runc"
  BY <1>s, StillStanding DEF StartInv, CInv, Flow
<1>1. CASE CreateContainer
  BY <1>1 DEF CreateContainer
<1>2. CASE RuntimeStep \/ Disturbance
  <2>1. UNCHANGED hookVars
    BY <1>2, RuntimeKeeps
  <2>2. pc = "runc"
    BY <2>1 DEF CInv, Flow, hookVars
  <2>3. FALSE
    <3>1. CASE RuntimeStep \/ Kill
      BY <2>2, <3>1 DEF RuntimeStep, Resolve, EditSpec, NetworkFiles, SaveSpecs, AddPrestartHook,
         AddAcceleratorDevices, AddModuleIDs, AddUverbsDevices, AddCreateRuntimeHook,
         GenerateNetinfo, CopyGaudinet, CreateTemp, WriteTemp, RenameTemp, SaveFails, ExecRunc,
         Kill, Running
    <3>2. CASE HostChange
      BY <3>2 DEF HostChange, Standing, SameHost
    <3> QED
      BY <1>2, <3>1, <3>2 DEF Disturbance
  <2> QED
    BY <2>3
<1>3. CASE RuncStep \/ Exit
  BY <1>3, RuncProgress
<1>4. CASE GetContainerConfig
  BY <1>4, ConfigProgress
<1>5. CASE CliStep \/ KillHook
  <2>1. UNCHANGED <<cfg, hcfg, host, loaded, steady, last, runc>>
    BY <1>5 DEF CliStep, RunCli, ParseDevices, MountAccelerator, MountUverb, HandleMounts, CliNetinfo,
       ExposeInterfaces, KillHook, Change, vars, hostVars, history
  <2> QED
    BY <1>5, <1>s, <2>1, ParseProgress, MountProgress, QuietProgress, ExposeProgress DEF CliStep
<1>6. CASE UNCHANGED allVars
  <2>1. UNCHANGED <<cfg, hcfg, host, loaded, steady, last, runc, todo, hpc, arg, found, cont>>
    BY <1>6 DEF allVars, vars, hostVars, history, hookVars
  <2>2. Progress
    BY <1>s, <2>1
  <2>3. /\ (NodesWanted' <=> NodesWanted) /\ (MountAccelerators' <=> MountAccelerators)
        /\ (HookLeft' <=> HookLeft) /\ (PrestartLeft' <=> PrestartLeft)
        /\ (Exposed(last.ids)' <=> Exposed(last.ids)) /\ (Provided(last.ids)' <=> Provided(last.ids))
        /\ (NodesOfHost' <=> NodesOfHost) /\ FoundIds' = FoundIds /\ Stage' = Stage
    BY <2>1 DEF NodesWanted, MountAccelerators, HookLeft, PrestartLeft, Exposed, Provided, NodesOfHost,
       FoundIds, Stage
  <2> QED
    BY <2>1, <2>2, <2>3 DEF Progress
<1> QED
  BY <1>1, <1>2, <1>3, <1>4, <1>5, <1>6 DEF CNext

\* A container starts only with all of what the runtime selected for it: every
\* hook on the bundle comes to the same selection, exposes all its interfaces
\* and leaves a node for each accelerator, however requests and hooks failed
\* before, as long as the host stays the one the bundle was saved on.
THEOREM StartsWithTheSelection == CSpec => []StartedAsSelected
<1>1. CInit => RequestInv /\ StartInv
  <2> SUFFICES ASSUME CInit PROVE RequestInv /\ StartInv
    OBVIOUS
  <2>1. EditInv /\ HandInv /\ SelectorInv
    BY EditInit, HandInit, SelectorInit DEF CInit
  <2>2. SavedInv
    BY DEF CInit, Init, SavedInv, EditedNodes, SavedSomething, HandedOver, SameHost, Running
  <2> QED
    BY <2>1, <2>2 DEF RequestInv, StartInv, CInit
<1>2. CInv /\ RequestInv /\ StartInv => StartedAsSelected
  <2> SUFFICES ASSUME CInv, RequestInv, StartInv, runc = "started", steady, PoliciesAgree,
                      ModulesKnown(host), last # None, last.host = host, NodesCurrent(loaded)
               PROVE  /\ cont.ifaces = Exposable(host, HookDevices(disk))
                      /\ cfg.mountAccelerators \/ ~cfg.allowEnv =>
                           \A a \in HookDevices(disk) : host.accel[a].kind = "char" =>
                              \E n \in cont.nodes : n.dev = host.accel[a].dev
    BY DEF StartedAsSelected
  <2>1. Standing /\ pc = "runc" /\ todo = <<>>
    BY DEF Standing, SameHost, NodesCurrent, CurrentOn, CInv, Flow
  <2>2. Progress /\ ~HookLeft /\ ~PrestartLeft
    BY <2>1 DEF StartInv, HookLeft, PrestartLeft
  <2>3. HookDevices(disk) = last.ids
    BY <2>1, HooksSelect
  <2> QED
    BY <2>2, <2>3 DEF Progress, Exposed, Provided, NodesWanted
<1> QED
  BY <1>1, <1>2, CInvariant, RequestNext, StartNext, PTL DEF CSpec
=============================================================================
