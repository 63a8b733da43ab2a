------------------------------ MODULE Container ------------------------------
(***************************************************************************)
(* The life of one container around module Runtime: the engine calls       *)
(* create, runc starts the hooks of the saved bundle, each                 *)
(* habana-container-hook reads a configuration and the bundle of its own,  *)
(* authorizes the devices again against the host of that moment, and runs  *)
(* habana-container-cli, which changes the container; a failed hook fails  *)
(* the create request and the engine may try again on the same bundle.     *)
(*                                                                         *)
(* runc and the engine are modelled from how the code is called by them.   *)
(***************************************************************************)
EXTENDS Runtime

CONSTANT HookConfig  \* configurations the hook may find

\* The hook looks for config.toml elsewhere than the runtime and may find another one.
ASSUME HookConfigTyped ==
  HookConfig \subseteq [mode : {"legacy", "oci", "cdi"}, allowEnv : BOOLEAN,
                        alwaysMount : BOOLEAN, acceptUnprivileged : BOOLEAN,
                        mountAccelerators : BOOLEAN, mountUverbs : BOOLEAN,
                        root : BOOLEAN]

VARIABLES
  hcfg,       \* the configuration of the hook
  runc,       \* runc: "none", "hooks", "started" or "failed"
  todo,       \* hooks still to run, each with its lifecycle stage
  hpc,        \* where the running hook and its cli are
  arg,        \* the --device argument of the cli
  found,      \* paths the cli has found for it
  cont,       \* what the container has: nodes, allowed numbers, interfaces
  basis       \* history: what the engine had allocated when a hook authorized

hookVars == <<hcfg, runc, todo, hpc, arg, found, cont, basis>>
allVars  == <<vars, hookVars>>

NoPaths   == [accelerators |-> {}, uverbs |-> {}]
Untouched == [nodes |-> {}, allowed |-> {}, ifaces |-> {}]
NoArg     == [form |-> "none", toks |-> {}]

(***************************************************************************)
(* runc (external): the container is made from config.json, then the hooks *)
(* run one after the other; an error of one ends the create request.       *)
(***************************************************************************)
Staged(hooks, stage) == [i \in DOMAIN hooks |-> [hook |-> hooks[i], stage |-> stage]]

RuncCreate ==
  /\ pc = "runc" /\ runc = "none"
  /\ IF disk = NoSpec THEN runc' = "failed" /\ UNCHANGED <<todo, cont>>
     ELSE /\ runc' = "hooks"
          /\ todo' = Staged(disk.prestart, "prestart")
                     \o Staged(disk.createRuntime, "createRuntime")
          /\ cont' = [Untouched EXCEPT !.nodes = {[path |-> d.path, dev |-> d.dev] : d \in disk.devices}]
  /\ UNCHANGED <<vars, hcfg, hpc, arg, found, basis>>

\* A habana hook starts; another program succeeds or fails.
StartHook ==
  /\ runc = "hooks" /\ hpc = "none" /\ todo # <<>>
  /\ \/ Head(todo).hook.habana /\ hpc' = "load"
     \/ ~Head(todo).hook.habana /\ hpc' \in {"succeeded", "failed"}
  /\ UNCHANGED <<vars, hcfg, runc, todo, arg, found, cont, basis>>

\* Mutant: the hook that has ended is run again.
EndHookAgain ==
  /\ hpc \in {"succeeded", "failed"} /\ hpc' = "none"
  /\ IF hpc = "failed" THEN runc' = "failed" /\ todo' = <<>> ELSE UNCHANGED <<runc, todo>>
  /\ UNCHANGED <<vars, hcfg, arg, found, cont, basis>>

EndHook ==
  /\ hpc \in {"succeeded", "failed"} /\ hpc' = "none"
  /\ IF hpc = "failed" THEN runc' = "failed" /\ todo' = <<>>
     ELSE runc' = runc /\ todo' = Tail(todo)
  /\ UNCHANGED <<vars, hcfg, arg, found, cont, basis>>

RuncStart ==
  /\ runc = "hooks" /\ hpc = "none" /\ todo = <<>> /\ runc' = "started"
  /\ UNCHANGED <<vars, hcfg, todo, hpc, arg, found, cont, basis>>

\* The container ends, its namespaces with it; the root filesystem stays.
Exit ==
  /\ runc = "started" /\ runc' = "failed" /\ cont' = Untouched
  /\ UNCHANGED <<vars, hcfg, todo, hpc, arg, found, basis>>

(***************************************************************************)
(* doHook: getContainerConfig, then the cli.                               *)
(***************************************************************************)
Final(seq) == seq[Len(seq)]

\* getDevicesFromEnvvar, in CDI mode: the last HABANA_VISIBLE_DEVICES entry.
DevicesFromEnv(env) ==
  LET entries == env["DEVICES"]
  IN  IF entries = <<>> THEN [form |-> "all", toks |-> {}]
      ELSE IF Final(entries).form \in {"empty", "void"} THEN [form |-> "all", toks |-> {}]
      ELSE Final(entries)

\* loadSpec and getEnvMap panic on a spec without process or root and on an
\* environment entry without "=".
SpecUnusable(s) ==
  \/ ~s.process \/ ~s.root
  \/ \E k \in EnvKeys : \E v \in Elems(s.env[k]) : v.form = "bare"

\* Mutant: --devices is not looked at.
ReauthorizeByEnv(s, hook) == ResolveDevices(s, host, hcfg.allowEnv, hcfg.alwaysMount)

\* resolveHabanaConfig: --devices stands in for the environment of the spec.
Reauthorize(s, hook) ==
  ResolveDevices(IF hook.devs = {} THEN s ELSE [s EXCEPT !.env = Explicit(hook.devs)],
                 host, hcfg.allowEnv, hcfg.alwaysMount)

\* Privileges matter when devices are chosen by the environment.
PrivilegesSuffice(s) == s.privileged \/ hcfg.acceptUnprivileged

GetContainerConfig ==
  /\ hpc = "load"
  /\ basis' = basis \cup (IF origin = NoSpec THEN {} ELSE AllocatedDevices(origin, host))
  /\ LET result == Reauthorize(disk, Head(todo).hook)
         value  == IF hcfg.mode = "cdi" THEN DevicesFromEnv(disk.env)
                   ELSE [form |-> "list", toks |-> result.ids]
     IN  /\ arg' = value
         /\ hpc' = IF \/ SpecUnusable(disk)
                      \/ (hcfg.mode = "cdi" \/ hcfg.allowEnv) /\ ~PrivilegesSuffice(disk)
                      \/ hcfg.mode # "cdi" /\ ~result.ok
                   THEN "failed"
                   ELSE IF hcfg.mode # "cdi" /\ result.ids = {} THEN "succeeded"
                   ELSE "cli"
  /\ found' = NoPaths
  /\ UNCHANGED <<vars, hcfg, runc, todo, cont>>

(***************************************************************************)
(* habana-container-cli.                                                   *)
(***************************************************************************)
Stage == Head(todo).stage
\* Mutant: the policy for the environment is not looked at.
MountAcceleratorsAnyPolicy == hcfg.mountAccelerators

MountAccelerators == hcfg.mountAccelerators /\ (hcfg.allowEnv \/ hcfg.mode = "cdi")
FoundIds == {p[2] : p \in found.accelerators}

\* The stage after parseDevices: mounts for prestart, netinfo for CDI otherwise.
AfterParse ==
  IF Stage = "prestart" THEN "mount" ELSE IF hcfg.mode = "cdi" THEN "cdiNetinfo" ELSE "interfaces"

\* Mutant: the elements of --device are not checked.
BadArgumentsUnchecked == hcfg.root \/ arg.form = "none"

\* Flags: --device is required and lists numbers; --root is not a flag of the cli.
BadArguments ==
  \/ hcfg.root \/ arg.form = "none"
  \/ arg.form = "list" /\ ~(arg.toks \subseteq Accel)

\* doHook runs the cli with its arguments, or does not find it.
RunCli ==
  /\ hpc = "cli"
  /\ \/ hpc' = "failed"
     \/ ~BadArguments /\ hpc' = "parse"
  /\ UNCHANGED <<vars, hcfg, runc, todo, arg, found, cont, basis>>

NodeOf(h, p) == IF p[1] = "accel" THEN h.accel[p[2]]
                ELSE IF p[1] = "control" THEN h.control[p[2]] ELSE h.uverb[p[2]]

Present(h, names, ids) == {p \in names \X ids : NodeOf(h, p).kind # "absent"}

\* parseDevices: without any accelerator on the host the cli succeeds at once.
ParseDevices ==
  /\ hpc = "parse"
  /\ LET wanted    == IF arg.form = "all" THEN Accel ELSE arg.toks
         available == Present(host, {"accel", "control"}, Accel)
         chosen    == {p \in available : p[2] \in wanted}
         ids       == {p[2] : p \in chosen}
     IN  IF available = {} THEN hpc' = "succeeded" /\ UNCHANGED found
         ELSE IF \E a \in ids : host.pci[a] \in {Empty, ReadErr}
              THEN hpc' = "failed" /\ UNCHANGED found
         ELSE /\ hpc' = AfterParse
              /\ found' = [accelerators |-> chosen, uverbs |-> Present(host, {"uverb"}, ids)]
  /\ UNCHANGED <<vars, hcfg, runc, todo, arg, cont, basis>>

\* The cli goes on at next with the container changed to c.
Change(c, next) ==
  /\ cont' = c /\ hpc' = next
  /\ UNCHANGED <<vars, hcfg, runc, todo, arg, found, basis>>

Number(p)   == NodeOf(host, p).dev
IsDevice(p) == NodeOf(host, p).kind \notin {"absent", "invalid"}

\* mountHLDevice for each of paths: bound over what was there, unless the path
\* is one of seen, which the root filesystem has as seen from the host.
Mounted(paths, seen) ==
  {n \in cont.nodes : n.path \notin paths \ seen}
  \cup {[path |-> p, dev |-> Number(p)] : p \in paths \ seen}

\* handleMounts: every node is mounted, then allowed in the device cgroup.  It
\* fails when a node has gone, and may fail after any part of the work.
HandleMounts(paths, next) ==
  \E seen \in SUBSET (paths \cap {n.path : n \in cont.nodes}), done \in SUBSET paths :
     LET after(ruled) == [cont EXCEPT !.nodes   = Mounted(done, seen),
                                      !.allowed = @ \cup {Number(p) : p \in ruled}]
     IN  /\ \A p \in done : IsDevice(p)
         /\ \/ \E ruled \in {{}} \cup (IF done = paths THEN SUBSET paths ELSE {}) :
                  Change(after(ruled), "failed")
            \/ done = paths /\ Change(after(paths), next)

\* First the container's cgroup is looked up, which may fail.
MountAccelerator ==
  /\ hpc = "mount"
  /\ \/ Change(cont, "failed")
     \/ MountAccelerators /\ HandleMounts(found.accelerators, "mountUverbs")
     \/ ~MountAccelerators /\ Change(cont, "mountUverbs")

MountUverb ==
  /\ hpc = "mountUverbs"
  /\ IF hcfg.mountUverbs THEN HandleMounts(found.uverbs, "netinfo")
     ELSE Change(cont, "netinfo")

\* The network file; its error is logged by prestart and fatal in CDI mode.
CliNetinfo ==
  /\ hpc \in {"netinfo", "cdiNetinfo"}
  /\ \/ /\ \A a \in FoundIds : host.pci[a] \notin {Empty, ReadErr}
        /\ files' = [files EXCEPT !.mac = IF FoundIds = {} THEN @ ELSE FoundIds]
        /\ hpc' = "interfaces"
     \/ files' = files /\ hpc' = IF hpc = "netinfo" THEN "interfaces" ELSE "failed"
  /\ UNCHANGED <<cfg, hostVars, disk, temps, runVars, history,
                 hcfg, runc, todo, arg, found, cont, basis>>

\* ExternalInterfaces and the check for links that are down: one device without
\* a net directory ends the search with nothing.
Exposable(h, ids) ==
  IF \E a \in ids : h.net[a] = "missing" THEN {} ELSE {a \in ids : h.net[a] = "up"}

\* Mutant: an interface that fails is skipped.
ExposeInterfacesSkipping ==
  /\ hpc = "interfaces"
  /\ \E done \in SUBSET Exposable(host, FoundIds) :
        Change([cont EXCEPT !.ifaces = @ \cup done], "succeeded")

\* exposeInterfaces: for each accelerator in turn, and it may fail in between.
ExposeInterfaces ==
  /\ hpc = "interfaces"
  /\ \/ /\ \A a \in FoundIds : host.pci[a] \notin {Empty, ReadErr}
        /\ Change([cont EXCEPT !.ifaces = @ \cup Exposable(host, FoundIds)], "succeeded")
     \/ \E done \in SUBSET Exposable(host, FoundIds) :
           Change([cont EXCEPT !.ifaces = @ \cup done], "failed")

\* runc or the engine kills the hook, its timeout passed for instance.
KillHook == hpc \notin {"none", "succeeded", "failed"} /\ Change(cont, "failed")

(***************************************************************************)
(* Composition.                                                            *)
(***************************************************************************)
CInit ==
  /\ Init
  /\ hcfg \in HookConfig
  /\ runc = "none" /\ todo = <<>> /\ hpc = "none" /\ arg = NoArg
  /\ found = NoPaths /\ cont = Untouched /\ basis = {}

\* The engine calls create when no container of the bundle is alive.
CreateContainer ==
  /\ pc # "runc" \/ runc = "failed"
  /\ Create /\ runc' = "none" /\ cont' = Untouched /\ basis' = {}
  /\ UNCHANGED <<hcfg, todo, hpc, arg, found>>

RuntimeStep ==
  (Resolve \/ EditSpec \/ NetworkFiles \/ SaveSpecs \/ ExecRunc) /\ UNCHANGED hookVars

Disturbance == (Kill \/ HostChange) /\ UNCHANGED hookVars

RuncStep == RuncCreate \/ StartHook \/ EndHook \/ RuncStart
CliStep  == RunCli \/ ParseDevices \/ MountAccelerator \/ MountUverb \/ CliNetinfo
            \/ ExposeInterfaces

CNext == \/ CreateContainer \/ RuntimeStep \/ RuncStep \/ GetContainerConfig \/ CliStep
         \/ Exit \/ KillHook \/ Disturbance

CSpec == CInit /\ [][CNext]_allVars

\* A request that is alive goes on: the kernel schedules the processes and runc
\* waits for its hooks.  Nothing is assumed of the engine, the host or kills.
Fairness == /\ WF_allVars(RuntimeStep) /\ WF_allVars(RuncStep)
            /\ WF_allVars(GetContainerConfig) /\ WF_allVars(CliStep)

FairSpec == CSpec /\ Fairness

(***************************************************************************)
(* Properties.                                                             *)
(***************************************************************************)
\* Every variable keeps its type; a hook runs only for a runc that waits for
\* it, and the cli works only on arguments that are accelerator numbers.
CTypeOK ==
  /\ hcfg \in HookConfig
  /\ runc \in {"none", "hooks", "started", "failed"}
  /\ todo \in Seq([hook : Hook, stage : {"prestart", "createRuntime"}])
  /\ hpc \in {"none", "load", "cli", "parse", "mount", "mountUverbs", "netinfo", "cdiNetinfo",
              "interfaces", "succeeded", "failed"}
  /\ arg \in Value
  /\ found \in [accelerators : SUBSET Path, uverbs : SUBSET Path]
  /\ cont \in [nodes : SUBSET [path : Path, dev : DevNum], allowed : SUBSET DevNum,
               ifaces : SUBSET Accel]
  /\ basis \in SUBSET Accel
  /\ hpc \notin {"none", "load", "cli", "succeeded", "failed"} =>
       arg.form # "none" /\ (arg.form = "list" => arg.toks \subseteq Accel)
  /\ hpc \notin {"none", "succeeded", "failed"} => pc = "runc" /\ runc = "hooks" /\ todo # <<>>

\* Runtime and hook have read the same policy.
PoliciesAgree ==
  /\ cfg.mode # "cdi" /\ hcfg.mode # "cdi"
  /\ cfg.allowEnv = hcfg.allowEnv /\ cfg.alwaysMount = hcfg.alwaysMount
  /\ cfg.mountAccelerators = hcfg.mountAccelerators

\* The nodes the bundle lists have the numbers of the host.
NodesCurrent(s) == \A d \in s.devices : d.dev = NodeOf(host, d.path).dev

\* A container that has started on the host its bundle was edited for, which has
\* stood still, has all of what the runtime selected and nothing else: the
\* interfaces of exactly the selected accelerators as far as the host has them
\* up and, unless an administrator leaves nodes to others, a node for each
\* accelerator.  Several hooks on one bundle come to the same selection, and no
\* error or early success of a hook or the cli lets a half-made container start.
StartedAsSelected ==
  /\ runc = "started" /\ steady /\ PoliciesAgree /\ ModulesKnown(host)
  /\ last # None /\ last.host = host /\ NodesCurrent(loaded)
  => /\ cont.ifaces = Exposable(host, HookDevices(disk))
     /\ cfg.mountAccelerators \/ ~cfg.allowEnv =>
          \A a \in HookDevices(disk) : host.accel[a].kind = "char" =>
             \E n \in cont.nodes : n.dev = host.accel[a].dev

\* The --devices the runtime has put into every habana hook of the bundle bound
\* what the hooks expose, even when the hook has read another policy than the
\* runtime (any but CDI, which ignores --devices).
SelectionIsBound ==
  /\ hcfg.mode # "cdi" /\ disk # NoSpec
  /\ \A h \in Elems(disk.prestart) \cup Elems(disk.createRuntime) : h.habana => h.devs # {}
  => cont.ifaces \subseteq HookDevices(disk)

\* Where only the engine allocates, a container never comes to interfaces of an
\* accelerator outside the engine's own config.json, measured on a host one of
\* its hooks saw: neither the runtime's edits of the spec nor the variables it
\* generates widen what the hook accepts, and the cli adds no accelerator nodes.
WithinAllocation ==
  ~cfg.allowEnv /\ ~hcfg.allowEnv /\ hcfg.mode # "cdi" /\ origin # NoSpec =>
    /\ cont.ifaces \subseteq basis
    /\ \A n \in cont.nodes : n.path[1] = "uverb" \/ \E d \in origin.devices : d.dev = n.dev

\* Every create request is concluded: it is refused, fails, or gets an answer
\* from runc once all hooks have ended.
CreateConcludes ==
  pc \in Running ~> (pc \in Idle \ {"runc"} \/ runc \in {"started", "failed"})

\* README: an empty selector, none or void perform no additional setup, whichever
\* hooks run and however often the bundle was created.  In CDI mode it does not
\* hold: the hook takes them for all devices.
NothingAskedNothingDone ==
  /\ hcfg.mode # "cdi" /\ origin # NoSpec /\ origin.env["DEVICES"] # <<>>
  /\ Final(origin.env["DEVICES"]).form \in {"empty", "none", "void"}
  => cont.ifaces = {}
=============================================================================
