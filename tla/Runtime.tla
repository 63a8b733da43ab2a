------------------------------- MODULE Runtime -------------------------------
(***************************************************************************)
(* habana-container-runtime: what one `create` request does to the bundle  *)
(* of a container before it hands over to runc.  handleRequest loads       *)
(* config.json, resolves the devices the container may use, edits the spec *)
(* in memory, writes the network files into the root filesystem and        *)
(* replaces config.json; run then executes runc.                           *)
(*                                                                         *)
(* The host (nodes and sysfs files of the accelerators) may change between *)
(* any two steps, the process may be killed at any step, a look-up, a file *)
(* operation or the exec may fail, and the engine may run `create` again   *)
(* on the same bundle.                                                     *)
(***************************************************************************)
EXTENDS Discover

CONSTANTS Config,       \* configurations of the runtime (config.toml)
          Host,         \* inventories the host may go through
          Bundle,       \* the contents of config.json an engine may prepare
          NoSpec,       \* a config.json that is missing or not a spec
          None,         \* no value
          MaxHostChanges, \* bound: changes of the host
          MaxCreates      \* bound: create requests on the bundle

\* Configurations, inventories and bundles have the shape the code decodes.
ASSUME ParametersTyped ==
  /\ Config \subseteq [mode : {"legacy", "oci", "cdi"}, allowEnv : BOOLEAN,
                       alwaysMount : BOOLEAN, mountAccelerators : BOOLEAN,
                       mountUverbs : BOOLEAN]
  /\ Host \subseteq Inventory
  /\ Bundle \subseteq OciSpec \cup {NoSpec}
  /\ NoSpec \notin OciSpec
  /\ MaxHostChanges \in Nat /\ MaxCreates \in Nat

\* Accelerators and uverbs nodes belong to different drivers, hence majors.
ASSUME MajorsDistinct ==
  \A h, g \in Host : \A a, b \in Accel :
     h.uverb[a].kind # "absent" /\ g.accel[b].kind # "absent"
     => h.uverb[a].dev # g.accel[b].dev

VARIABLES
  cfg,      \* the configuration of the runtime
  host,     \* the current inventory
  changes,  \* how often the host has changed
  disk,     \* config.json of the bundle
  temps,    \* temporary files lying next to config.json
  files,    \* network files in the container's root filesystem
  pc,       \* where the process is
  mem,      \* specConfig: the spec in memory
  req,      \* requestedDevices
  creates,  \* create requests so far
  \* History: what the properties compare with.
  origin,   \* config.json as the engine wrote it
  loaded,   \* config.json as this request found it
  errs,     \* errors this request put aside, in order
  steady,   \* the host has not changed since this request loaded the spec
  last,     \* devices and host of the latest save under a steady host, or None
  crashes   \* requests killed so far

runVars  == <<pc, mem, req, errs>>
hostVars == <<host, changes>>
bundle   == <<disk, temps, files>>
history  == <<origin, loaded, steady, last, crashes, creates>>
vars     == <<cfg, hostVars, bundle, runVars, history>>

Idle    == {"idle", "runc", "rejected", "failed", "norunc", "killed"}
Running == {"resolve", "prestart", "accelerators", "modules", "uverbs", "createRuntime",
            "netinfo", "gaudinet", "save", "write", "rename", "exec"}

(***************************************************************************)
(* Editing the spec in memory.                                             *)
(***************************************************************************)
\* Mutant: the entries with the key are not removed first.
AppendEnvVar(s, key, value) == [s EXCEPT !.env[key] = Append(@, value)]

\* addEnvVar: the only entry with its key.
AddEnvVar(s, key, value) == [s EXCEPT !.env[key] = <<value>>]

\* addErrorEnvVar: an error variable that is there already is kept.
AddErrorEnvVar(s, msg) ==
  IF s.env["ERROR"] # <<>> THEN s
  ELSE AddEnvVar(s, "ERROR", [form |-> "list", toks |-> {msg}])

\* The module ids joined with commas: "" when there is one and it is empty.
JoinModules(ids, h) ==
  IF \E a \in ids : ids = {a} /\ h.module[a] = Empty
  THEN [form |-> "empty", toks |-> {}]
  ELSE [form |-> "list", toks |-> {h.module[a] : a \in ids}]

\* addDevicesToSpec: nodes whose path is not in the spec yet, as type "c".
AddDevicesToSpec(s, nodes) ==
  [s EXCEPT !.devices = @ \cup {[path |-> n.path, type |-> "c", dev |-> n.dev] :
       n \in {m \in nodes : \A d \in s.devices : d.path # m.path}}]

\* Mutant: a rule without a number counts as naming every number.
AddAllowListBelowWildcards(s, nodes) ==
  LET new == {n.dev : n \in nodes} \ UNION {r.devs : r \in Elems(s.rules)}
  IN  IF new = {} THEN s
      ELSE [s EXCEPT !.rules = Append(@, [allow |-> TRUE, type |-> "c", exact |-> TRUE,
                                          devs |-> new, access |-> Access])]

\* addAllowList: numbers that no rule of the spec names yet.
AddAllowList(s, nodes) ==
  LET new == {n.dev : n \in nodes}
             \ UNION {r.devs : r \in {x \in Elems(s.rules) : x.exact}}
  IN  IF new = {} THEN s
      ELSE [s EXCEPT !.rules = Append(@, [allow |-> TRUE, type |-> "c", exact |-> TRUE,
                                          devs |-> new, access |-> Access])]

AddNodes(s, nodes) == AddAllowList(AddDevicesToSpec(s, nodes), nodes)

\* Mutant: habana hooks that are there already are kept.
AddHookOnce(hooks, ids) ==
  IF \E i \in DOMAIN hooks : hooks[i].habana THEN hooks
  ELSE Append(hooks, [habana |-> TRUE, devs |-> ids])

\* addPrestartHook, addCreateRuntimeHook: every habana hook of the list is
\* given the new devices; without one, a hook is appended.
AddHook(hooks, ids) ==
  LET hook == [habana |-> TRUE, devs |-> ids]
  IN  IF \E i \in DOMAIN hooks : hooks[i].habana
      THEN [i \in DOMAIN hooks |-> IF hooks[i].habana THEN hook ELSE hooks[i]]
      ELSE Append(hooks, hook)

(***************************************************************************)
(* handleRequest, step by step.                                            *)
(***************************************************************************)
\* Mutant: the error of loadSpecs is not looked at.
AfterLoadUnchecked == IF cfg.mode = "cdi" THEN "exec" ELSE "resolve"

\* In CDI mode the bundle is not looked at; one that cannot be loaded is an error.
AfterLoad ==
  IF cfg.mode = "cdi" THEN "exec" ELSE IF disk = NoSpec THEN "failed" ELSE "resolve"

\* Outside a request the engine may call create.
Create ==
  /\ pc \in Idle /\ creates < MaxCreates
  /\ creates' = creates + 1
  /\ loaded' = disk /\ mem' = disk /\ req' = {} /\ errs' = <<>> /\ steady' = TRUE
  /\ pc' = AfterLoad
  /\ UNCHANGED <<cfg, hostVars, bundle, origin, last, crashes>>

\* Mutant: accelerators are added whatever the policy for the environment.
FirstEditAnyPolicy ==
  IF cfg.mode = "legacy" THEN "prestart"
  ELSE IF cfg.mountAccelerators THEN "accelerators" ELSE "modules"

\* Legacy mode adds a prestart hook only; accelerators are added to the spec
\* when the environment may ask for them.
FirstEdit ==
  IF cfg.mode = "legacy" THEN "prestart"
  ELSE IF cfg.allowEnv /\ cfg.mountAccelerators THEN "accelerators" ELSE "modules"

\* resolveDevices decides; without devices runc gets the bundle as it is.
Resolve ==
  /\ pc = "resolve"
  /\ LET result == ResolveDevices(mem, host, cfg.allowEnv, cfg.alwaysMount)
     IN  /\ req' = result.ids
         /\ pc' = IF ~result.ok THEN "rejected"
                  ELSE IF result.ids = {} THEN "exec"
                  ELSE IF ~mem.root THEN "failed"
                  ELSE FirstEdit
  /\ UNCHANGED <<cfg, hostVars, bundle, mem, errs, history>>

\* The rest of the request goes on at next with the spec s.
Continue(s, next) ==
  /\ mem' = s /\ pc' = next
  /\ UNCHANGED <<cfg, hostVars, bundle, req, errs, history>>

Fail == Continue(mem, "failed")

\* The hook binary is found in one of four places, or the request fails.
AddPrestartHook ==
  /\ pc = "prestart"
  /\ \/ Continue([mem EXCEPT !.prestart = AddHook(@, req)], "save")
     \/ Fail

\* The device nodes of ids called name that exist.
NodesOf(name, nodes, ids) ==
  {[path |-> <<name, a>>, dev |-> nodes[a].dev] :
     a \in {x \in ids : nodes[x].kind # "absent"}}

\* The nodes of the requested accelerators that are there now.
AddAcceleratorDevices ==
  /\ pc = "accelerators"
  /\ IF \E a \in req : "invalid" \in {host.accel[a].kind, host.control[a].kind}
     THEN Fail
     ELSE Continue(AddNodes(mem, NodesOf("accel", host.accel, req)
                                   \cup NodesOf("control", host.control, req)), "modules")

AddModuleIDs ==
  /\ pc = "modules"
  /\ IF \E a \in req : host.module[a] = ReadErr THEN Fail
     ELSE Continue(AddEnvVar(mem, "MODULES", JoinModules(req, host)),
                   IF cfg.mountUverbs THEN "uverbs" ELSE "createRuntime")

\* An accelerator without a PCI address fails it, one without uverbs does not.
AddUverbsDevices ==
  /\ pc = "uverbs"
  /\ IF \E a \in req : host.pci[a] \in {Empty, ReadErr} \/ host.uverb[a].kind = "invalid"
     THEN Fail
     ELSE Continue(AddNodes(mem, NodesOf("uverb", host.uverb, req)), "createRuntime")

AddCreateRuntimeHook ==
  /\ pc = "createRuntime"
  /\ \/ Continue([mem EXCEPT !.createRuntime = AddHook(@, req)], "netinfo")
     \/ Fail

\* Mutant: the error is only logged.
LogOnly(msg, next) ==
  /\ errs' = Append(errs, msg) /\ pc' = next
  /\ UNCHANGED <<cfg, hostVars, bundle, mem, req, history>>

\* An error of the network files is put into the environment and the request goes on.
PutAside(msg, next) ==
  /\ mem' = AddErrorEnvVar(mem, msg) /\ errs' = Append(errs, msg) /\ pc' = next
  /\ UNCHANGED <<cfg, hostVars, bundle, req, history>>

Written(newFiles, next) ==
  /\ files' = newFiles /\ pc' = next
  /\ UNCHANGED <<cfg, hostVars, disk, temps, mem, req, errs, history>>

\* netinfo.Generate: macAddrInfo.json for the requested devices, by PCI address.
GenerateNetinfo ==
  /\ pc = "netinfo"
  /\ \/ /\ \A a \in req : host.pci[a] \notin {Empty, ReadErr}
        /\ Written([files EXCEPT !.mac = req], "gaudinet")
     \/ PutAside("netinfo", "gaudinet")

\* netinfo.GaudinetFile: a source that is missing or empty is not copied.
CopyGaudinet ==
  /\ pc = "gaudinet"
  /\ \/ Written([files EXCEPT !.gaudinet = TRUE], "save")
     \/ Written(files, "save")
     \/ PutAside("gaudinet", "save")

(***************************************************************************)
(* saveSpecs: a temporary file next to config.json, renamed over it.       *)
(***************************************************************************)
\* Mutant: config.json itself is opened for writing, and truncated.
TruncateInPlace ==
  /\ pc = "save" /\ pc' = "write" /\ temps' = temps + 1 /\ disk' = NoSpec
  /\ UNCHANGED <<cfg, hostVars, files, mem, req, errs, history>>

CreateTemp ==
  /\ pc = "save" /\ pc' = "write" /\ temps' = temps + 1
  /\ UNCHANGED <<cfg, hostVars, disk, files, mem, req, errs, history>>

WriteTemp == pc = "write" /\ Continue(mem, "rename")

RenameTemp ==
  /\ pc = "rename" /\ pc' = "exec"
  /\ disk' = mem /\ temps' = temps - 1
  /\ last' = IF steady THEN [ids |-> req, host |-> host] ELSE None
  /\ UNCHANGED <<cfg, hostVars, files, mem, req, errs, origin, loaded, steady, crashes, creates>>

\* Mutants: the error of saveSpecs is lost; the temporary file is left behind.
SaveErrorLost ==
  /\ pc \in {"save", "write", "rename"} /\ pc' = "exec"
  /\ temps' = IF pc = "save" THEN temps ELSE temps - 1
  /\ UNCHANGED <<cfg, hostVars, disk, files, mem, req, errs, history>>
SaveErrorLeaks ==
  /\ pc \in {"save", "write", "rename"} /\ Fail

\* Any of the file operations fails; the deferred Remove takes the temporary file.
SaveFails ==
  /\ pc \in {"save", "write", "rename"} /\ pc' = "failed"
  /\ temps' = IF pc = "save" THEN temps ELSE temps - 1
  /\ UNCHANGED <<cfg, hostVars, disk, files, mem, req, errs, history>>

\* docker-runc or runc replaces the process, or neither can be executed.
ExecRunc == pc = "exec" /\ \E next \in {"runc", "norunc"} : Continue(mem, next)

(***************************************************************************)
(* The environment.                                                        *)
(***************************************************************************)
\* The process is killed: nothing it deferred runs.
Kill ==
  /\ pc \in Running /\ pc' = "killed" /\ crashes' = crashes + 1
  /\ UNCHANGED <<cfg, hostVars, bundle, mem, req, errs, origin, loaded, steady, last, creates>>

HostChange ==
  /\ changes < MaxHostChanges /\ changes' = changes + 1
  /\ host' \in Host /\ steady' = FALSE
  /\ UNCHANGED <<cfg, bundle, runVars, origin, loaded, last, crashes, creates>>

Init ==
  /\ cfg \in Config /\ host \in Host /\ disk \in Bundle
  /\ changes = 0 /\ temps = 0 /\ files = [mac |-> {}, gaudinet |-> FALSE]
  /\ pc = "idle" /\ mem = disk /\ req = {} /\ errs = <<>>
  /\ origin = disk /\ loaded = disk /\ steady = TRUE /\ last = None
  /\ crashes = 0 /\ creates = 0

Request == Create \/ Resolve
EditSpec == \/ AddPrestartHook \/ AddAcceleratorDevices \/ AddModuleIDs
            \/ AddUverbsDevices \/ AddCreateRuntimeHook
NetworkFiles == GenerateNetinfo \/ CopyGaudinet
SaveSpecs == CreateTemp \/ WriteTemp \/ RenameTemp \/ SaveFails

Next == Request \/ EditSpec \/ NetworkFiles \/ SaveSpecs \/ ExecRunc \/ Kill \/ HostChange

Spec == Init /\ [][Next]_vars

(***************************************************************************)
(* Properties.                                                             *)
(***************************************************************************)
\* Every variable keeps its type; outside saveSpecs no spec in memory or on
\* disk loses the shape config.json must have.
TypeOK ==
  /\ cfg \in Config /\ host \in Host /\ changes \in 0..MaxHostChanges
  /\ disk \in OciSpec \cup {NoSpec} /\ mem \in OciSpec \cup {NoSpec}
  /\ temps \in Nat /\ files \in [mac : SUBSET Accel, gaudinet : BOOLEAN]
  /\ pc \in Idle \cup Running /\ req \in SUBSET Accel /\ errs \in Seq(Message)
  /\ origin \in OciSpec \cup {NoSpec} /\ loaded \in OciSpec \cup {NoSpec}
  /\ steady \in BOOLEAN /\ crashes \in Nat /\ creates \in 0..MaxCreates
  /\ last \in {None} \cup [ids : SUBSET Accel, host : Host]
  /\ pc \in Running \ {"exec"} => mem # NoSpec

\* config.json is left alone or replaced in one step by a spec that adds one
\* selection to it, on the way to runc and never by a refused or killed request:
\* atomic replacement in saveSpecs, early returns before it in handleRequest.
Contract == INSTANCE BundleConfig
  WITH config <- disk,
       state  <- IF pc = "idle" THEN "idle"
                 ELSE IF pc \in {"exec", "runc"} THEN "handed"
                 ELSE IF pc \in Running THEN "working" ELSE "refused"
BundleContract == Contract!Spec

\* The cgroup access that rules give to the accelerators of a host.
AcceleratorAccess(s, h) ==
  {p \in Accel \X Access :
     h.accel[p[1]].kind # "absent" /\ Granted(s.rules, h.accel[p[1]].dev, p[2])}

AcceleratorDevices(s) == {d \in s.devices : d.path[1] # "uverb"}

\* Without environment-based requests the runtime neither adds accelerator
\* nodes nor changes the access to them, however often create is called and
\* whatever the host does meanwhile (README: permissions are preserved).
GrantsPreserved ==
  ~cfg.allowEnv /\ origin # NoSpec =>
     /\ AcceleratorDevices(disk) = AcceleratorDevices(origin)
     /\ AcceleratorAccess(disk, host) = AcceleratorAccess(origin, host)

\* The devices the bundle passes to its habana hook.
HookDevices(s) == UNION {h.devs : h \in Elems(s.prestart) \cup Elems(s.createRuntime)}

\* The hooks an engine puts into a bundle name no devices.
ASSUME HooksAskNothing == \A b \in Bundle \ {NoSpec} : HookDevices(b) = {}

Explicit(ids) == [k \in EnvKeys |->
                    IF k = "DEVICES" THEN <<[form |-> "list", toks |-> ids]>> ELSE <<>>]

Managed == cfg.mode # "cdi" /\ loaded # NoSpec

\* A bundle handed to runc carries a hook for exactly the devices that the
\* spec the request loaded is entitled to (when the host stayed as it was),
\* and the hook's own authorization of the saved bundle accepts them: edits of
\* the spec never invalidate the entitlement they came from.
HandedOverConfigured ==
  pc = "exec" /\ Managed /\ steady =>
    LET entitled == ResolveDevices(loaded, host, cfg.allowEnv, cfg.alwaysMount)
    IN  /\ entitled.ok
        /\ IF entitled.ids = {} THEN disk = loaded
           ELSE /\ HookDevices(disk) = entitled.ids
                /\ ResolveDevices([disk EXCEPT !.env = Explicit(entitled.ids)],
                                  host, cfg.allowEnv, cfg.alwaysMount) = entitled

\* The engine left every accelerator to the runtime.
NoAcceleratorYet(s) ==
  /\ AcceleratorDevices(s) = {}
  /\ \A r \in Elems(s.rules) : ~r.exact

\* When the runtime adds accelerators to a bundle that names none, each
\* selected accelerator ends up usable: a node with the host's number, and
\* read and write access left by the last rule that matches it.
SelectionUsable ==
  /\ pc = "exec" /\ Managed /\ steady /\ loaded # disk /\ NoAcceleratorYet(loaded)
  /\ cfg.mode = "oci" /\ cfg.allowEnv /\ cfg.mountAccelerators
  => \A a \in HookDevices(disk) :
        host.accel[a].kind = "char" => a \in AllocatedDevices(disk, host)

\* Module ids tell the accelerators of a host apart.
ModulesKnown(h) ==
  /\ \A a \in PresentDevices(h) : h.module[a] \in Ident
  /\ \A a, b \in PresentDevices(h) : h.module[a] = h.module[b] => a = b

\* Calling create again on a saved bundle, on the host it was saved on, selects
\* the same devices: the HABANA_VISIBLE_MODULES the first call wrote, itself a
\* selector, never conflicts with the selectors the container came with.
RetrySelectsSame ==
  [][ pc = "resolve" /\ pc' # "resolve" /\ pc' # "killed" /\ steady
        /\ last # None /\ last.host = host /\ ModulesKnown(host)
      => req' = last.ids /\ pc' # "rejected" ]_vars

\* The container's macAddrInfo.json lists the devices of its hook, or the
\* environment of the bundle tells of an error: a file an earlier request left
\* behind is never passed off as this one's.
MacMatchesSelection ==
  pc = "exec" /\ Managed /\ cfg.mode = "oci" /\ req # {} =>
     files.mac = req \/ disk.env["ERROR"] # <<>>

\* Only a killed request leaves a temporary file in the bundle directory.
NoLeakedTemps == pc \in Idle => temps <= crashes

\* The bundle a request hands over tells of an error if, and only if, this
\* request put one aside or the bundle told of one before: not which of several
\* (addErrorEnvVar keeps the one that is there).
ErrorsVisible ==
  pc = "exec" /\ Managed /\ req # {} =>
    (disk.env["ERROR"] # <<>> <=> loaded.env["ERROR"] # <<>> \/ errs # <<>>)

\* HABANA_RUNTIME_ERROR holds "the last error from the runtime flow"
\* (README.md:199): the last one that the request has put aside.
LastErrorHeld ==
  pc = "exec" /\ errs # <<>> =>
    /\ disk.env["ERROR"] # <<>>
    /\ disk.env["ERROR"][1].toks = {errs[Len(errs)]}
=============================================================================
