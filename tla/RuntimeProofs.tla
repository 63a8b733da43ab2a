---------------------------- MODULE RuntimeProofs ----------------------------
(***************************************************************************)
(* Proofs about module Runtime, for any accelerators, inventories, bundles *)
(* and configurations: type correctness, temporary files, the policy of    *)
(* the allocation-only mode, and what becomes of errors; that it           *)
(* implements BundleConfig; and what it selects and hands over.            *)
(***************************************************************************)
EXTENDS Runtime, SequenceTheorems, TLAPS

(***************************************************************************)
(* The operators that edit a spec return specs.                            *)
(***************************************************************************)
\* Setting a variable keeps the shape of a spec (addEnvVar).
LEMMA AddEnvVarType ==
  ASSUME NEW s \in OciSpec, NEW key \in EnvKeys, NEW value \in Value
  PROVE  AddEnvVar(s, key, value) \in OciSpec
<1>1. <<value>> \in Seq(Value)
  OBVIOUS
<1>2. [s.env EXCEPT ![key] = <<value>>] \in Env
  BY <1>1 DEF OciSpec, Env
<1> QED
  BY <1>2 DEF AddEnvVar, OciSpec

\* So does keeping an error (addErrorEnvVar).
LEMMA AddErrorEnvVarType ==
  ASSUME NEW s \in OciSpec, NEW msg \in Message
  PROVE  AddErrorEnvVar(s, msg) \in OciSpec
<1>1. [form |-> "list", toks |-> {msg}] \in Value
  BY DEF Value
<1> QED
  BY <1>1, AddEnvVarType DEF AddErrorEnvVar, EnvKeys

\* The joined module ids are a value of the environment.
LEMMA JoinModulesType ==
  ASSUME NEW h \in Inventory, NEW ids \in SUBSET Accel,
         \A a \in ids : h.module[a] # ReadErr
  PROVE  JoinModules(ids, h) \in Value
<1>1. \A a \in ids : h.module[a] \in Token
  BY DEF Inventory, Token
<1> QED
  BY <1>1 DEF JoinModules, Value

\* The nodes of an inventory have a path and a number.
LEMMA NodesOfType ==
  ASSUME NEW nodes \in [Accel -> Node], NEW ids \in SUBSET Accel,
         NEW name \in {"accel", "control", "uverb"}
  PROVE  NodesOf(name, nodes, ids) \subseteq [path : Path, dev : DevNum]
BY DEF NodesOf, Node, Path

\* Adding device nodes keeps the shape of a spec (addDevicesToSpec).
LEMMA AddDevicesType ==
  ASSUME NEW s \in OciSpec, NEW nodes \in SUBSET [path : Path, dev : DevNum]
  PROVE  AddDevicesToSpec(s, nodes) \in OciSpec
BY DEF AddDevicesToSpec, OciSpec, Device

\* So does adding the rules for them (addAllowList).
LEMMA AddNodesType ==
  ASSUME NEW s \in OciSpec, NEW nodes \in SUBSET [path : Path, dev : DevNum]
  PROVE  AddNodes(s, nodes) \in OciSpec
<1> DEFINE t == AddDevicesToSpec(s, nodes)
<1> DEFINE new == {n.dev : n \in nodes}
                  \ UNION {r.devs : r \in {x \in Elems(t.rules) : x.exact}}
<1> DEFINE rule == [allow |-> TRUE, type |-> "c", exact |-> TRUE,
                    devs |-> new, access |-> Access]
<1>1. t \in OciSpec
  BY AddDevicesType
<1>2. rule \in Rule
  BY DEF Rule, Access
<1>3. Append(t.rules, rule) \in Seq(Rule)
  BY <1>1, <1>2 DEF OciSpec
<1>4. [t EXCEPT !.rules = Append(@, rule)] \in OciSpec
  BY <1>1, <1>3 DEF OciSpec
<1> QED
  BY <1>1, <1>4 DEF AddNodes, AddAllowList

\* Updating or appending the hook keeps a hook list (addPrestartHook, addCreateRuntimeHook).
LEMMA AddHookType ==
  ASSUME NEW hooks \in Seq(Hook), NEW ids \in SUBSET Accel
  PROVE  AddHook(hooks, ids) \in Seq(Hook)
<1> DEFINE hook == [habana |-> TRUE, devs |-> ids]
<1>1. hook \in Hook
  BY DEF Hook
<1> DEFINE n == Len(hooks)
<1>2. [i \in DOMAIN hooks |-> IF hooks[i].habana THEN hook ELSE hooks[i]] \in Seq(Hook)
  <2>1. n \in Nat /\ DOMAIN hooks = 1..n /\ \A i \in 1..n : hooks[i] \in Hook
    OBVIOUS
  <2> DEFINE f == [i \in 1..n |-> IF hooks[i].habana THEN hook ELSE hooks[i]]
  <2>2. f \in [1..n -> Hook]
    BY <1>1, <2>1
  <2>3. f \in Seq(Hook)
    <3> HIDE DEF f, n
    <3> QED
      BY <2>1, <2>2, SeqDef
  <2> QED
    BY <2>1, <2>3
<1> QED
  BY <1>1, <1>2 DEF AddHook

\* Resolving devices gives ids of accelerators.
LEMMA ResolveType ==
  ASSUME NEW s, NEW h, NEW allowEnv, NEW always
  PROVE  ResolveDevices(s, h, allowEnv, always) \in [ok : BOOLEAN, ids : SUBSET Accel]
BY DEF ResolveDevices, SelectDevices, Failure, Success, PresentDevices, AllocatedDevices

(***************************************************************************)
(* Type correctness.  That a number of temporary files is left (temps is   *)
(* never negative) needs to know that one is there while it is written.    *)
(***************************************************************************)
TempInv ==
  /\ temps <= crashes + (IF pc \in {"write", "rename"} THEN 1 ELSE 0)
  /\ pc \in {"write", "rename"} => temps > 0

TypeInv == TypeOK /\ TempInv

\* A configuration and an inventory have the fields the code reads.
LEMMA HostType == \A h \in Host : h \in Inventory
BY ParametersTyped

LEMMA TypeInit == Init => TypeInv
<1> SUFFICES ASSUME Init PROVE TypeInv
  OBVIOUS
<1> USE ParametersTyped DEF Init
<1>1. disk \in OciSpec \cup {NoSpec}
  OBVIOUS
<1>2. <<>> \in Seq(Message)
  OBVIOUS
<1>3. [mac |-> {}, gaudinet |-> FALSE] \in [mac : SUBSET Accel, gaudinet : BOOLEAN]
  OBVIOUS
<1>4. TypeOK
  BY <1>1, <1>2, <1>3 DEF TypeOK, Idle, Running
<1>5. TempInv
  BY DEF TempInv
<1> QED
  BY <1>4, <1>5 DEF TypeInv

\* Continuing with a spec changes nothing but the place and the spec in memory.
LEMMA ContinueType ==
  ASSUME TypeInv, NEW s \in OciSpec, NEW next \in Idle \cup Running,
         Continue(s, next), pc \in Running \ {"exec"},
         pc \in {"write", "rename"} <=> next \in {"write", "rename"}
  PROVE  TypeInv'
<1>1. TempInv'
  BY DEF TypeInv, TempInv, Continue, bundle, history
<1>2. mem' \in OciSpec /\ pc' \in Idle \cup Running
      /\ UNCHANGED <<cfg, host, changes, disk, temps, files, req, errs>>
      /\ UNCHANGED <<origin, loaded, steady, last, crashes, creates>>
  BY DEF Continue, hostVars, bundle, history
<1>3. TypeOK'
  BY <1>2, ParametersTyped DEF TypeInv, TypeOK
<1> QED
  BY <1>1, <1>3 DEF TypeInv

\* Each step keeps the types: the edits by the lemmas above, the rest by inspection.
LEMMA TypeNext == TypeInv /\ [Next]_vars => TypeInv'
<1> SUFFICES ASSUME TypeInv, [Next]_vars PROVE TypeInv'
  OBVIOUS
<1> USE DEF TypeInv
<1>0. pc \in Running \ {"exec"} => mem \in OciSpec
  BY DEF TypeOK
<1>h. host \in Inventory
  BY HostType DEF TypeOK
<1>f. Fail /\ pc \in Running \ {"exec", "write", "rename"} => TypeInv'
  BY <1>0, ContinueType DEF Fail, Idle
<1>1. CASE Create
  <2>1. pc' \in Idle \cup Running /\ (pc' \in Running \ {"exec"} => mem' # NoSpec)
    BY <1>1 DEF Create, AfterLoad, Idle, Running
  <2>2. creates' \in 0..MaxCreates
    BY <1>1, ParametersTyped DEF Create, TypeOK
  <2>3. pc \notin {"write", "rename"} /\ pc' \notin {"write", "rename"}
    BY <1>1 DEF Create, AfterLoad, Idle
  <2>4. mem' \in OciSpec \cup {NoSpec} /\ loaded' \in OciSpec \cup {NoSpec}
        /\ errs' \in Seq(Message) /\ req' \in SUBSET Accel /\ steady' \in BOOLEAN
    BY <1>1 DEF Create, TypeOK
  <2> QED
    BY <1>1, <2>1, <2>2, <2>3, <2>4 DEF Create, TypeOK, TempInv, hostVars, bundle
<1>2. CASE Resolve
  <2>1. req' \in SUBSET Accel
    BY <1>2, ResolveType DEF Resolve
  <2>2. pc' \in Idle \cup Running /\ pc' \notin {"write", "rename"} /\ pc = "resolve"
    BY <1>2 DEF Resolve, FirstEdit, Idle, Running
  <2>3. mem \in OciSpec
    BY <1>0, <2>2 DEF Running
  <2> QED
    BY <1>2, <2>1, <2>2, <2>3, ParametersTyped
    DEF Resolve, TypeOK, TempInv, hostVars, bundle, history
<1>3. CASE AddPrestartHook
  <2>1. pc = "prestart" /\ mem \in OciSpec
    BY <1>0, <1>3 DEF AddPrestartHook, Running
  <2>2. [mem EXCEPT !.prestart = AddHook(@, req)] \in OciSpec
    BY <2>1, AddHookType DEF OciSpec, TypeOK
  <2> QED
    BY <1>3, <1>f, <2>1, <2>2, ContinueType DEF AddPrestartHook, Running
<1>4. CASE AddAcceleratorDevices
  <2> DEFINE nodes == NodesOf("accel", host.accel, req)
                      \cup NodesOf("control", host.control, req)
  <2>1. pc = "accelerators" /\ mem \in OciSpec
    BY <1>0, <1>4 DEF AddAcceleratorDevices, Running
  <2>2. nodes \in SUBSET [path : Path, dev : DevNum]
    BY <1>h, NodesOfType DEF Inventory, TypeOK
  <2>3. AddNodes(mem, nodes) \in OciSpec
    BY <2>1, <2>2, AddNodesType
  <2> QED
    BY <1>4, <1>f, <2>1, <2>3, ContinueType DEF AddAcceleratorDevices, Running
<1>5. CASE AddModuleIDs
  <2>1. pc = "modules" /\ mem \in OciSpec
    BY <1>0, <1>5 DEF AddModuleIDs, Running
  <2>2. ASSUME \A a \in req : host.module[a] # ReadErr
        PROVE  AddEnvVar(mem, "MODULES", JoinModules(req, host)) \in OciSpec
    BY <1>h, <2>1, <2>2, JoinModulesType, AddEnvVarType DEF EnvKeys, SelectionKeys, TypeOK
  <2> QED
    BY <1>5, <1>f, <2>1, <2>2, ContinueType DEF AddModuleIDs, Running
<1>6. CASE AddUverbsDevices
  <2> DEFINE nodes == NodesOf("uverb", host.uverb, req)
  <2>1. pc = "uverbs" /\ mem \in OciSpec
    BY <1>0, <1>6 DEF AddUverbsDevices, Running
  <2>2. nodes \in SUBSET [path : Path, dev : DevNum]
    BY <1>h, NodesOfType DEF Inventory, TypeOK
  <2>3. AddNodes(mem, nodes) \in OciSpec
    BY <2>1, <2>2, AddNodesType
  <2> QED
    BY <1>6, <1>f, <2>1, <2>3, ContinueType DEF AddUverbsDevices, Running
<1>7. CASE AddCreateRuntimeHook
  <2>1. pc = "createRuntime" /\ mem \in OciSpec
    BY <1>0, <1>7 DEF AddCreateRuntimeHook, Running
  <2>2. [mem EXCEPT !.createRuntime = AddHook(@, req)] \in OciSpec
    BY <2>1, AddHookType DEF OciSpec, TypeOK
  <2> QED
    BY <1>7, <1>f, <2>1, <2>2, ContinueType DEF AddCreateRuntimeHook, Running
<1>p. ASSUME NEW msg \in Message, NEW next \in {"gaudinet", "save"}, PutAside(msg, next),
             pc \in {"netinfo", "gaudinet"}
      PROVE  TypeInv'
  <2>1. mem' \in OciSpec
    BY <1>0, <1>p, AddErrorEnvVarType DEF PutAside, Running
  <2>2. errs' \in Seq(Message)
    BY <1>p DEF PutAside, TypeOK
  <2> QED
    BY <1>p, <2>1, <2>2, ParametersTyped
    DEF PutAside, TypeOK, TempInv, Running, hostVars, bundle, history
<1>w. ASSUME NEW fs \in [mac : SUBSET Accel, gaudinet : BOOLEAN], NEW next \in {"gaudinet", "save"},
             Written(fs, next), pc \in {"netinfo", "gaudinet"}
      PROVE  TypeInv'
  BY <1>0, <1>w, ParametersTyped DEF Written, TypeOK, TempInv, Running, hostVars, history
<1>8. CASE GenerateNetinfo
  <2>1. [files EXCEPT !.mac = req] \in [mac : SUBSET Accel, gaudinet : BOOLEAN]
    BY DEF TypeOK
  <2> QED
    BY <1>8, <1>p, <1>w, <2>1 DEF GenerateNetinfo, Message
<1>9. CASE CopyGaudinet
  <2>1. /\ [files EXCEPT !.gaudinet = TRUE] \in [mac : SUBSET Accel, gaudinet : BOOLEAN]
        /\ files \in [mac : SUBSET Accel, gaudinet : BOOLEAN]
    BY DEF TypeOK
  <2> QED
    BY <1>9, <1>p, <1>w, <2>1 DEF CopyGaudinet, Message
<1>10. CASE CreateTemp
  BY <1>10 DEF CreateTemp, TypeOK, TempInv, Running, hostVars, history
<1>11. CASE WriteTemp
  BY <1>0, <1>11, ContinueType DEF WriteTemp, Running
<1>12. CASE RenameTemp
  <2>1. last' \in {None} \cup [ids : SUBSET Accel, host : Host]
    BY <1>12 DEF RenameTemp, TypeOK
  <2>2. disk' \in OciSpec /\ pc' = "exec" /\ pc = "rename"
    BY <1>0, <1>12 DEF RenameTemp, Running
  <2> QED
    BY <1>12, <2>1, <2>2 DEF RenameTemp, TypeOK, TempInv, Running, hostVars
<1>13. CASE SaveFails
  BY <1>13 DEF SaveFails, TypeOK, TempInv, Running, Idle, hostVars, history
<1>14. CASE ExecRunc
  BY <1>14 DEF ExecRunc, Continue, TypeOK, TempInv, Running, Idle, hostVars, bundle, history
<1>15. CASE Kill
  BY <1>15 DEF Kill, TypeOK, TempInv, Running, Idle, hostVars, bundle
<1>16. CASE HostChange
  <2>1. TempInv'
    BY <1>16 DEF HostChange, TempInv, bundle, runVars
  <2>2. changes' \in 0..MaxHostChanges
    BY <1>16, ParametersTyped DEF HostChange, TypeOK
  <2>3. host' \in Host /\ steady' \in BOOLEAN
        /\ UNCHANGED <<cfg, disk, temps, files, pc, mem, req, errs>>
        /\ UNCHANGED <<origin, loaded, last, crashes, creates>>
    BY <1>16 DEF HostChange, bundle, runVars
  <2> QED
    BY <2>1, <2>2, <2>3 DEF TypeOK
<1>17. CASE UNCHANGED vars
  BY <1>17 DEF vars, hostVars, bundle, runVars, history, TypeOK, TempInv
<1> QED
  BY <1>1, <1>2, <1>3, <1>4, <1>5, <1>6, <1>7, <1>8, <1>9, <1>10, <1>11, <1>12, <1>13,
     <1>14, <1>15, <1>16, <1>17
  DEF Next, Request, EditSpec, NetworkFiles, SaveSpecs

LEMMA TypeInvariant == Spec => []TypeInv
BY TypeInit, TypeNext, PTL DEF Spec

\* In every state of every run, for any hosts, bundles and configurations, every
\* variable of the runtime has its type, and a spec is in memory where one is edited.
THEOREM TypeCorrect == Spec => []TypeOK
<1>1. TypeInv => TypeOK
  BY DEF TypeInv
<1> QED
  BY <1>1, TypeInvariant, PTL

\* The temporary files left in a bundle never outnumber the killed requests.
THEOREM NoTempsLeaked == Spec => []NoLeakedTemps
<1>1. TypeInv => NoLeakedTemps
  BY DEF TypeInv, TypeOK, TempInv, NoLeakedTemps, Idle
<1> QED
  BY <1>1, TypeInvariant, PTL

(***************************************************************************)
(* The allocation-only mode keeps the engine's grants.  An invariant about *)
(* the current host alone is not inductive: a spec that grants what the    *)
(* engine granted must do so on every host there may be, and the spec in   *)
(* memory must do it while it is edited.                                   *)
(***************************************************************************)
SameGrants(s, o) ==
  /\ AcceleratorDevices(s) = AcceleratorDevices(o)
  /\ \A h \in Host : AcceleratorAccess(s, h) = AcceleratorAccess(o, h)

GrantInv ==
  ~cfg.allowEnv /\ origin # NoSpec =>
     /\ disk # NoSpec /\ SameGrants(disk, origin)
     /\ pc \in Running \ {"exec"} => SameGrants(mem, origin)
     /\ pc # "accelerators"

\* Specs with the same nodes and rules have the same grants.
LEMMA SameNodesSameGrants ==
  ASSUME NEW s, NEW t, NEW o, t.devices = s.devices, t.rules = s.rules, SameGrants(s, o)
  PROVE  SameGrants(t, o)
BY DEF SameGrants, AcceleratorDevices, AcceleratorAccess

\* A rule behind the others leaves the access to a device it does not name alone.
LEMMA AppendOtherRule ==
  ASSUME NEW rules \in Seq(Rule), NEW r \in Rule, NEW dev, dev \notin r.devs, NEW access
  PROVE  Granted(Append(rules, r), dev, access) <=> Granted(rules, dev, access)
<1> DEFINE n == Len(rules)
<1> DEFINE more == Append(rules, r)
<1>1. n \in Nat /\ DOMAIN rules = 1..n /\ DOMAIN more = 1..(n+1)
  OBVIOUS
<1>2. more[n+1] = r /\ \A i \in 1..n : more[i] = rules[i]
  OBVIOUS
<1>3. ~RuleApplies(more[n+1], dev, access)
  BY <1>2 DEF RuleApplies
<1> HIDE DEF n, more
<1>4. ASSUME Granted(rules, dev, access) PROVE Granted(more, dev, access)
  <2>1. PICK i \in 1..n : /\ RuleApplies(rules[i], dev, access) /\ rules[i].allow
                          /\ \A j \in 1..n : j > i => ~RuleApplies(rules[j], dev, access)
    BY <1>1, <1>4 DEF Granted
  <2>2. \A j \in 1..(n+1) : j > i => ~RuleApplies(more[j], dev, access)
    BY <1>1, <1>2, <1>3, <2>1
  <2> QED
    BY <1>1, <1>2, <2>1, <2>2 DEF Granted
<1>5. ASSUME Granted(more, dev, access) PROVE Granted(rules, dev, access)
  <2>1. PICK i \in 1..(n+1) :
              /\ RuleApplies(more[i], dev, access) /\ more[i].allow
              /\ \A j \in 1..(n+1) : j > i => ~RuleApplies(more[j], dev, access)
    BY <1>1, <1>5 DEF Granted
  <2>2. i \in 1..n
    BY <1>1, <1>3, <2>1
  <2>3. \A j \in 1..n : j \in 1..(n+1) /\ more[j] = rules[j]
    BY <1>1, <1>2
  <2> QED
    BY <1>1, <2>1, <2>2, <2>3 DEF Granted
<1> QED
  BY <1>4, <1>5 DEF more

\* Adding uverbs nodes changes no grant of an accelerator: their paths and, with
\* majors of their own, their numbers are none of an accelerator's.
LEMMA UverbsKeepGrants ==
  ASSUME NEW s \in OciSpec, NEW h \in Host, NEW ids \in SUBSET Accel, NEW o, SameGrants(s, o)
  PROVE  SameGrants(AddNodes(s, NodesOf("uverb", h.uverb, ids)), o)
<1> DEFINE nodes == NodesOf("uverb", h.uverb, ids)
<1> DEFINE t == AddDevicesToSpec(s, nodes)
<1> DEFINE new == {n.dev : n \in nodes}
                  \ UNION {r.devs : r \in {x \in Elems(t.rules) : x.exact}}
<1> DEFINE rule == [allow |-> TRUE, type |-> "c", exact |-> TRUE,
                    devs |-> new, access |-> Access]
<1> DEFINE u == AddNodes(s, nodes)
<1>1. \A n \in nodes : n.path[1] = "uverb"
  BY DEF NodesOf
<1>2. t.rules = s.rules /\ AcceleratorDevices(t) = AcceleratorDevices(s)
  <2>1. t.rules = s.rules
    BY DEF AddDevicesToSpec, OciSpec
  <2>2. t.devices = s.devices \cup {[path |-> n.path, type |-> "c", dev |-> n.dev] :
            n \in {m \in nodes : \A d \in s.devices : d.path # m.path}}
    BY DEF AddDevicesToSpec, OciSpec
  <2>3. \A d \in t.devices \ s.devices : d.path[1] = "uverb"
    BY <1>1, <2>2
  <2> QED
    BY <2>1, <2>2, <2>3 DEF AcceleratorDevices
<1>3. h.uverb \in [Accel -> Node] /\ nodes \in SUBSET [path : Path, dev : DevNum]
  BY HostType, NodesOfType DEF Inventory
<1>4. t \in OciSpec
  BY <1>3, AddDevicesType
<1>5. u = t \/ u = [t EXCEPT !.rules = Append(s.rules, rule)]
  BY <1>2, <1>4 DEF AddNodes, AddAllowList, OciSpec
<1>6. AcceleratorDevices(u) = AcceleratorDevices(s)
  BY <1>2, <1>4, <1>5 DEF AcceleratorDevices, OciSpec
<1>7. \A g \in Host, b \in Accel : g.accel[b].kind # "absent" => g.accel[b].dev \notin new
  BY MajorsDistinct DEF NodesOf
<1>8. rule \in Rule
  BY <1>3 DEF Rule, Access
<1>9. ASSUME NEW g \in Host PROVE AcceleratorAccess(u, g) = AcceleratorAccess(s, g)
  <2>1. ASSUME NEW b \in Accel, g.accel[b].kind # "absent", NEW access
        PROVE  Granted(u.rules, g.accel[b].dev, access)
               <=> Granted(s.rules, g.accel[b].dev, access)
    <3>1. g.accel[b].dev \notin rule.devs
      BY <1>7, <2>1
    <3>2. s.rules \in Seq(Rule)
      BY DEF OciSpec
    <3>3. u.rules = s.rules \/ u.rules = Append(s.rules, rule)
      BY <1>2, <1>4, <1>5 DEF OciSpec
    <3>4. Granted(Append(s.rules, rule), g.accel[b].dev, access)
          <=> Granted(s.rules, g.accel[b].dev, access)
      <4> HIDE DEF rule
      <4> QED
        BY <1>8, <3>1, <3>2, AppendOtherRule
    <3> HIDE DEF u, rule
    <3> QED
      BY <3>3, <3>4
  <2> HIDE DEF u
  <2> QED
    BY <2>1 DEF AcceleratorAccess
<1> QED
  BY <1>6, <1>9 DEF SameGrants

LEMMA GrantInit == Init => GrantInv
BY DEF Init, GrantInv, SameGrants, Running

\* Only addUverbsDevices adds nodes or rules when the environment grants nothing.
LEMMA GrantNext == TypeInv /\ GrantInv /\ [Next]_vars => GrantInv'
<1> SUFFICES ASSUME TypeInv, GrantInv, [Next]_vars, ~cfg'.allowEnv, origin' # NoSpec
             PROVE  /\ disk' # NoSpec /\ SameGrants(disk', origin')
                    /\ pc' \in Running \ {"exec"} => SameGrants(mem', origin')
                    /\ pc' # "accelerators"
  BY DEF GrantInv
<1>0. cfg' = cfg /\ origin' = origin
  BY DEF Next, Request, EditSpec, NetworkFiles, SaveSpecs, Create, Resolve, AddPrestartHook,
     AddAcceleratorDevices, AddModuleIDs, AddUverbsDevices, AddCreateRuntimeHook,
     GenerateNetinfo, CopyGaudinet, CreateTemp, WriteTemp, RenameTemp, SaveFails, ExecRunc,
     Kill, HostChange, Fail, Continue, PutAside, Written, vars, history
<1>1. /\ ~cfg.allowEnv /\ origin # NoSpec /\ disk # NoSpec /\ SameGrants(disk, origin)
      /\ pc \in Running \ {"exec"} => SameGrants(mem, origin)
      /\ pc # "accelerators"
  BY <1>0 DEF GrantInv
<1>2. pc \in Running \ {"exec"} => mem \in OciSpec
  BY DEF TypeInv, TypeOK
<1>3. CASE Create
  BY <1>0, <1>1, <1>3 DEF Create, AfterLoad, bundle
<1>4. CASE Resolve
  BY <1>0, <1>1, <1>4 DEF Resolve, FirstEdit, Running, bundle
<1>6. CASE AddPrestartHook
  <2>1. /\ mem'.devices = mem.devices /\ mem'.rules = mem.rules /\ disk' = disk
        /\ pc' # "accelerators"
    BY <1>2, <1>6 DEF AddPrestartHook, Fail, Continue, OciSpec, Running, bundle
  <2> QED
    BY <1>0, <1>1, <1>6, <2>1, SameNodesSameGrants DEF AddPrestartHook, Running
<1>7. CASE AddAcceleratorDevices
  BY <1>1, <1>7 DEF AddAcceleratorDevices
<1>8. CASE AddModuleIDs
  <2>1. /\ mem'.devices = mem.devices /\ mem'.rules = mem.rules /\ disk' = disk
        /\ pc' # "accelerators"
    BY <1>2, <1>8 DEF AddModuleIDs, AddEnvVar, Fail, Continue, OciSpec, Running, bundle
  <2> QED
    BY <1>0, <1>1, <1>8, <2>1, SameNodesSameGrants DEF AddModuleIDs, Running
<1>9. CASE AddUverbsDevices
  <2>1. /\ disk' = disk /\ pc' # "accelerators" /\ pc = "uverbs"
        /\ mem' \in {mem, AddNodes(mem, NodesOf("uverb", host.uverb, req))}
    BY <1>9 DEF AddUverbsDevices, Fail, Continue, bundle
  <2>2. mem \in OciSpec /\ SameGrants(mem, origin) /\ host \in Host /\ req \in SUBSET Accel
    BY <1>1, <1>2, <2>1 DEF TypeInv, TypeOK, Running
  <2>3. SameGrants(AddNodes(mem, NodesOf("uverb", host.uverb, req)), origin)
    BY <2>2, UverbsKeepGrants
  <2> QED
    BY <1>0, <1>1, <2>1, <2>2, <2>3
<1>10. CASE AddCreateRuntimeHook
  <2>1. /\ mem'.devices = mem.devices /\ mem'.rules = mem.rules /\ disk' = disk
        /\ pc' # "accelerators"
    BY <1>2, <1>10 DEF AddCreateRuntimeHook, Fail, Continue, OciSpec, Running, bundle
  <2> QED
    BY <1>0, <1>1, <1>10, <2>1, SameNodesSameGrants DEF AddCreateRuntimeHook, Running
<1>11. CASE NetworkFiles
  <2>1. /\ mem'.devices = mem.devices /\ mem'.rules = mem.rules /\ disk' = disk
        /\ pc' # "accelerators" /\ pc \in {"netinfo", "gaudinet"}
    BY <1>2, <1>11 DEF NetworkFiles, GenerateNetinfo, CopyGaudinet, Written, PutAside,
       AddErrorEnvVar, AddEnvVar, OciSpec, Running, bundle
  <2> QED
    BY <1>0, <1>1, <2>1, SameNodesSameGrants DEF Running
<1>12. CASE CreateTemp \/ WriteTemp \/ SaveFails
  BY <1>0, <1>1, <1>12 DEF CreateTemp, WriteTemp, SaveFails, Continue, Running, bundle
<1>13. CASE RenameTemp
  BY <1>0, <1>1, <1>2, <1>13, ParametersTyped DEF RenameTemp, Running
<1>14. CASE ExecRunc
  BY <1>0, <1>1, <1>14 DEF ExecRunc, Continue, Running, bundle
<1>15. CASE Kill
  BY <1>0, <1>1, <1>15 DEF Kill, Running, bundle
<1>16. CASE HostChange
  BY <1>0, <1>1, <1>16 DEF HostChange, bundle, runVars
<1>17. CASE UNCHANGED vars
  BY <1>0, <1>1, <1>17 DEF vars, bundle, runVars
<1> QED
  BY <1>3, <1>4, <1>6, <1>7, <1>8, <1>9, <1>10, <1>11, <1>12, <1>13, <1>14, <1>15, <1>16,
     <1>17
  DEF Next, Request, EditSpec, SaveSpecs

\* Where the environment grants nothing, no sequence of create requests, crashes
\* and changes of the host makes the runtime add accelerator nodes to a bundle or
\* change the access to accelerators, for any bundle the engine may prepare.
THEOREM GrantsArePreserved == Spec => []GrantsPreserved
<1>1. TypeInv /\ GrantInv => GrantsPreserved
  BY DEF TypeInv, TypeOK, GrantInv, SameGrants, GrantsPreserved
<1> QED
  BY <1>1, TypeInvariant, GrantInit, GrantNext, PTL DEF Spec

(***************************************************************************)
(* Errors and network files: an error that Runtime puts aside shows in the *)
(* environment of the bundle it hands over, and without one                *)
(* macAddrInfo.json is that of the request.                                *)
(***************************************************************************)
ErrorVar(s) == s.env["ERROR"]

\* The spec tells of an error if one was put aside or the spec loaded told of one.
Reported(s) == ErrorVar(s) # <<>> <=> ErrorVar(loaded) # <<>> \/ errs # <<>>

BeforeFiles == {"resolve", "prestart", "accelerators", "modules", "uverbs", "createRuntime",
                "netinfo"}
AfterMac    == {"gaudinet", "save", "write", "rename"}

Listed(s) == files.mac = req \/ ErrorVar(s) # <<>>

\* What the two properties say of config.json at the exec, said of the spec in
\* memory before, from the moment the network files are written.
ErrInv ==
  /\ pc \in BeforeFiles => errs = <<>>
  /\ pc \in Running \ {"exec"} => Reported(mem)
  /\ pc = "exec" /\ req # {} => Reported(disk)

MacInv ==
  /\ pc = "prestart" => cfg.mode = "legacy"
  /\ cfg.mode = "oci" /\ pc \in AfterMac => Listed(mem)
  /\ cfg.mode = "oci" /\ pc = "exec" /\ req # {} => Listed(disk)

ReportInv == ErrInv /\ MacInv

\* Nodes and hooks are not in the environment.
LEMMA AddNodesEnv ==
  ASSUME NEW s \in OciSpec, NEW nodes \in SUBSET [path : Path, dev : DevNum]
  PROVE  AddNodes(s, nodes).env = s.env
<1>1. AddDevicesToSpec(s, nodes) \in OciSpec /\ AddDevicesToSpec(s, nodes).env = s.env
  BY AddDevicesType DEF AddDevicesToSpec, OciSpec
<1> QED
  BY <1>1 DEF AddNodes, AddAllowList, OciSpec

\* The module ids do not touch the error (addEnvVar).
LEMMA ModulesKeepError ==
  ASSUME NEW s \in OciSpec, NEW value
  PROVE  ErrorVar(AddEnvVar(s, "MODULES", value)) = ErrorVar(s)
<1>1. AddEnvVar(s, "MODULES", value).env = [s.env EXCEPT !["MODULES"] = <<value>>]
  BY DEF AddEnvVar, OciSpec
<1> QED
  BY <1>1 DEF ErrorVar, OciSpec, Env, EnvKeys, SelectionKeys

\* Afterwards there is an error (addErrorEnvVar).
LEMMA ErrorAdded ==
  ASSUME NEW s \in OciSpec, NEW msg \in Message
  PROVE  ErrorVar(AddErrorEnvVar(s, msg)) # <<>>
<1> DEFINE value == [form |-> "list", toks |-> {msg}]
<1>1. AddEnvVar(s, "ERROR", value).env = [s.env EXCEPT !["ERROR"] = <<value>>]
  BY DEF AddEnvVar, OciSpec
<1>2. ErrorVar(AddEnvVar(s, "ERROR", value)) = <<value>>
  <2> HIDE DEF value
  <2> QED
    BY <1>1 DEF ErrorVar, OciSpec, Env, EnvKeys
<1> HIDE DEF value
<1>3. <<value>> # <<>>
  OBVIOUS
<1> QED
  BY <1>2, <1>3 DEF AddErrorEnvVar, ErrorVar, value

LEMMA ReportInit == Init => ReportInv
BY DEF Init, ReportInv, ErrInv, MacInv, BeforeFiles, AfterMac, Running

\* The edits of the spec leave the errors alone, the network files put them
\* aside, and saveSpecs hands over what is in memory.
LEMMA ReportNext == TypeInv /\ ReportInv /\ [Next]_vars => ReportInv'
<1> SUFFICES ASSUME TypeInv, ReportInv, [Next]_vars PROVE ReportInv'
  OBVIOUS
<1> USE DEF ReportInv, ErrInv, MacInv
<1>0. pc \in Running \ {"exec"} => mem \in OciSpec
  BY DEF TypeInv, TypeOK
<1>h. host \in Inventory /\ req \in SUBSET Accel /\ errs \in Seq(Message)
  BY HostType DEF TypeInv, TypeOK
<1>i. ASSUME pc' \in Idle PROVE ReportInv'
  BY <1>i DEF Idle, BeforeFiles, AfterMac, Running
<1>k. ASSUME pc \in BeforeFiles, pc' \in BeforeFiles \cup {"save"}, pc' = "prestart" => cfg.mode = "legacy",
             pc' = "save" => pc = "prestart", ErrorVar(mem') = ErrorVar(mem),
             UNCHANGED <<cfg, errs, loaded>>
      PROVE  ReportInv'
  BY <1>k DEF Reported, Running, BeforeFiles, AfterMac
<1>1. CASE Create
  <2>1. /\ pc' \in {"exec", "failed", "resolve"} /\ errs' = <<>> /\ req' = {} /\ mem' = loaded'
    BY <1>1 DEF Create, AfterLoad
  <2> QED
    BY <2>1 DEF Reported, BeforeFiles, AfterMac, Running
<1>2. CASE Resolve
  <2>1. /\ pc = "resolve" /\ UNCHANGED <<cfg, mem, errs, loaded>>
        /\ pc' \in {"rejected", "exec", "failed", "prestart", "accelerators", "modules"}
        /\ pc' = "prestart" => cfg.mode = "legacy"
        /\ pc' = "exec" => req' = {}
    BY <1>2 DEF Resolve, FirstEdit, history
  <2>2. errs = <<>>
    BY <2>1 DEF BeforeFiles
  <2>3. CASE pc' = "exec"
    BY <2>1, <2>2, <2>3 DEF BeforeFiles, AfterMac, Running
  <2> QED
    BY <1>i, <1>k, <2>1, <2>3 DEF BeforeFiles, Idle
<1>3. CASE EditSpec
  <2> USE DEF Fail, Continue, history, BeforeFiles, Idle
  <2>m. pc \in BeforeFiles \ {"resolve", "netinfo"} /\ mem \in OciSpec
    BY <1>0, <1>3 DEF EditSpec, AddPrestartHook, AddAcceleratorDevices, AddModuleIDs,
                      AddUverbsDevices, AddCreateRuntimeHook, Running
  <2>1. CASE AddPrestartHook
    <3>1. [mem EXCEPT !.prestart = AddHook(@, req)].env = mem.env
      BY <2>m DEF OciSpec
    <3> QED
      BY <1>i, <1>k, <2>1, <3>1 DEF AddPrestartHook, ErrorVar
  <2>2. CASE AddAcceleratorDevices
    <3>1. NodesOf("accel", host.accel, req) \cup NodesOf("control", host.control, req)
            \in SUBSET [path : Path, dev : DevNum]
      BY <1>h, NodesOfType DEF Inventory
    <3> QED
      BY <1>i, <1>k, <2>m, <2>2, <3>1, AddNodesEnv DEF AddAcceleratorDevices, ErrorVar
  <2>3. CASE AddModuleIDs
    BY <1>i, <1>k, <2>m, <2>3, ModulesKeepError DEF AddModuleIDs
  <2>4. CASE AddUverbsDevices
    <3>1. NodesOf("uverb", host.uverb, req) \in SUBSET [path : Path, dev : DevNum]
      BY <1>h, NodesOfType DEF Inventory
    <3> QED
      BY <1>i, <1>k, <2>m, <2>4, <3>1, AddNodesEnv DEF AddUverbsDevices, ErrorVar
  <2>5. CASE AddCreateRuntimeHook
    <3>1. [mem EXCEPT !.createRuntime = AddHook(@, req)].env = mem.env
      BY <2>m DEF OciSpec
    <3> QED
      BY <1>i, <1>k, <2>5, <3>1 DEF AddCreateRuntimeHook, ErrorVar
  <2> QED
    BY <1>3, <2>1, <2>2, <2>3, <2>4, <2>5 DEF EditSpec
<1>4. CASE NetworkFiles
  <2>1. /\ pc \in {"netinfo", "gaudinet"} /\ pc' \in {"gaudinet", "save"} /\ mem \in OciSpec
        /\ pc = "gaudinet" <=> pc' = "save"
        /\ UNCHANGED <<cfg, req, loaded>>
    BY <1>0, <1>4 DEF NetworkFiles, GenerateNetinfo, CopyGaudinet, PutAside, Written, history,
                      Running
  <2>2. ASSUME NEW msg \in Message, mem' = AddErrorEnvVar(mem, msg), errs' = Append(errs, msg)
        PROVE  ReportInv'
    <3>1. errs' # <<>>
      BY <1>h, <2>2
    <3>2. ErrorVar(mem') # <<>>
      BY <2>1, <2>2, ErrorAdded
    <3> QED
      BY <2>1, <3>1, <3>2 DEF Reported, Listed, BeforeFiles, ErrorVar
  <2>3. ASSUME UNCHANGED <<mem, errs>>, pc = "netinfo" => files'.mac = req,
               pc = "gaudinet" => files'.mac = files.mac
        PROVE  ReportInv'
    BY <2>1, <2>3 DEF Reported, Listed, BeforeFiles, AfterMac, Running
  <2>4. files \in [mac : SUBSET Accel, gaudinet : BOOLEAN]
    BY DEF TypeInv, TypeOK
  <2>5. CASE GenerateNetinfo
    BY <2>2, <2>3, <2>4, <2>5 DEF GenerateNetinfo, PutAside, Written, Message
  <2>6. CASE CopyGaudinet
    BY <2>2, <2>3, <2>4, <2>6 DEF CopyGaudinet, PutAside, Written, Message
  <2> QED
    BY <1>4, <2>5, <2>6 DEF NetworkFiles
<1>5. CASE CreateTemp \/ WriteTemp
  <2>1. /\ pc \in {"save", "write"} /\ pc' \in {"write", "rename"}
        /\ UNCHANGED <<cfg, files, mem, req, errs, loaded>>
    BY <1>5 DEF CreateTemp, WriteTemp, Continue, bundle, history
  <2> QED
    BY <2>1 DEF Reported, Listed, BeforeFiles, AfterMac, Running
<1>6. CASE RenameTemp
  <2>1. /\ pc = "rename" /\ pc' = "exec" /\ disk' = mem
        /\ UNCHANGED <<cfg, files, mem, req, errs, loaded>>
    BY <1>6 DEF RenameTemp
  <2> QED
    BY <2>1 DEF Reported, Listed, BeforeFiles, AfterMac, Running
<1>7. CASE SaveFails \/ ExecRunc \/ Kill
  BY <1>i, <1>7 DEF SaveFails, ExecRunc, Continue, Kill, Idle
<1>8. CASE HostChange \/ UNCHANGED vars
  <2>1. UNCHANGED <<cfg, disk, files, pc, mem, req, errs, loaded>>
    BY <1>8 DEF HostChange, vars, bundle, runVars, history
  <2> QED
    BY <2>1 DEF Reported, Listed
<1> QED
  BY <1>1, <1>2, <1>3, <1>4, <1>5, <1>6, <1>7, <1>8 DEF Next, Request, SaveSpecs

LEMMA ReportInvariant == Spec => []ReportInv
BY TypeInvariant, ReportInit, ReportNext, PTL DEF Spec

\* A container learns that there was an error exactly if the request that handed
\* it over put one aside or an earlier one had, for any bundle, host and
\* configuration; of several errors it learns of one.
THEOREM ErrorsAreVisible == Spec => []ErrorsVisible
<1>1. ReportInv => ErrorsVisible
  BY DEF ReportInv, ErrInv, Reported, ErrorVar, ErrorsVisible
<1> QED
  BY <1>1, ReportInvariant, PTL

\* A container gets the macAddrInfo.json of its own devices, or learns of an
\* error, whatever earlier requests on its root filesystem have left.
THEOREM MacIsOfSelection == Spec => []MacMatchesSelection
<1>1. ReportInv => MacMatchesSelection
  BY DEF ReportInv, MacInv, Listed, ErrorVar, MacMatchesSelection
<1> QED
  BY <1>1, ReportInvariant, PTL

-----------------------------------------------------------------------------
(***************************************************************************)
(* Runtime implements BundleConfig: whatever the host does and wherever a  *)
(* request fails or is killed, config.json is left alone or replaced in    *)
(* one step by a spec that adds one selection to it.                       *)
(***************************************************************************)

(***************************************************************************)
(* The edits add to a spec and keep what BundleConfig asks to be kept.     *)
(***************************************************************************)
\* addDevicesToSpec and addAllowList add nodes of the given accelerators and
\* rules behind the old ones.
LEMMA AddNodesExtends ==
  ASSUME NEW old \in OciSpec, NEW s \in OciSpec, NEW ids \in SUBSET Accel,
         NEW nodes \in SUBSET [path : Path, dev : DevNum],
         \A n \in nodes : n.path[2] \in ids,
         Contract!NodesExtended(old, s, ids)
  PROVE  /\ Contract!NodesExtended(old, AddNodes(s, nodes), ids)
         /\ AddNodes(s, nodes).prestart = s.prestart
         /\ AddNodes(s, nodes).createRuntime = s.createRuntime
         /\ AddNodes(s, nodes).env = s.env
<1> DEFINE t == AddDevicesToSpec(s, nodes)
<1> DEFINE new == {n.dev : n \in nodes}
                  \ UNION {r.devs : r \in {x \in Elems(t.rules) : x.exact}}
<1> DEFINE rule == [allow |-> TRUE, type |-> "c", exact |-> TRUE,
                    devs |-> new, access |-> Access]
<1> DEFINE u == AddNodes(s, nodes)
<1>1. t \in OciSpec
  BY AddDevicesType
<1>2. /\ t.rules = s.rules /\ t.env = s.env /\ t.prestart = s.prestart
      /\ t.createRuntime = s.createRuntime /\ t.process = s.process /\ t.root = s.root
      /\ t.privileged = s.privileged
      /\ t.devices = s.devices \cup {[path |-> n.path, type |-> "c", dev |-> n.dev] :
            n \in {m \in nodes : \A d \in s.devices : d.path # m.path}}
  BY DEF AddDevicesToSpec, OciSpec
<1>3. u = t \/ u = [t EXCEPT !.rules = Append(s.rules, rule)]
  BY <1>2 DEF AddNodes, AddAllowList
<1>4. /\ u.env = t.env /\ u.prestart = t.prestart /\ u.createRuntime = t.createRuntime
      /\ u.process = t.process /\ u.root = t.root /\ u.privileged = t.privileged
      /\ u.devices = t.devices /\ u.rules \in {s.rules, Append(s.rules, rule)}
  BY <1>1, <1>2, <1>3 DEF OciSpec
<1> HIDE DEF u, t
<1>5. \A d \in u.devices \ s.devices : d.type = "c" /\ d.path[2] \in ids
  BY <1>2, <1>4
<1>6. Contract!RulesExtended(old.rules, u.rules)
  <2>1. s.rules \in Seq(Rule) /\ old.rules \in Seq(Rule) /\ rule.allow /\ rule.exact
    BY DEF OciSpec
  <2>2. Contract!RulesExtended(old.rules, s.rules)
    BY DEF Contract!NodesExtended
  <2> HIDE DEF rule
  <2>3. Contract!RulesExtended(old.rules, Append(s.rules, rule))
    BY <2>1, <2>2 DEF Contract!RulesExtended
  <2> QED
    BY <1>4, <2>2, <2>3
<1>7. Contract!NodesExtended(old, u, ids)
  BY <1>2, <1>4, <1>5, <1>6 DEF Contract!NodesExtended
<1> QED
  BY <1>2, <1>4, <1>7 DEF u

\* addPrestartHook and addCreateRuntimeHook leave a hook for the devices in the
\* list and the hooks of other programs where they were.
LEMMA AddHookKeeps ==
  ASSUME NEW hooks \in Seq(Hook), NEW ids \in SUBSET Accel
  PROVE  /\ Contract!HasHook(AddHook(hooks, ids), ids)
         /\ Contract!OthersKept(hooks, AddHook(hooks, ids))
<1> DEFINE hook == [habana |-> TRUE, devs |-> ids]
<1> DEFINE n == Len(hooks)
<1>1. n \in Nat /\ DOMAIN hooks = 1..n
  OBVIOUS
<1>2. CASE \E i \in DOMAIN hooks : hooks[i].habana
  <2> DEFINE new == [i \in DOMAIN hooks |-> IF hooks[i].habana THEN hook ELSE hooks[i]]
  <2>1. AddHook(hooks, ids) = new
    BY <1>2 DEF AddHook
  <2>2. Len(new) = n
    BY <1>1, LenProperties, AddHookType, <2>1
  <2> QED
    BY <1>1, <1>2, <2>1, <2>2 DEF Contract!HasHook, Contract!OthersKept
<1>3. CASE ~ \E i \in DOMAIN hooks : hooks[i].habana
  <2>1. AddHook(hooks, ids) = Append(hooks, hook)
    BY <1>3 DEF AddHook
  <2> DEFINE new == Append(hooks, hook)
  <2>2. /\ Len(new) = n + 1 /\ DOMAIN new = 1..(n+1) /\ new[n+1] = hook
        /\ \A i \in 1..n : new[i] = hooks[i]
    OBVIOUS
  <2> HIDE DEF new
  <2>3. Contract!HasHook(new, ids)
    BY <1>1, <2>2 DEF Contract!HasHook
  <2>4. Contract!OthersKept(hooks, new)
    BY <1>1, <2>2 DEF Contract!OthersKept
  <2> QED
    BY <2>1, <2>3, <2>4 DEF new
<1> QED
  BY <1>2, <1>3

(***************************************************************************)
(* What is known of the spec in memory at each place of handleRequest.     *)
(***************************************************************************)
Edited(s) ==
  /\ Contract!NodesExtended(disk, s, req)
  /\ s.prestart = disk.prestart /\ s.createRuntime = disk.createRuntime

EditInv ==
  /\ pc \in Running \ {"exec"} => disk # NoSpec
  /\ pc \in Running \ {"exec", "resolve"} => req # {}
  /\ pc \in {"resolve", "prestart", "accelerators"} => mem = disk
  /\ pc \in {"modules", "uverbs", "createRuntime"} => Edited(mem)
  /\ pc \in {"uverbs", "createRuntime"} => Len(mem.env["MODULES"]) = 1
  /\ pc \in {"netinfo", "gaudinet"} => Contract!OciConfigures(disk, mem, req)
  /\ pc \in {"save", "write", "rename"} => Contract!Configures(disk, mem, req)

\* A spec extends itself.
LEMMA SelfExtends ==
  ASSUME NEW s \in OciSpec, NEW ids
  PROVE  Contract!NodesExtended(s, s, ids)
BY DEF Contract!NodesExtended, Contract!RulesExtended

\* Setting a generated variable is not restricted.
LEMMA AddEnvVarExtends ==
  ASSUME NEW old \in OciSpec, NEW s \in OciSpec, NEW ids, NEW key \in {"MODULES", "ERROR"},
         NEW value, Contract!NodesExtended(old, s, ids)
  PROVE  /\ Contract!NodesExtended(old, AddEnvVar(s, key, value), ids)
         /\ AddEnvVar(s, key, value).prestart = s.prestart
         /\ AddEnvVar(s, key, value).createRuntime = s.createRuntime
         /\ AddEnvVar(s, key, value).env = [s.env EXCEPT ![key] = <<value>>]
<1> DEFINE t == AddEnvVar(s, key, value)
<1>1. /\ t.prestart = s.prestart /\ t.createRuntime = s.createRuntime
      /\ t.process = s.process /\ t.root = s.root /\ t.privileged = s.privileged
      /\ t.devices = s.devices /\ t.rules = s.rules
      /\ t.env = [s.env EXCEPT ![key] = <<value>>]
  BY DEF AddEnvVar, OciSpec
<1>2. \A k \in EnvKeys \ {"MODULES", "ERROR"} : t.env[k] = s.env[k]
  BY <1>1 DEF OciSpec, Env
<1> HIDE DEF t
<1>3. Contract!NodesExtended(old, t, ids)
  BY <1>1, <1>2 DEF Contract!NodesExtended
<1> QED
  BY <1>1, <1>3 DEF t

LEMMA EditInit == Init => EditInv
BY DEF Init, EditInv, Running

\* Each edit establishes what is known at the next place.
LEMMA EditNext == TypeInv /\ EditInv /\ [Next]_vars => EditInv'
<1> SUFFICES ASSUME TypeInv, EditInv, [Next]_vars PROVE EditInv'
  OBVIOUS
<1>0. pc \in Running \ {"exec"} => mem \in OciSpec /\ disk \in OciSpec /\ disk # NoSpec
  BY DEF TypeInv, TypeOK, EditInv
<1>h. host \in Inventory /\ req \in SUBSET Accel
  BY HostType DEF TypeInv, TypeOK
<1>1. CASE pc' \in Idle \cup {"exec"}
  BY <1>1 DEF EditInv, Idle, Running
<1>2. CASE Create
  BY <1>2 DEF Create, AfterLoad, EditInv, Edited, Running, bundle
<1>3. CASE Resolve /\ pc' \in Running \ {"exec"}
  <2>1. /\ pc = "resolve" /\ req' # {} /\ mem' = mem /\ disk' = disk
        /\ pc' \in {"prestart", "accelerators", "modules"}
    BY <1>3 DEF Resolve, FirstEdit, Running, bundle
  <2>2. mem = disk /\ disk \in OciSpec /\ disk # NoSpec
    BY <1>0, <2>1 DEF EditInv, Running
  <2>3. Edited(mem)'
    BY <2>1, <2>2, SelfExtends DEF Edited
  <2> QED
    BY <2>1, <2>2, <2>3 DEF EditInv
<1>4. CASE AddPrestartHook /\ pc' \in Running \ {"exec"}
  <2> DEFINE hooks == AddHook(disk.prestart, req)
  <2>1. /\ pc = "prestart" /\ pc' = "save" /\ req' = req /\ disk' = disk
        /\ mem = disk /\ mem' = [mem EXCEPT !.prestart = AddHook(@, req)]
    BY <1>4 DEF AddPrestartHook, Fail, Continue, EditInv, Running, bundle
  <2>2. disk \in OciSpec /\ req # {}
    BY <1>0, <2>1 DEF EditInv, Running
  <2>3. mem' = [disk EXCEPT !.prestart = hooks] /\ mem'.prestart = hooks
    BY <2>1, <2>2 DEF OciSpec
  <2>4. Contract!HasHook(hooks, req) /\ Contract!OthersKept(disk.prestart, hooks)
    BY <1>h, <2>2, AddHookKeeps DEF OciSpec
  <2>5. Contract!LegacyConfigures(disk, mem', req)
    BY <2>3, <2>4 DEF Contract!LegacyConfigures
  <2> QED
    BY <1>0, <2>1, <2>2, <2>5 DEF EditInv, Contract!Configures, Running
<1>5. CASE AddAcceleratorDevices /\ pc' \in Running \ {"exec"}
  <2> DEFINE nodes == NodesOf("accel", host.accel, req)
                      \cup NodesOf("control", host.control, req)
  <2>1. /\ pc = "accelerators" /\ pc' = "modules" /\ req' = req /\ disk' = disk
        /\ mem = disk /\ mem' = AddNodes(mem, nodes)
    BY <1>5 DEF AddAcceleratorDevices, Fail, Continue, EditInv, Running, bundle
  <2>2. disk \in OciSpec /\ disk # NoSpec /\ req # {}
    BY <1>0, <2>1 DEF EditInv, Running
  <2>3. nodes \in SUBSET [path : Path, dev : DevNum]
    BY <1>h, NodesOfType DEF Inventory
  <2>4. \A n \in nodes : n.path[2] \in req
    BY DEF NodesOf
  <2> HIDE DEF nodes
  <2>5. Edited(mem)'
    BY <1>h, <2>1, <2>2, <2>3, <2>4, SelfExtends, AddNodesExtends DEF Edited
  <2> QED
    BY <2>1, <2>2, <2>5 DEF EditInv
<1>6. CASE AddModuleIDs /\ pc' \in Running \ {"exec"}
  <2>1. /\ pc = "modules" /\ pc' \in {"uverbs", "createRuntime"} /\ req' = req /\ disk' = disk
        /\ mem' = AddEnvVar(mem, "MODULES", JoinModules(req, host))
    BY <1>6 DEF AddModuleIDs, Fail, Continue, Running, bundle
  <2>2. disk \in OciSpec /\ disk # NoSpec /\ req # {} /\ mem \in OciSpec /\ Edited(mem)
    BY <1>0, <2>1 DEF EditInv, Running
  <2>3. Edited(mem)' /\ mem'.env = [mem.env EXCEPT !["MODULES"] = <<JoinModules(req, host)>>]
    BY <2>1, <2>2, AddEnvVarExtends DEF Edited
  <2>4. Len(mem'.env["MODULES"]) = 1
    BY <2>2, <2>3 DEF OciSpec, Env, EnvKeys, SelectionKeys
  <2> QED
    BY <2>1, <2>2, <2>3, <2>4 DEF EditInv
<1>7. CASE AddUverbsDevices /\ pc' \in Running \ {"exec"}
  <2> DEFINE nodes == NodesOf("uverb", host.uverb, req)
  <2>1. /\ pc = "uverbs" /\ pc' = "createRuntime" /\ req' = req /\ disk' = disk
        /\ mem' = AddNodes(mem, nodes)
    BY <1>7 DEF AddUverbsDevices, Fail, Continue, Running, bundle
  <2>2. /\ disk \in OciSpec /\ disk # NoSpec /\ req # {} /\ mem \in OciSpec /\ Edited(mem)
        /\ Len(mem.env["MODULES"]) = 1
    BY <1>0, <2>1 DEF EditInv, Running
  <2>3. nodes \in SUBSET [path : Path, dev : DevNum]
    BY <1>h, NodesOfType DEF Inventory
  <2>4. \A n \in nodes : n.path[2] \in req
    BY DEF NodesOf
  <2> HIDE DEF nodes
  <2>5. Edited(mem)' /\ mem'.env = mem.env
    BY <1>h, <2>1, <2>2, <2>3, <2>4, AddNodesExtends DEF Edited
  <2> QED
    BY <2>1, <2>2, <2>5 DEF EditInv
<1>8. CASE AddCreateRuntimeHook /\ pc' \in Running \ {"exec"}
  <2> DEFINE hooks == AddHook(mem.createRuntime, req)
  <2>1. /\ pc = "createRuntime" /\ pc' = "netinfo" /\ req' = req /\ disk' = disk
        /\ mem' = [mem EXCEPT !.createRuntime = AddHook(@, req)]
    BY <1>8 DEF AddCreateRuntimeHook, Fail, Continue, Running, bundle
  <2>2. /\ disk \in OciSpec /\ disk # NoSpec /\ req # {} /\ mem \in OciSpec /\ Edited(mem)
        /\ Len(mem.env["MODULES"]) = 1
    BY <1>0, <2>1 DEF EditInv, Running
  <2>3. /\ mem'.createRuntime = hooks /\ mem'.prestart = mem.prestart
        /\ mem'.env = mem.env /\ mem'.devices = mem.devices /\ mem'.rules = mem.rules
        /\ mem'.process = mem.process /\ mem'.root = mem.root /\ mem'.privileged = mem.privileged
    BY <2>1, <2>2 DEF OciSpec
  <2>4. Contract!HasHook(hooks, req) /\ Contract!OthersKept(disk.createRuntime, hooks)
    BY <1>h, <2>2, AddHookKeeps DEF OciSpec, Edited
  <2>5. Contract!NodesExtended(disk, mem', req)
    BY <2>2, <2>3 DEF Edited, Contract!NodesExtended
  <2>6. Contract!OciConfigures(disk, mem', req)
    BY <2>2, <2>3, <2>4, <2>5 DEF Edited, Contract!OciConfigures
  <2> QED
    BY <2>1, <2>2, <2>6 DEF EditInv
<1>9. CASE NetworkFiles
  <2>1. /\ pc \in {"netinfo", "gaudinet"} /\ pc' \in {"gaudinet", "save"} /\ req' = req
        /\ disk' = disk /\ mem' \in {mem} \cup {AddErrorEnvVar(mem, msg) : msg \in Message}
    BY <1>9 DEF NetworkFiles, GenerateNetinfo, CopyGaudinet, PutAside, Written, Message, bundle
  <2>2. /\ disk \in OciSpec /\ disk # NoSpec /\ req # {} /\ mem \in OciSpec
        /\ Contract!OciConfigures(disk, mem, req)
    BY <1>0, <2>1 DEF EditInv, Running
  <2>3. ASSUME NEW msg \in Message
        PROVE  Contract!OciConfigures(disk, AddErrorEnvVar(mem, msg), req)
    <3> DEFINE value == [form |-> "list", toks |-> {msg}]
    <3> DEFINE t == AddEnvVar(mem, "ERROR", value)
    <3>1. CASE mem.env["ERROR"] # <<>>
      BY <2>2, <3>1 DEF AddErrorEnvVar
    <3>2. /\ Contract!NodesExtended(disk, t, req) /\ t.prestart = mem.prestart
          /\ t.createRuntime = mem.createRuntime
          /\ t.env = [mem.env EXCEPT !["ERROR"] = <<value>>]
      <4> HIDE DEF value
      <4> QED
        BY <2>2, AddEnvVarExtends DEF Contract!OciConfigures
    <3>3. t.env["MODULES"] = mem.env["MODULES"]
      BY <2>2, <3>2 DEF OciSpec, Env, EnvKeys, SelectionKeys
    <3> HIDE DEF t
    <3>4. Contract!OciConfigures(disk, t, req)
      BY <2>2, <3>2, <3>3 DEF Contract!OciConfigures
    <3> QED
      BY <3>1, <3>4 DEF AddErrorEnvVar, t
  <2>4. Contract!OciConfigures(disk, mem', req)
    BY <2>1, <2>2, <2>3
  <2> QED
    BY <2>1, <2>2, <2>4 DEF EditInv, Contract!Configures
<1>10. CASE CreateTemp \/ WriteTemp
  <2>1. /\ pc \in {"save", "write"} /\ pc' \in {"write", "rename"} /\ req' = req
        /\ disk' = disk /\ mem' = mem
    BY <1>10 DEF CreateTemp, WriteTemp, Continue, bundle
  <2> QED
    BY <2>1 DEF EditInv, Running
<1>11. CASE RenameTemp \/ SaveFails \/ ExecRunc \/ Kill
  <2>1. pc' \in Idle \cup {"exec"}
    BY <1>11 DEF RenameTemp, SaveFails, ExecRunc, Continue, Kill, Idle
  <2> QED
    BY <1>1, <2>1
<1>12. CASE HostChange \/ UNCHANGED vars
  <2>1. UNCHANGED <<pc, mem, req, disk>>
    BY <1>12 DEF HostChange, vars, bundle, runVars
  <2> QED
    BY <2>1 DEF EditInv, Edited
<1>13. Resolve \/ EditSpec => pc' \in Idle \cup Running
  BY DEF Resolve, FirstEdit, EditSpec, AddPrestartHook, AddAcceleratorDevices, AddModuleIDs,
     AddUverbsDevices, AddCreateRuntimeHook, Fail, Continue, Idle, Running
<1> QED
  BY <1>1, <1>2, <1>3, <1>4, <1>5, <1>6, <1>7, <1>8, <1>9, <1>10, <1>11, <1>12, <1>13
  DEF Next, Request, EditSpec, SaveSpecs

(***************************************************************************)
(* The refinement: saveSpecs's rename is Configure, the exits are Conclude *)
(* and the rest stutters.                                                  *)
(***************************************************************************)
\* A runtime that has not been called is a bundle in the hands of the engine.
LEMMA ContractInit == Init => Contract!Init
BY DEF Init, Contract!Init

\* Every step of the runtime is a step of the contract or changes neither
\* config.json nor what has become of the request.
LEMMA ContractNext ==
  TypeInv /\ EditInv /\ [Next]_vars =>
    [Contract!Next]_<<disk, IF pc = "idle" THEN "idle"
                            ELSE IF pc \in {"exec", "runc"} THEN "handed"
                            ELSE IF pc \in Running THEN "working" ELSE "refused">>
<1> DEFINE state == IF pc = "idle" THEN "idle"
                    ELSE IF pc \in {"exec", "runc"} THEN "handed"
                    ELSE IF pc \in Running THEN "working" ELSE "refused"
<1> SUFFICES ASSUME TypeInv, EditInv, [Next]_vars
             PROVE  [Contract!Next]_<<disk, state>>
  OBVIOUS
<1>1. CASE Create
  <2>1. /\ pc \in Idle /\ disk' = disk
        /\ pc' \in {"exec", "failed", "resolve"}
    BY <1>1 DEF Create, AfterLoad, bundle
  <2>2. state # "working" /\ state' \in {"working", "handed", "refused"}
    BY <2>1 DEF Idle, Running
  <2> QED
    BY <2>1, <2>2 DEF Contract!Next, Contract!Request
<1>2. ASSUME pc \in Running, disk' = disk, pc' \in Idle \cup Running, pc' # "idle",
             pc = "exec" => pc' \notin Running
      PROVE  [Contract!Next]_<<disk, state>>
  <2>1. state \in {"working", "handed"} /\ state' \in {"working", "handed", "refused"}
        /\ (state = "handed" => state' # "working")
    BY <1>2 DEF Idle, Running
  <2>2. state' = state \/ state' \in {"handed", "refused"}
    BY <2>1
  <2> QED
    BY <1>2, <2>1, <2>2 DEF Contract!Next, Contract!Conclude
<1>3. CASE RenameTemp
  <2>1. /\ pc = "rename" /\ pc' = "exec" /\ disk' = mem
        /\ Contract!Configures(disk, mem, req) /\ req \in SUBSET Accel
    BY <1>3 DEF RenameTemp, EditInv, TypeInv, TypeOK
  <2>2. state = "working" /\ state' = "handed"
    BY <2>1 DEF Running
  <2> QED
    BY <2>1, <2>2 DEF Contract!Next, Contract!Configure
<1>4. CASE HostChange \/ UNCHANGED vars
  BY <1>4 DEF HostChange, vars, bundle, runVars
<1>5. CASE Resolve \/ EditSpec \/ NetworkFiles \/ CreateTemp \/ WriteTemp \/ SaveFails
           \/ ExecRunc \/ Kill
  <2>1. CASE Resolve
    BY <1>2, <2>1 DEF Resolve, FirstEdit, bundle, Idle, Running
  <2>2. CASE EditSpec
    BY <1>2, <2>2 DEF EditSpec, AddPrestartHook, AddAcceleratorDevices, AddModuleIDs,
       AddUverbsDevices, AddCreateRuntimeHook, Fail, Continue, bundle, Idle, Running
  <2>3. CASE NetworkFiles
    BY <1>2, <2>3 DEF NetworkFiles, GenerateNetinfo, CopyGaudinet, Written, PutAside, bundle,
       Idle, Running
  <2>4. CASE CreateTemp \/ WriteTemp \/ SaveFails
    BY <1>2, <2>4 DEF CreateTemp, WriteTemp, SaveFails, Continue, bundle, Idle, Running
  <2>5. CASE ExecRunc \/ Kill
    BY <1>2, <2>5 DEF ExecRunc, Kill, Continue, bundle, Idle, Running
  <2> QED
    BY <1>5, <2>1, <2>2, <2>3, <2>4, <2>5
<1> QED
  BY <1>1, <1>3, <1>4, <1>5 DEF Next, Request, SaveSpecs

\* For any bundles, hosts and configurations, and whatever fails or is killed,
\* the runtime keeps the contract of config.json: all of one selection is in the
\* file or nothing, and a request that is refused or killed before the rename
\* leaves it as it was.
THEOREM ImplementsContract == Spec => BundleContract
<1>1. Spec => [](TypeInv /\ EditInv)
  BY TypeInit, TypeNext, EditInit, EditNext, PTL DEF Spec
<1> QED
  BY <1>1, ContractInit, ContractNext, PTL DEF Spec, BundleContract, Contract!Spec

-----------------------------------------------------------------------------
(***************************************************************************)
(* What Runtime selects and hands over: hooks, nodes and rules are those   *)
(* of the devices the request was entitled to, and a request that is made  *)
(* again selects them again.                                               *)
(***************************************************************************)

(***************************************************************************)
(* What a configured bundle hands over.                                    *)
(***************************************************************************)
\* Hooks that name no devices, and those that are not ours.
Silent(hooks) == \A i \in DOMAIN hooks : hooks[i].devs = {}
OthersSilent(hooks) == \A i \in DOMAIN hooks : ~hooks[i].habana => hooks[i].devs = {}

\* The list the runtime of this configuration puts its hook into, and the other.
OwnHooks(s)   == IF cfg.mode = "legacy" THEN s.prestart ELSE s.createRuntime
OtherHooks(s) == IF cfg.mode = "legacy" THEN s.createRuntime ELSE s.prestart

Hooked(s) == Silent(OtherHooks(s)) /\ OthersSilent(OwnHooks(s))

Carries(hooks, ids) == /\ \A i \in DOMAIN hooks : hooks[i].habana => hooks[i].devs = ids
                       /\ \E i \in DOMAIN hooks : hooks[i].habana

\* addPrestartHook and addCreateRuntimeHook give every habana hook the devices.
LEMMA AddHookCarries ==
  ASSUME NEW hooks \in Seq(Hook), NEW ids \in SUBSET Accel, OthersSilent(hooks)
  PROVE  OthersSilent(AddHook(hooks, ids)) /\ Carries(AddHook(hooks, ids), ids)
<1> DEFINE hook == [habana |-> TRUE, devs |-> ids]
<1> DEFINE n == Len(hooks)
<1>1. n \in Nat /\ DOMAIN hooks = 1..n
  OBVIOUS
<1>2. CASE \E i \in DOMAIN hooks : hooks[i].habana
  <2> DEFINE new == [i \in DOMAIN hooks |-> IF hooks[i].habana THEN hook ELSE hooks[i]]
  <2>1. AddHook(hooks, ids) = new
    BY <1>2 DEF AddHook
  <2> QED
    BY <1>1, <1>2, <2>1 DEF OthersSilent, Carries
<1>3. CASE ~ \E i \in DOMAIN hooks : hooks[i].habana
  <2>1. AddHook(hooks, ids) = Append(hooks, hook)
    BY <1>3 DEF AddHook
  <2> DEFINE new == Append(hooks, hook)
  <2>2. /\ DOMAIN new = 1..(n+1) /\ new[n+1] = hook
        /\ \A i \in 1..n : new[i] = hooks[i]
    OBVIOUS
  <2> HIDE DEF new
  <2>3. OthersSilent(new)
    BY <1>1, <2>2 DEF OthersSilent
  <2>4. Carries(new, ids)
    BY <1>1, <1>3, <2>2 DEF Carries
  <2> QED
    BY <2>1, <2>3, <2>4 DEF new
<1> QED
  BY <1>2, <1>3

\* Where one list carries ids and the other names nothing, the hooks' devices are ids.
LEMMA CarriedDevices ==
  ASSUME NEW s \in OciSpec, NEW ids, Hooked(s), Carries(OwnHooks(s), ids)
  PROVE  HookDevices(s) = ids
<1>1. PICK i \in DOMAIN OwnHooks(s) : OwnHooks(s)[i].habana /\ OwnHooks(s)[i].devs = ids
  BY DEF Carries
<1>2. \A h \in Elems(s.prestart) \cup Elems(s.createRuntime) : h.devs \in {ids, {}}
  BY DEF Hooked, Silent, OthersSilent, Carries, OwnHooks, OtherHooks, Elems
<1>3. \E h \in Elems(s.prestart) \cup Elems(s.createRuntime) : h.devs = ids
  BY <1>1 DEF OwnHooks, Elems
<1> QED
  BY <1>2, <1>3 DEF HookDevices

LEMMA SilentHooks ==
  ASSUME NEW s \in OciSpec, HookDevices(s) = {}
  PROVE  Hooked(s)
<1>1. \A h \in Elems(s.prestart) \cup Elems(s.createRuntime) : h.devs = {}
  BY DEF HookDevices
<1> QED
  BY <1>1 DEF Hooked, Silent, OthersSilent, OwnHooks, OtherHooks, Elems

(***************************************************************************)
(* Access grows with the nodes that are added.                             *)
(***************************************************************************)
GrantsGrow(old, new) ==
  \A n \in DevNum, x \in Access : Granted(old, n, x) => Granted(new, n, x)

LEMMA AppendAllows ==
  ASSUME NEW rules \in Seq(Rule), NEW rule \in Rule, rule.allow
  PROVE  /\ GrantsGrow(rules, Append(rules, rule))
         /\ \A n \in DevNum, x \in Access :
               RuleApplies(rule, n, x) => Granted(Append(rules, rule), n, x)
<1> DEFINE new == Append(rules, rule)
<1> DEFINE k == Len(rules)
<1>1. /\ k \in Nat /\ DOMAIN rules = 1..k /\ DOMAIN new = 1..(k+1) /\ new[k+1] = rule
      /\ \A i \in 1..k : new[i] = rules[i]
  OBVIOUS
<1> HIDE DEF new
<1>2. ASSUME NEW n \in DevNum, NEW x \in Access, RuleApplies(rule, n, x)
      PROVE  Granted(new, n, x)
  <2>1. RuleApplies(new[k+1], n, x) /\ new[k+1].allow /\ \A j \in DOMAIN new : ~(j > k+1)
    BY <1>1, <1>2
  <2> QED
    BY <1>1, <2>1 DEF Granted
<1>3. ASSUME NEW n \in DevNum, NEW x \in Access, ~RuleApplies(rule, n, x), Granted(rules, n, x)
      PROVE  Granted(new, n, x)
  <2>1. PICK i \in DOMAIN rules : /\ RuleApplies(rules[i], n, x) /\ rules[i].allow
                                  /\ \A j \in DOMAIN rules : j > i => ~RuleApplies(rules[j], n, x)
    BY <1>3 DEF Granted
  <2>2. i \in DOMAIN new /\ RuleApplies(new[i], n, x) /\ new[i].allow
    BY <1>1, <2>1
  <2>3. \A j \in DOMAIN new : j > i => ~RuleApplies(new[j], n, x)
    BY <1>1, <1>3, <2>1
  <2> QED
    BY <2>2, <2>3 DEF Granted
<1> QED
  BY <1>2, <1>3 DEF GrantsGrow, new

Grows(old, new) == /\ new.process = old.process
                   /\ old.devices \subseteq new.devices
                   /\ GrantsGrow(old.rules, new.rules)

LEMMA AllocationGrows ==
  ASSUME NEW s, NEW t, Grows(s, t), NEW h \in Inventory
  PROVE  AllocatedDevices(s, h) \subseteq AllocatedDevices(t, h)
<1>1. \A a \in Accel : h.accel[a].dev \in DevNum
  BY DEF Inventory, Node
<1> QED
  BY <1>1 DEF AllocatedDevices, Grows, GrantsGrow, Access

\* addDevicesToSpec and addAllowList take no access away.
LEMMA AddNodesGrows ==
  ASSUME NEW s \in OciSpec, NEW nodes \in SUBSET [path : Path, dev : DevNum]
  PROVE  Grows(s, AddNodes(s, nodes))
<1> DEFINE t == AddDevicesToSpec(s, nodes)
<1> DEFINE new == {n.dev : n \in nodes}
                  \ UNION {r.devs : r \in {x \in Elems(t.rules) : x.exact}}
<1> DEFINE rule == [allow |-> TRUE, type |-> "c", exact |-> TRUE,
                    devs |-> new, access |-> Access]
<1> DEFINE u == AddNodes(s, nodes)
<1>1. t \in OciSpec /\ t.rules = s.rules /\ t.process = s.process /\ s.devices \subseteq t.devices
  BY AddDevicesType DEF AddDevicesToSpec, OciSpec
<1>2. u = t \/ u = [t EXCEPT !.rules = Append(s.rules, rule)]
  BY <1>1 DEF AddNodes, AddAllowList
<1>3. u.process = t.process /\ u.devices = t.devices /\ u.rules \in {s.rules, Append(s.rules, rule)}
  BY <1>1, <1>2 DEF OciSpec
<1>4. rule \in Rule /\ rule.allow /\ s.rules \in Seq(Rule)
  <2>1. new \in SUBSET DevNum
    OBVIOUS
  <2> HIDE DEF new
  <2> QED
    BY <2>1 DEF Rule, Access, OciSpec
<1> HIDE DEF u, t, rule
<1>5. GrantsGrow(s.rules, u.rules)
  BY <1>3, <1>4, AppendAllows DEF GrantsGrow
<1> QED
  BY <1>1, <1>3, <1>5 DEF Grows, u

\* In a spec that names no accelerator every node that is added becomes usable.
LEMMA AddNodesUsable ==
  ASSUME NEW s \in OciSpec, NoAcceleratorYet(s), NEW h \in Inventory, NEW ids \in SUBSET Accel,
         NEW a \in ids, h.accel[a].kind = "char"
  PROVE  a \in AllocatedDevices(AddNodes(s, NodesOf("accel", h.accel, ids)
                                            \cup NodesOf("control", h.control, ids)), h)
<1> DEFINE nodes == NodesOf("accel", h.accel, ids) \cup NodesOf("control", h.control, ids)
<1> DEFINE t == AddDevicesToSpec(s, nodes)
<1> DEFINE new == {n.dev : n \in nodes}
                  \ UNION {r.devs : r \in {x \in Elems(t.rules) : x.exact}}
<1> DEFINE rule == [allow |-> TRUE, type |-> "c", exact |-> TRUE,
                    devs |-> new, access |-> Access]
<1> DEFINE node == [path |-> <<"accel", a>>, dev |-> h.accel[a].dev]
<1> DEFINE u == AddNodes(s, nodes)
<1>0. nodes \in SUBSET [path : Path, dev : DevNum]
  BY NodesOfType DEF Inventory
<1>1. node \in nodes
  BY DEF NodesOf
<1>2. \A d \in s.devices : d.path # node.path
  BY DEF NoAcceleratorYet, AcceleratorDevices
<1> HIDE DEF nodes
<1>3. t \in OciSpec /\ t.rules = s.rules
      /\ [path |-> node.path, type |-> "c", dev |-> node.dev] \in t.devices
  <2>1. t \in OciSpec /\ t.rules = s.rules
    BY <1>0, AddDevicesType DEF AddDevicesToSpec, OciSpec
  <2>2. t.devices = s.devices \cup {[path |-> n.path, type |-> "c", dev |-> n.dev] :
           n \in {m \in nodes : \A d \in s.devices : d.path # m.path}}
    BY DEF AddDevicesToSpec, OciSpec
  <2> HIDE DEF t, node
  <2>3. node \in {m \in nodes : \A d \in s.devices : d.path # m.path}
    BY <1>1, <1>2
  <2> QED
    BY <2>1, <2>2, <2>3
<1>4. new = {n.dev : n \in nodes} /\ node.dev \in new
  BY <1>1, <1>3 DEF NoAcceleratorYet
<1>5. u = [t EXCEPT !.rules = Append(s.rules, rule)]
  BY <1>3, <1>4 DEF AddNodes, AddAllowList
<1>6. u.devices = t.devices /\ u.rules = Append(s.rules, rule)
  BY <1>3, <1>5 DEF OciSpec
<1>7. rule \in Rule /\ rule.allow /\ s.rules \in Seq(Rule)
  <2>1. new \in SUBSET DevNum
    BY <1>0
  <2> HIDE DEF new
  <2> QED
    BY <2>1 DEF Rule, Access, OciSpec
<1>8. \A x \in Access : RuleApplies(rule, node.dev, x)
  BY <1>4 DEF RuleApplies
<1>9. node.dev \in DevNum /\ "r" \in Access /\ "w" \in Access
  BY <1>0, <1>1 DEF Access
<1> HIDE DEF u, t, rule
<1>10. Granted(u.rules, node.dev, "r") /\ Granted(u.rules, node.dev, "w")
  BY <1>6, <1>7, <1>8, <1>9, AppendAllows
<1>11. \E d \in u.devices : d.type = "c" /\ d.dev = h.accel[a].dev
  BY <1>3, <1>6
<1> QED
  BY <1>10, <1>11 DEF AllocatedDevices, u, nodes

(***************************************************************************)
(* The entitlement of a spec survives what the runtime adds to it.         *)
(***************************************************************************)
Authorized(s, h, allowEnv) == IF allowEnv THEN PresentDevices(h) ELSE AllocatedDevices(s, h)

\* A list that names authorized accelerators selects them.
LEMMA ExplicitSelects ==
  ASSUME NEW h \in Inventory, NEW always \in BOOLEAN, NEW authorized \in SUBSET Accel,
         NEW ids \in SUBSET authorized
  PROVE  SelectDevices(Explicit(ids), authorized, always, h) = Success(ids)
<1> DEFINE env == Explicit(ids)
<1> DEFINE v == [form |-> "list", toks |-> ids]
<1>1. env["DEVICES"] = <<v>> /\ env["MODULES"] = <<>> /\ env["PCI"] = <<>>
  BY DEF Explicit, EnvKeys, SelectionKeys
<1>2. v.form = "list" /\ v.toks = ids
  OBVIOUS
<1> HIDE DEF env, v
<1>3. {k \in SelectionKeys : env[k] # <<>>} = {"DEVICES"}
  BY <1>1 DEF SelectionKeys
<1>4. Len(env["DEVICES"]) = 1 /\ env["DEVICES"][1] = v
  BY <1>1
<1>5. \A a \in authorized : Identity(h, "DEVICES", a) = a /\ a # Empty /\ a # ReadErr
  BY TokensDistinct DEF Identity
<1>6. Chosen("DEVICES", v, authorized, h) = ids
  BY <1>2, <1>5 DEF Chosen
<1>7. ~Malformed("DEVICES", v, authorized, h)
  BY <1>2, <1>5 DEF Malformed
<1>8. SelectDevices(env, authorized, always, h) =
        Success({a \in authorized : \E k \in {"DEVICES"} : a \in Chosen(k, env[k][1], authorized, h)})
  <2> DEFINE used == {k \in SelectionKeys : env[k] # <<>>}
  <2>1. used = {"DEVICES"}
    BY <1>3
  <2> HIDE DEF used
  <2>2. ~ \E k \in used : \/ Len(env[k]) > 1
                           \/ Malformed(k, env[k][1], authorized, h)
                           \/ \E l \in used : Chosen(k, env[k][1], authorized, h)
                                             # Chosen(l, env[l][1], authorized, h)
    <3>1. ~(Len(env["DEVICES"]) > 1)
      BY <1>4
    <3>2. ~Malformed("DEVICES", env["DEVICES"][1], authorized, h)
      BY <1>4, <1>7
    <3>3. \A k \in used : k = "DEVICES"
      BY <2>1
    <3> QED
      BY <3>1, <3>2, <3>3, Zenon
  <2>3. {a \in authorized : \/ used = {} /\ always
                            \/ \E k \in used : a \in Chosen(k, env[k][1], authorized, h)}
        = {a \in authorized : \E k \in {"DEVICES"} : a \in Chosen(k, env[k][1], authorized, h)}
    BY <2>1
  <2> QED
    BY <2>2, <2>3 DEF SelectDevices, used
<1>9. {a \in authorized : \E k \in {"DEVICES"} : a \in Chosen(k, env[k][1], authorized, h)} = ids
  BY <1>4, <1>6
<1> QED
  BY <1>8, <1>9 DEF env

\* What is resolved is authorized.
LEMMA ResolvedAuthorized ==
  ASSUME NEW s \in OciSpec, NEW h \in Inventory, NEW allowEnv \in BOOLEAN, NEW always \in BOOLEAN,
         NEW ids, ids # {}, ResolveDevices(s, h, allowEnv, always) = Success(ids)
  PROVE  /\ s.process /\ ~InventoryBroken(h) /\ (allowEnv \/ s.devices # {})
         /\ ids \subseteq Authorized(s, h, allowEnv)
<1> DEFINE r == ResolveDevices(s, h, allowEnv, always)
<1> DEFINE auth == Authorized(s, h, allowEnv)
<1>1. r.ok /\ r.ids = ids
  BY DEF Success
<1>2. ~Failure.ok /\ Success({}).ids = {}
  BY DEF Failure, Success
<1>3. s.process /\ ~InventoryBroken(h) /\ (allowEnv \/ s.devices # {})
      /\ r = SelectDevices(s.env, auth, always, h)
  BY <1>1, <1>2 DEF ResolveDevices, Authorized
<1>4. SelectDevices(s.env, auth, always, h).ids \subseteq auth
  BY DEF SelectDevices, Failure, Success
<1> QED
  BY <1>1, <1>3, <1>4

\* The hook's own look at the configured bundle accepts the devices it is given.
LEMMA EntitlementStays ==
  ASSUME NEW s \in OciSpec, NEW t \in OciSpec, Grows(s, t), NEW h \in Inventory,
         NEW allowEnv \in BOOLEAN, NEW always \in BOOLEAN,
         NEW ids, ids # {}, ResolveDevices(s, h, allowEnv, always) = Success(ids)
  PROVE  ResolveDevices([t EXCEPT !.env = Explicit(ids)], h, allowEnv, always) = Success(ids)
<1> DEFINE r == [t EXCEPT !.env = Explicit(ids)]
<1> DEFINE auth == Authorized(r, h, allowEnv)
<1>1. r.env = Explicit(ids) /\ r.process = t.process /\ r.devices = t.devices /\ r.rules = t.rules
  BY DEF OciSpec
<1> HIDE DEF r
<1>2. s.process /\ ~InventoryBroken(h) /\ (allowEnv \/ s.devices # {})
      /\ ids \subseteq Authorized(s, h, allowEnv)
  BY ResolvedAuthorized
<1>3. AllocatedDevices(r, h) = AllocatedDevices(t, h)
  BY <1>1 DEF AllocatedDevices
<1>4. ids \subseteq auth /\ auth \subseteq Accel
  BY <1>2, <1>3, AllocationGrows DEF Authorized, PresentDevices, AllocatedDevices
<1>5. SelectDevices(r.env, auth, always, h) = Success(ids)
  BY <1>1, <1>4, ExplicitSelects
<1>6. r.process /\ (allowEnv \/ r.devices # {}) /\ auth # {}
  BY <1>1, <1>2, <1>4 DEF Grows
<1>7. ResolveDevices(r, h, allowEnv, always) = SelectDevices(r.env, auth, always, h)
  BY <1>2, <1>6 DEF ResolveDevices, Authorized
<1> QED
  BY <1>5, <1>7 DEF r

(***************************************************************************)
(* The invariant.                                                          *)
(***************************************************************************)
\* On an unchanged host the request resolved what it was entitled to.
Entitled(ids) ==
  steady => ResolveDevices(loaded, host, cfg.allowEnv, cfg.alwaysMount) = Success(ids)

Bare == /\ steady /\ NoAcceleratorYet(loaded)
        /\ cfg.mode = "oci" /\ cfg.allowEnv /\ cfg.mountAccelerators

Usable(s) == \A a \in req : host.accel[a].kind = "char" => a \in AllocatedDevices(s, host)

Asked == Running \ {"resolve", "exec"}

HandInv ==
  /\ disk # NoSpec => Hooked(disk)
  /\ pc = "prestart" => cfg.mode = "legacy"
  /\ pc \in {"accelerators", "modules", "uverbs", "createRuntime", "netinfo", "gaudinet"}
       => cfg.mode # "legacy"
  /\ pc = "modules" /\ Bare => Usable(mem)
  /\ pc \in Running \ {"exec"} => disk = loaded /\ Hooked(mem) /\ Grows(loaded, mem)
  /\ pc \in Asked => Entitled(req)
  /\ pc \in {"uverbs", "createRuntime", "netinfo", "gaudinet", "save", "write", "rename"} /\ Bare
       => Usable(mem)
  /\ pc \in {"netinfo", "gaudinet", "save", "write", "rename"} => Carries(OwnHooks(mem), req)
  /\ pc = "exec" /\ Managed =>
       \/ disk = loaded /\ Entitled({})
       \/ /\ req # {} /\ Entitled(req) /\ disk \in OciSpec
          /\ Carries(OwnHooks(disk), req) /\ Grows(loaded, disk)
          /\ Bare => Usable(disk)

LEMMA HandInit == Init => HandInv
<1>1. Init /\ disk # NoSpec => disk \in OciSpec /\ HookDevices(disk) = {}
  BY ParametersTyped, HooksAskNothing DEF Init
<1> QED
  BY <1>1, SilentHooks DEF Init, HandInv, Running, Asked

\* The two properties follow.
LEMMA HandsOver == TypeInv /\ HandInv => HandedOverConfigured /\ SelectionUsable
<1> SUFFICES ASSUME TypeInv, HandInv, pc = "exec", Managed, steady
             PROVE  HandedOverConfigured /\ SelectionUsable
  BY DEF HandedOverConfigured, SelectionUsable
<1> DEFINE entitled == ResolveDevices(loaded, host, cfg.allowEnv, cfg.alwaysMount)
<1>1. /\ cfg.allowEnv \in BOOLEAN /\ cfg.alwaysMount \in BOOLEAN /\ host \in Inventory
      /\ loaded \in OciSpec
  BY ParametersTyped, HostType DEF TypeInv, TypeOK, Managed
<1>2. CASE disk = loaded /\ Entitled({})
  <2>1. entitled = Success({})
    BY <1>2 DEF Entitled
  <2>2. entitled.ok /\ entitled.ids = {}
    BY <2>1 DEF Success
  <2> QED
    BY <1>2, <2>2 DEF HandedOverConfigured, SelectionUsable
<1>3. CASE /\ req # {} /\ Entitled(req) /\ disk \in OciSpec
           /\ Carries(OwnHooks(disk), req) /\ Grows(loaded, disk)
           /\ Bare => Usable(disk)
  <2>1. entitled = Success(req)
    BY <1>3 DEF Entitled
  <2>2. entitled.ok /\ entitled.ids = req
    BY <2>1 DEF Success
  <2>3. HookDevices(disk) = req
    <3>1. Hooked(disk)
      BY <1>3, ParametersTyped DEF HandInv
    <3> QED
      BY <1>3, <3>1, CarriedDevices
  <2>4. ResolveDevices([disk EXCEPT !.env = Explicit(req)], host, cfg.allowEnv, cfg.alwaysMount)
          = entitled
    BY <1>1, <1>3, <2>1, EntitlementStays
  <2>5. HandedOverConfigured
    BY <1>3, <2>2, <2>3, <2>4 DEF HandedOverConfigured
  <2>6. SelectionUsable
    BY <1>3, <2>3 DEF SelectionUsable, Bare, Usable
  <2> QED
    BY <2>5, <2>6
<1> QED
  BY <1>2, <1>3 DEF HandInv

LEMMA GrowsOn ==
  ASSUME NEW s, NEW t, NEW u
  PROVE  /\ Grows(s, s)
         /\ Grows(s, t) /\ Grows(t, u) => Grows(s, u)
BY DEF Grows, GrantsGrow

\* A usable node stays usable while the spec grows.
LEMMA StaysUsable ==
  ASSUME NEW s, NEW t, Grows(s, t), host \in Inventory, Usable(s)
  PROVE  Usable(t)
BY AllocationGrows DEF Usable

\* The edits of the spec leave its hooks alone.
LEMMA EditsKeepHooks ==
  ASSUME NEW s \in OciSpec, NEW t \in OciSpec, t.prestart = s.prestart,
         t.createRuntime = s.createRuntime
  PROVE  /\ Hooked(s) => Hooked(t)
         /\ OwnHooks(t) = OwnHooks(s)
BY DEF Hooked, OwnHooks, OtherHooks

LEMMA HandNext == TypeInv /\ EditInv /\ HandInv /\ [Next]_vars => HandInv'
<1> SUFFICES ASSUME TypeInv, EditInv, HandInv, [Next]_vars PROVE HandInv'
  OBVIOUS
<1>0. pc \in Running \ {"exec"} => /\ mem \in OciSpec /\ disk \in OciSpec /\ disk # NoSpec
                                   /\ disk = loaded /\ Hooked(mem) /\ Grows(loaded, mem)
  BY DEF TypeInv, TypeOK, EditInv, HandInv
<1>h. host \in Inventory /\ req \in SUBSET Accel
  BY HostType DEF TypeInv, TypeOK
<1>t. TypeInv'
  BY TypeNext
<1>m. pc' \in Running \ {"exec"} => mem' \in OciSpec
  BY <1>t DEF TypeInv, TypeOK
<1>i. ASSUME pc' \in Idle, UNCHANGED <<cfg, disk>> PROVE HandInv'
  BY <1>i DEF HandInv, Idle, Running, Asked, Hooked, OwnHooks, OtherHooks
\* A step of the edits: the spec in memory grows, and nothing else changes.
<1>e. ASSUME pc \in Asked, pc' \in Asked,
             UNCHANGED <<cfg, host, disk, req, loaded, steady>>,
             Grows(mem, mem'), Hooked(mem'),
             pc' = "prestart" => cfg.mode = "legacy",
             pc' \in {"accelerators", "modules", "uverbs", "createRuntime", "netinfo", "gaudinet"}
               => cfg.mode # "legacy",
             pc' \in {"modules", "uverbs", "createRuntime", "netinfo", "gaudinet", "save", "write", "rename"}
               /\ Bare => Usable(mem'),
             pc' \in {"netinfo", "gaudinet", "save", "write", "rename"} => Carries(OwnHooks(mem'), req)
      PROVE  HandInv'
  <2>1. Grows(loaded, mem') /\ Hooked(disk) /\ Entitled(req) /\ disk = loaded
    BY <1>0, <1>e, GrowsOn DEF HandInv, Asked
  <2> QED
    BY <1>e, <2>1 DEF HandInv, Asked, Running, Entitled, Bare, Usable, Hooked, OwnHooks, OtherHooks
<1>1. CASE Create
  <2>1. /\ pc' = AfterLoad /\ UNCHANGED <<cfg, disk>> /\ loaded' = disk /\ mem' = disk
    BY <1>1 DEF Create, bundle
  <2>2. CASE pc' = "exec"
    BY <2>1, <2>2 DEF AfterLoad, HandInv, Managed, Running, Asked, Hooked, OwnHooks, OtherHooks
  <2>3. CASE pc' = "resolve"
    BY <2>1, <2>3, GrowsOn DEF AfterLoad, HandInv, Running, Asked, Hooked, OwnHooks, OtherHooks
  <2>4. CASE pc' = "failed"
    BY <1>i, <2>1, <2>4 DEF Idle
  <2> QED
    BY <2>1, <2>2, <2>3, <2>4 DEF AfterLoad
<1>2. CASE Resolve
  <2> DEFINE result == ResolveDevices(mem, host, cfg.allowEnv, cfg.alwaysMount)
  <2>1. /\ pc = "resolve" /\ mem = disk /\ disk = loaded /\ Hooked(disk) /\ disk \in OciSpec
        /\ UNCHANGED <<cfg, host, disk, mem, loaded, steady>> /\ req' = result.ids
        /\ pc' = IF ~result.ok THEN "rejected" ELSE IF result.ids = {} THEN "exec"
                 ELSE IF ~mem.root THEN "failed" ELSE FirstEdit
    BY <1>0, <1>2 DEF Resolve, hostVars, bundle, history, EditInv, HandInv, Running
  <2>2. result \in [ok : BOOLEAN, ids : SUBSET Accel]
    BY ResolveType
  <2>3. result.ok => result = Success(result.ids)
    <3> HIDE DEF result
    <3> QED
      BY <2>2 DEF Success
  <2> HIDE DEF result
  <2>4. result.ok => Entitled(req)'
    BY <2>1, <2>3 DEF Entitled, result
  <2>5. CASE ~result.ok \/ (result.ids # {} /\ ~mem.root)
    BY <1>i, <2>1, <2>5 DEF Idle
  <2>6. CASE result.ok /\ result.ids = {}
    <3>1. pc' = "exec" /\ disk' = loaded' /\ req' = {}
      BY <2>1, <2>6
    <3>2. Entitled({})'
      BY <2>4, <2>6, <3>1 DEF Entitled
    <3>3. Hooked(disk)'
      BY <2>1 DEF Hooked, OwnHooks, OtherHooks
    <3> QED
      BY <3>1, <3>2, <3>3 DEF HandInv, Running, Asked
  <2>7. CASE result.ok /\ result.ids # {} /\ mem.root
    <3>1. pc' = FirstEdit
      BY <2>1, <2>7
    <3>2. pc' \in {"prestart", "accelerators", "modules"}
          /\ (pc' = "prestart" <=> cfg.mode = "legacy")
          /\ (pc' = "modules" => ~(cfg.allowEnv /\ cfg.mountAccelerators))
      BY <3>1 DEF FirstEdit
    <3> QED
      BY <2>1, <2>4, <2>7, <3>2, GrowsOn
      DEF HandInv, Running, Asked, Bare, Hooked, OwnHooks, OtherHooks
  <2> QED
    BY <2>5, <2>6, <2>7
<1>3. CASE Fail /\ pc \in Running
  BY <1>i, <1>3 DEF Fail, Continue, bundle, Idle
<1>4. CASE AddPrestartHook /\ ~Fail
  <2>1. /\ pc = "prestart" /\ pc' = "save" /\ cfg.mode = "legacy" /\ mem \in OciSpec
        /\ mem' = [mem EXCEPT !.prestart = AddHook(mem.prestart, req)] /\ mem' \in OciSpec
        /\ UNCHANGED <<cfg, host, disk, req, loaded, steady>>
    BY <1>0, <1>4, <1>m DEF AddPrestartHook, Continue, HandInv, Running, hostVars, bundle, history
  <2>2. /\ mem'.prestart = AddHook(mem.prestart, req) /\ mem'.createRuntime = mem.createRuntime
        /\ mem'.process = mem.process /\ mem'.devices = mem.devices /\ mem'.rules = mem.rules
    BY <2>1 DEF OciSpec
  <2>3. OthersSilent(mem.prestart) /\ mem.prestart \in Seq(Hook) /\ Silent(mem.createRuntime)
    BY <1>0, <2>1 DEF OciSpec, Hooked, OwnHooks, OtherHooks, Running
  <2>4. OthersSilent(mem'.prestart) /\ Carries(mem'.prestart, req)
    BY <1>h, <2>2, <2>3, AddHookCarries
  <2>5. Hooked(mem') /\ Carries(OwnHooks(mem'), req)
    BY <2>1, <2>2, <2>3, <2>4 DEF Hooked, OwnHooks, OtherHooks
  <2>6. Grows(mem, mem')
    BY <2>2 DEF Grows, GrantsGrow
  <2> QED
    BY <1>e, <2>1, <2>5, <2>6 DEF Asked, Running, Bare
<1>5. CASE AddAcceleratorDevices /\ ~Fail
  <2> DEFINE nodes == NodesOf("accel", host.accel, req)
                      \cup NodesOf("control", host.control, req)
  <2>1. /\ pc = "accelerators" /\ pc' = "modules" /\ cfg.mode # "legacy" /\ mem \in OciSpec
        /\ mem = loaded /\ mem' = AddNodes(mem, nodes) /\ mem' \in OciSpec
        /\ UNCHANGED <<cfg, host, disk, req, loaded, steady>>
    BY <1>0, <1>5, <1>m
    DEF AddAcceleratorDevices, Continue, HandInv, EditInv, Running, hostVars, bundle, history
  <2>2. nodes \in SUBSET [path : Path, dev : DevNum]
    BY <1>h, NodesOfType DEF Inventory
  <2>3. Bare => Usable(mem')
    BY <1>h, <2>1, AddNodesUsable DEF Bare, Usable
  <2>n. \A n \in nodes : n.path[2] \in req
    BY DEF NodesOf
  <2> HIDE DEF nodes
  <2>4. Grows(mem, mem')
    BY <2>1, <2>2, AddNodesGrows
  <2>5. AddNodes(mem, nodes).prestart = mem.prestart
        /\ AddNodes(mem, nodes).createRuntime = mem.createRuntime
    BY <1>h, <2>1, <2>2, <2>n, SelfExtends, AddNodesExtends
  <2>6. Hooked(mem')
    BY <1>0, <2>1, <2>5, EditsKeepHooks DEF Running
  <2> QED
    BY <1>e, <2>1, <2>3, <2>4, <2>6 DEF Asked, Running
<1>6. CASE AddModuleIDs /\ ~Fail
  <2>1. /\ pc = "modules" /\ pc' \in {"uverbs", "createRuntime"} /\ cfg.mode # "legacy"
        /\ mem \in OciSpec /\ mem' = AddEnvVar(mem, "MODULES", JoinModules(req, host))
        /\ mem' \in OciSpec
        /\ UNCHANGED <<cfg, host, disk, req, loaded, steady>>
    BY <1>0, <1>6, <1>m DEF AddModuleIDs, Continue, HandInv, Running, hostVars, bundle, history
  <2>2. /\ mem'.prestart = mem.prestart /\ mem'.createRuntime = mem.createRuntime
        /\ mem'.process = mem.process /\ mem'.devices = mem.devices /\ mem'.rules = mem.rules
    BY <2>1 DEF AddEnvVar, OciSpec
  <2>3. Grows(mem, mem')
    BY <2>2 DEF Grows, GrantsGrow
  <2>4. Bare => Usable(mem')
    BY <1>h, <2>1, <2>3, StaysUsable DEF HandInv
  <2>5. Hooked(mem')
    BY <1>0, <2>1, <2>2, EditsKeepHooks DEF Running
  <2> QED
    BY <1>e, <2>1, <2>3, <2>4, <2>5 DEF Asked, Running
<1>7. CASE AddUverbsDevices /\ ~Fail
  <2> DEFINE nodes == NodesOf("uverb", host.uverb, req)
  <2>1. /\ pc = "uverbs" /\ pc' = "createRuntime" /\ cfg.mode # "legacy"
        /\ mem \in OciSpec /\ mem' = AddNodes(mem, nodes) /\ mem' \in OciSpec
        /\ UNCHANGED <<cfg, host, disk, req, loaded, steady>>
    BY <1>0, <1>7, <1>m DEF AddUverbsDevices, Continue, HandInv, Running, hostVars, bundle, history
  <2>2. nodes \in SUBSET [path : Path, dev : DevNum] /\ \A n \in nodes : n.path[2] \in req
    BY <1>h, NodesOfType DEF Inventory, NodesOf
  <2> HIDE DEF nodes
  <2>3. Grows(mem, mem')
    BY <2>1, <2>2, AddNodesGrows
  <2>4. Bare => Usable(mem')
    BY <1>h, <2>1, <2>3, StaysUsable DEF HandInv
  <2>5. Hooked(mem')
    BY <1>0, <1>h, <2>1, <2>2, SelfExtends, AddNodesExtends, EditsKeepHooks DEF Running
  <2> QED
    BY <1>e, <2>1, <2>3, <2>4, <2>5 DEF Asked, Running
<1>8. CASE AddCreateRuntimeHook /\ ~Fail
  <2>1. /\ pc = "createRuntime" /\ pc' = "netinfo" /\ cfg.mode # "legacy" /\ mem \in OciSpec
        /\ mem' = [mem EXCEPT !.createRuntime = AddHook(mem.createRuntime, req)] /\ mem' \in OciSpec
        /\ UNCHANGED <<cfg, host, disk, req, loaded, steady>>
    BY <1>0, <1>8, <1>m DEF AddCreateRuntimeHook, Continue, HandInv, Running, hostVars, bundle, history
  <2>2. /\ mem'.createRuntime = AddHook(mem.createRuntime, req) /\ mem'.prestart = mem.prestart
        /\ mem'.process = mem.process /\ mem'.devices = mem.devices /\ mem'.rules = mem.rules
    BY <2>1 DEF OciSpec
  <2>3. OthersSilent(mem.createRuntime) /\ mem.createRuntime \in Seq(Hook) /\ Silent(mem.prestart)
    BY <1>0, <2>1 DEF OciSpec, Hooked, OwnHooks, OtherHooks, Running
  <2>4. OthersSilent(mem'.createRuntime) /\ Carries(mem'.createRuntime, req)
    BY <1>h, <2>2, <2>3, AddHookCarries
  <2>5. Hooked(mem') /\ Carries(OwnHooks(mem'), req)
    BY <2>1, <2>2, <2>3, <2>4 DEF Hooked, OwnHooks, OtherHooks
  <2>6. Grows(mem, mem')
    BY <2>2 DEF Grows, GrantsGrow
  <2>7. Bare => Usable(mem')
    BY <1>h, <2>1, <2>6, StaysUsable DEF HandInv
  <2> QED
    BY <1>e, <2>1, <2>5, <2>6, <2>7 DEF Asked, Running
<1>9. CASE NetworkFiles \/ CreateTemp \/ WriteTemp
  <2>1. /\ pc \in {"netinfo", "gaudinet", "save", "write"}
        /\ pc' \in {"gaudinet", "save", "write", "rename"}
        /\ pc' = "gaudinet" => pc = "netinfo"
        /\ mem \in OciSpec /\ mem' \in OciSpec
        /\ UNCHANGED <<cfg, host, disk, req, loaded, steady>>
        /\ mem' \in {mem} \cup {AddErrorEnvVar(mem, msg) : msg \in Message}
    BY <1>0, <1>9, <1>m DEF NetworkFiles, GenerateNetinfo, CopyGaudinet, PutAside, Written, Message,
       CreateTemp, WriteTemp, Continue, Running, hostVars, bundle, history
  <2>2. /\ mem'.prestart = mem.prestart /\ mem'.createRuntime = mem.createRuntime
        /\ mem'.process = mem.process /\ mem'.devices = mem.devices /\ mem'.rules = mem.rules
    BY <2>1 DEF AddErrorEnvVar, AddEnvVar, OciSpec
  <2>3. Grows(mem, mem')
    BY <2>2 DEF Grows, GrantsGrow
  <2>4. Bare => Usable(mem')
    BY <1>h, <2>1, <2>3, StaysUsable DEF HandInv
  <2>5. Hooked(mem') /\ Carries(OwnHooks(mem'), req)
    BY <1>0, <2>1, <2>2, EditsKeepHooks DEF Running, HandInv
  <2>6. pc' = "gaudinet" => cfg.mode # "legacy"
    BY <2>1 DEF HandInv
  <2> QED
    BY <1>e, <2>1, <2>3, <2>4, <2>5, <2>6 DEF Asked, Running
<1>10. CASE RenameTemp
  <2>1. /\ pc = "rename" /\ pc' = "exec" /\ disk' = mem /\ mem \in OciSpec
        /\ UNCHANGED <<cfg, host, req, loaded, steady>>
    BY <1>0, <1>10 DEF RenameTemp, hostVars, Running
  <2>2. /\ Hooked(mem) /\ Grows(loaded, mem) /\ Entitled(req) /\ Carries(OwnHooks(mem), req)
        /\ (Bare => Usable(mem)) /\ req # {}
    BY <2>1 DEF HandInv, EditInv, Asked, Running
  <2> QED
    BY <2>1, <2>2 DEF HandInv, Asked, Running, Entitled, Bare, Usable, Hooked, OwnHooks, OtherHooks
<1>11. CASE SaveFails \/ ExecRunc \/ Kill
  BY <1>i, <1>11 DEF SaveFails, ExecRunc, Kill, Continue, Idle, bundle
<1>12. CASE HostChange
  <2>1. steady' = FALSE /\ UNCHANGED <<cfg, disk, pc, mem, req, loaded>>
    BY <1>12 DEF HostChange, bundle, runVars
  <2> QED
    BY <2>1 DEF HandInv, Entitled, Bare, Hooked, OwnHooks, OtherHooks, Managed
<1>13. CASE UNCHANGED vars
  <2>1. UNCHANGED <<cfg, host, disk, pc, mem, req, loaded, steady>>
    BY <1>13 DEF vars, hostVars, bundle, runVars, history
  <2> QED
    BY <2>1 DEF HandInv, Entitled, Bare, Usable, Hooked, OwnHooks, OtherHooks, Managed
<1>14. EditSpec => pc \in Running
  BY DEF EditSpec, AddPrestartHook, AddAcceleratorDevices, AddModuleIDs, AddUverbsDevices,
         AddCreateRuntimeHook, Running
<1> QED
  BY <1>1, <1>2, <1>3, <1>4, <1>5, <1>6, <1>7, <1>8, <1>9, <1>10, <1>11, <1>12, <1>13, <1>14
  DEF Next, Request, EditSpec, SaveSpecs

LEMMA HandInvariant == Spec => [](TypeInv /\ HandInv)
<1>1. Spec => [](TypeInv /\ EditInv /\ HandInv)
  BY TypeInit, TypeNext, EditInit, EditNext, HandInit, HandNext, PTL DEF Spec
<1> QED
  BY <1>1, PTL

\* A bundle handed to runc has a hook for exactly the devices its spec is entitled
\* to, and what the runtime has added never invalidates that entitlement.
THEOREM BundlesAreConfigured == Spec => []HandedOverConfigured
<1>1. TypeInv /\ HandInv => HandedOverConfigured
  BY HandsOver
<1> QED
  BY <1>1, HandInvariant, PTL

\* Of a bundle that named no accelerator, each selected one has its node and its
\* access, whatever rules and nodes the engine had put into the spec.
THEOREM SelectionsAreUsable == Spec => []SelectionUsable
<1>1. TypeInv /\ HandInv => SelectionUsable
  BY HandsOver
<1> QED
  BY <1>1, HandInvariant, PTL

(***************************************************************************)
(* A request that is made again.                                           *)
(***************************************************************************)
\* Module ids known for the devices of a selection, added to the selectors the
\* selection was made by, make it again.
LEMMA ModulesSelectAgain ==
  ASSUME NEW h \in Inventory, NEW env, NEW new, NEW auth \in SUBSET Accel, NEW always,
         NEW ids \in SUBSET auth, ids # {},
         SelectDevices(env, auth, always, h) = Success(ids),
         \A a \in auth : h.module[a] \in Ident,
         \A a, b \in auth : h.module[a] = h.module[b] => a = b,
         \A k \in {"DEVICES", "PCI"} : new[k] = env[k],
         NEW v, new["MODULES"] = <<v>>, v.form = "list", v.toks = {h.module[a] : a \in ids}
  PROVE  SelectDevices(new, auth, always, h) = Success(ids)
<1> DEFINE picked(e, k) == Chosen(k, e[k][1], auth, h)
<1> DEFINE bad(e, k) == Len(e[k]) > 1 \/ Malformed(k, e[k][1], auth, h)
<1> DEFINE used(e) == {k \in SelectionKeys : e[k] # <<>>}
<1> DEFINE sel(e) == {a \in auth : (used(e) = {} /\ always) \/ \E k \in used(e) : a \in picked(e, k)}
<1>1. ASSUME NEW e PROVE SelectDevices(e, auth, always, h) =
                           IF \E k \in used(e) : bad(e, k) \/ \E l \in used(e) : picked(e, k) # picked(e, l)
                           THEN Failure ELSE Success(sel(e))
  BY DEF SelectDevices
<1>2. Success(ids).ok /\ Success(ids).ids = ids /\ ~Failure.ok /\ \A x : Success(x).ids = x
  BY DEF Success, Failure
<1>3. /\ \A k \in used(env) : ~bad(env, k)
      /\ \A k, l \in used(env) : picked(env, k) = picked(env, l)
      /\ sel(env) = ids
  <2> DEFINE wrong == \E k \in used(env) : bad(env, k) \/ \E l \in used(env) : picked(env, k) # picked(env, l)
  <2>1. SelectDevices(env, auth, always, h) = IF wrong THEN Failure ELSE Success(sel(env))
    BY <1>1
  <2>2. ~wrong /\ Success(sel(env)) = Success(ids)
    <3> HIDE DEF wrong, sel
    <3> QED
      BY <1>2, <2>1
  <2>3. sel(env) = ids
    <3> HIDE DEF sel
    <3> QED
      BY <1>2, <2>2
  <2> HIDE DEF bad, picked, used, sel
  <2> QED
    BY <2>2, <2>3
<1>4. \A k \in used(env) : picked(env, k) \subseteq auth
  BY DEF Chosen
<1>5. \A k \in used(env) : picked(env, k) = ids
  BY <1>3, <1>4
<1>6. used(new) = (used(env) \ {"MODULES"}) \cup {"MODULES"}
  <2>1. new["MODULES"] # <<>>
    OBVIOUS
  <2>2. SelectionKeys = {"DEVICES", "PCI", "MODULES"}
    BY DEF SelectionKeys
  <2> QED
    BY <2>1, <2>2
<1>7. new["MODULES"][1] = v /\ Len(new["MODULES"]) = 1
  OBVIOUS
<1>i. \A a \in auth : Identity(h, "MODULES", a) = h.module[a] /\ h.module[a] # Empty /\ h.module[a] # ReadErr
  BY TokensDistinct DEF Identity
<1>8. picked(new, "MODULES") = ids
  BY <1>7, <1>i DEF Chosen
<1>9. ~bad(new, "MODULES")
  <2>1. ~Malformed("MODULES", v, auth, h)
    BY <1>i DEF Malformed
  <2> QED
    BY <1>7, <2>1
<1>10. \A k \in used(env) \ {"MODULES"} : new[k] = env[k]
  BY DEF SelectionKeys
<1>11. \A k \in used(new) : picked(new, k) = ids /\ ~bad(new, k)
  <2> SUFFICES ASSUME NEW k \in used(new) PROVE picked(new, k) = ids /\ ~bad(new, k)
    OBVIOUS
  <2>1. CASE k = "MODULES"
    BY <1>8, <1>9, <2>1, Zenon
  <2>2. CASE k # "MODULES"
    <3>1. k \in used(env) /\ new[k] = env[k]
      BY <1>6, <1>10, <2>2
    <3>2. picked(env, k) = ids /\ ~bad(env, k)
      BY <1>3, <1>5, <3>1
    <3> QED
      BY <3>1, <3>2
  <2> QED
    BY <2>1, <2>2
<1>12. used(new) # {}
  BY <1>6
<1> HIDE DEF picked, bad, used
<1>13. sel(new) = ids
  BY <1>11, <1>12
<1>14. ~ \E k \in used(new) : bad(new, k) \/ \E l \in used(new) : picked(new, k) # picked(new, l)
  BY <1>11
<1> HIDE DEF sel
<1> QED
  BY <1>1, <1>13, <1>14

\* The devices of a node list that names no accelerator's number are as before.
AllocationSame(s, t) == \A h \in Host : AllocatedDevices(t, h) = AllocatedDevices(s, h)

\* What a request is entitled to is not changed by what it makes of the spec.
LEMMA RetryResolves ==
  ASSUME NEW s \in OciSpec, NEW t \in OciSpec, Grows(s, t), NEW h \in Host, h \in Inventory,
         ModulesKnown(h),
         NEW allowEnv \in BOOLEAN, NEW always \in BOOLEAN, allowEnv \/ AllocationSame(s, t),
         NEW ids, ids # {}, ResolveDevices(s, h, allowEnv, always) = Success(ids),
         \A k \in {"DEVICES", "PCI"} : t.env[k] = s.env[k],
         t.env = s.env \/ t.env["MODULES"] = <<JoinModules(ids, h)>>
  PROVE  ResolveDevices(t, h, allowEnv, always) = Success(ids)
<1> DEFINE auth == Authorized(s, h, allowEnv)
<1>1. /\ s.process /\ ~InventoryBroken(h) /\ (allowEnv \/ s.devices # {})
      /\ ids \subseteq auth
  BY ResolvedAuthorized
<1>2. Authorized(t, h, allowEnv) = auth
  BY DEF Authorized, AllocationSame
<1>3. auth \subseteq PresentDevices(h) /\ auth \subseteq Accel
  BY DEF Authorized, PresentDevices, AllocatedDevices
<1> HIDE DEF auth
<1>4. ResolveDevices(t, h, allowEnv, always) = SelectDevices(t.env, auth, always, h)
  <2>1. t.process /\ (allowEnv \/ t.devices # {}) /\ auth # {}
    BY <1>1 DEF Grows
  <2> QED
    BY <1>1, <1>2, <2>1 DEF ResolveDevices, Authorized
<1>5. ResolveDevices(s, h, allowEnv, always) = SelectDevices(s.env, auth, always, h)
  BY <1>1 DEF ResolveDevices, Authorized, auth
<1>6. CASE t.env = s.env
  BY <1>4, <1>5, <1>6
<1>7. CASE t.env["MODULES"] = <<JoinModules(ids, h)>>
  <2>1. /\ \A a \in auth : h.module[a] \in Ident
        /\ \A a, b \in auth : h.module[a] = h.module[b] => a = b
    BY <1>3 DEF ModulesKnown
  <2>2. ~ \E a \in ids : ids = {a} /\ h.module[a] = Empty
    BY <1>1, <2>1, TokensDistinct
  <2>3. JoinModules(ids, h).form = "list" /\ JoinModules(ids, h).toks = {h.module[a] : a \in ids}
    BY <2>2 DEF JoinModules
  <2>4. SelectDevices(s.env, auth, always, h) = Success(ids)
    BY <1>5
  <2>5. auth \in SUBSET Accel /\ ids \in SUBSET auth
    BY <1>1, <1>3
  <2>6. SelectDevices(t.env, auth, always, h) = Success(ids)
    BY <1>7, <2>1, <2>3, <2>4, <2>5, ModulesSelectAgain
  <2> QED
    BY <1>4, <2>6
<1> QED
  BY <1>6, <1>7

\* Uverbs nodes allocate no accelerator: their numbers are none of one.
LEMMA UverbsAllocateNothing ==
  ASSUME NEW s \in OciSpec, NEW g \in Host, g \in Inventory, NEW ids \in SUBSET Accel
  PROVE  AllocationSame(s, AddNodes(s, NodesOf("uverb", g.uverb, ids)))
<1> DEFINE nodes == NodesOf("uverb", g.uverb, ids)
<1> DEFINE t == AddDevicesToSpec(s, nodes)
<1> DEFINE new == {n.dev : n \in nodes}
                  \ UNION {r.devs : r \in {x \in Elems(t.rules) : x.exact}}
<1> DEFINE rule == [allow |-> TRUE, type |-> "c", exact |-> TRUE,
                    devs |-> new, access |-> Access]
<1> DEFINE u == AddNodes(s, nodes)
<1>0. nodes \in SUBSET [path : Path, dev : DevNum]
  BY NodesOfType DEF Inventory
<1>1. t \in OciSpec /\ t.rules = s.rules
      /\ t.devices = s.devices \cup {[path |-> n.path, type |-> "c", dev |-> n.dev] :
            n \in {m \in nodes : \A d \in s.devices : d.path # m.path}}
  BY <1>0, AddDevicesType DEF AddDevicesToSpec, OciSpec
<1>2. u = t \/ u = [t EXCEPT !.rules = Append(s.rules, rule)]
  BY <1>1 DEF AddNodes, AddAllowList
<1>3. u.devices = t.devices /\ u.rules \in {s.rules, Append(s.rules, rule)}
  BY <1>1, <1>2 DEF OciSpec
<1>4. rule \in Rule /\ s.rules \in Seq(Rule) /\ rule.devs \subseteq {n.dev : n \in nodes}
  <2>0. nodes \in SUBSET [path : Path, dev : DevNum]
    BY <1>0
  <2> HIDE DEF nodes, t
  <2>1. new \in SUBSET DevNum /\ new \subseteq {n.dev : n \in nodes}
    BY <2>0
  <2> HIDE DEF new
  <2>2. rule \in Rule /\ rule.devs = new
    BY <2>1 DEF Rule, Access
  <2>3. s.rules \in Seq(Rule)
    BY DEF OciSpec
  <2> HIDE DEF rule
  <2> QED
    BY <2>1, <2>2, <2>3
<1>5. ASSUME NEW h \in Host, NEW a \in Accel, h.accel[a].kind = "char"
      PROVE  \A n \in nodes : n.dev # h.accel[a].dev
  <2>1. \A b \in Accel : g.uverb[b].kind # "absent" => g.uverb[b].dev # h.accel[a].dev
    BY <1>5, MajorsDistinct
  <2> QED
    BY <2>1 DEF NodesOf
<1> HIDE DEF u, t, rule, nodes
<1>6. ASSUME NEW h \in Host, NEW a \in Accel, h.accel[a].kind = "char"
      PROVE  a \in AllocatedDevices(u, h) <=> a \in AllocatedDevices(s, h)
  <2>1. h.accel[a].dev \notin rule.devs
    BY <1>4, <1>5, <1>6
  <2>2. \A x : Granted(u.rules, h.accel[a].dev, x) <=> Granted(s.rules, h.accel[a].dev, x)
    <3>1. \A x : Granted(Append(s.rules, rule), h.accel[a].dev, x)
                 <=> Granted(s.rules, h.accel[a].dev, x)
      BY <1>4, <2>1, AppendOtherRule
    <3> QED
      BY <1>3, <3>1
  <2>3. (\E d \in u.devices : d.type = "c" /\ d.dev = h.accel[a].dev)
        <=> (\E d \in s.devices : d.type = "c" /\ d.dev = h.accel[a].dev)
    BY <1>1, <1>3, <1>5, <1>6
  <2> QED
    BY <2>2, <2>3 DEF AllocatedDevices
<1>7. ASSUME NEW h \in Host PROVE AllocatedDevices(u, h) = AllocatedDevices(s, h)
  BY <1>6 DEF AllocatedDevices
<1> QED
  BY <1>7 DEF AllocationSame, u, nodes

\* What is known of the selectors of the spec in memory, and, from request to
\* request, of config.json on the host it was saved on.
SelectorInv ==
  /\ pc = "accelerators" => cfg.allowEnv
  /\ pc \in Running \ {"exec"} =>
       /\ cfg.allowEnv \/ AllocationSame(loaded, mem)
       /\ \A k \in {"DEVICES", "PCI"} : mem.env[k] = loaded.env[k]
       /\ cfg.mode = "legacy" => mem.env = loaded.env
  /\ steady /\ cfg.mode # "legacy"
       /\ pc \in {"uverbs", "createRuntime", "netinfo", "gaudinet", "save", "write", "rename"}
     => mem.env["MODULES"] = <<JoinModules(req, host)>>
  /\ last # None /\ ModulesKnown(last.host) =>
       ResolveDevices(disk, last.host, cfg.allowEnv, cfg.alwaysMount) = Success(last.ids)

LEMMA SelectorInit == Init => SelectorInv
BY DEF Init, SelectorInv, Running

LEMMA SelectorNext == TypeInv /\ EditInv /\ HandInv /\ SelectorInv /\ [Next]_vars => SelectorInv'
<1> SUFFICES ASSUME TypeInv, EditInv, HandInv, SelectorInv, [Next]_vars PROVE SelectorInv'
  OBVIOUS
<1>0. pc \in Running \ {"exec"} => /\ mem \in OciSpec /\ disk \in OciSpec /\ disk # NoSpec
                                   /\ disk = loaded /\ Grows(loaded, mem)
  BY DEF TypeInv, TypeOK, EditInv, HandInv
<1>h. host \in Inventory /\ host \in Host /\ req \in SUBSET Accel
  BY HostType DEF TypeInv, TypeOK
<1>t. TypeInv'
  BY TypeNext
<1>m. pc' \in Running \ {"exec"} => mem' \in OciSpec
  BY <1>t DEF TypeInv, TypeOK
<1>i. ASSUME pc' \in Idle \cup {"exec"}, UNCHANGED <<cfg, disk, last>> PROVE SelectorInv'
  BY <1>i DEF SelectorInv, Idle, Running
\* A step of the edits that leaves the selectors and the allocation alone.
<1>e. ASSUME pc \in Running \ {"exec"}, pc' \in Running \ {"exec", "accelerators"},
             UNCHANGED <<cfg, host, disk, req, loaded, steady, last>>,
             cfg.allowEnv \/ AllocationSame(mem, mem'),
             mem'.env["DEVICES"] = mem.env["DEVICES"], mem'.env["PCI"] = mem.env["PCI"],
             cfg.mode = "legacy" => mem'.env = mem.env,
             cfg.mode # "legacy" /\ steady
               /\ pc' \in {"uverbs", "createRuntime", "netinfo", "gaudinet", "save", "write", "rename"}
               => mem'.env["MODULES"] = <<JoinModules(req, host)>>
      PROVE  SelectorInv'
  BY <1>e DEF SelectorInv, AllocationSame
<1>1. CASE Create
  <2>1. /\ pc' \in {"exec", "failed", "resolve"} /\ mem' = disk /\ loaded' = disk
        /\ UNCHANGED <<cfg, disk, last>>
    BY <1>1 DEF Create, AfterLoad, bundle
  <2> QED
    BY <2>1 DEF SelectorInv, Running, AllocationSame
<1>2. CASE Resolve
  <2>1. /\ pc = "resolve" /\ pc' \in {"rejected", "exec", "failed", "prestart", "accelerators", "modules"}
        /\ pc' = "accelerators" => cfg.allowEnv
        /\ UNCHANGED <<cfg, host, disk, mem, loaded, steady, last>>
    BY <1>2 DEF Resolve, FirstEdit, hostVars, bundle, history
  <2> QED
    BY <2>1 DEF SelectorInv, Running
<1>3. CASE Fail
  BY <1>i, <1>3 DEF Fail, Continue, bundle, history, Idle
<1>4. CASE (AddPrestartHook \/ AddCreateRuntimeHook) /\ ~Fail
  <2>1. /\ pc \in {"prestart", "createRuntime"} /\ pc' \in {"save", "netinfo"} /\ mem \in OciSpec
        /\ pc = "prestart" => cfg.mode = "legacy"
        /\ \/ mem' = [mem EXCEPT !.prestart = AddHook(@, req)]
           \/ mem' = [mem EXCEPT !.createRuntime = AddHook(@, req)]
        /\ UNCHANGED <<cfg, host, disk, req, loaded, steady, last>>
    BY <1>0, <1>4 DEF AddPrestartHook, AddCreateRuntimeHook, Continue, HandInv, Running, hostVars,
       bundle, history
  <2>2. mem'.env = mem.env /\ mem'.devices = mem.devices /\ mem'.rules = mem.rules
    BY <2>1 DEF OciSpec
  <2>3. AllocationSame(mem, mem')
    BY <2>2 DEF AllocationSame, AllocatedDevices
  <2>4. cfg.mode # "legacy" /\ steady => mem'.env["MODULES"] = <<JoinModules(req, host)>>
    BY <2>1, <2>2 DEF SelectorInv
  <2> QED
    BY <1>e, <2>1, <2>2, <2>3, <2>4 DEF Running
<1>5. CASE AddAcceleratorDevices /\ ~Fail
  <2> DEFINE nodes == NodesOf("accel", host.accel, req)
                      \cup NodesOf("control", host.control, req)
  <2>1. /\ pc = "accelerators" /\ pc' = "modules" /\ cfg.allowEnv /\ mem \in OciSpec
        /\ mem' = AddNodes(mem, nodes)
        /\ UNCHANGED <<cfg, host, disk, req, loaded, steady, last>>
    BY <1>0, <1>5 DEF AddAcceleratorDevices, Continue, SelectorInv, Running, hostVars, bundle, history
  <2>2. nodes \in SUBSET [path : Path, dev : DevNum]
    BY <1>h, NodesOfType DEF Inventory
  <2>3. \A n \in nodes : n.path[2] \in req
    BY DEF NodesOf
  <2> HIDE DEF nodes
  <2>4. AddNodes(mem, nodes).env = mem.env
    BY <1>h, <2>1, <2>2, <2>3, SelfExtends, AddNodesExtends
  <2> QED
    BY <1>e, <2>1, <2>4 DEF Running
<1>6. CASE AddModuleIDs /\ ~Fail
  <2>1. /\ pc = "modules" /\ pc' \in {"uverbs", "createRuntime"} /\ cfg.mode # "legacy"
        /\ mem \in OciSpec /\ mem' = AddEnvVar(mem, "MODULES", JoinModules(req, host))
        /\ UNCHANGED <<cfg, host, disk, req, loaded, steady, last>>
    BY <1>0, <1>6 DEF AddModuleIDs, Continue, HandInv, Running, hostVars, bundle, history
  <2>2. /\ mem'.env = [mem.env EXCEPT !["MODULES"] = <<JoinModules(req, host)>>]
        /\ mem'.devices = mem.devices /\ mem'.rules = mem.rules
    BY <2>1 DEF AddEnvVar, OciSpec
  <2>3. /\ mem'.env["DEVICES"] = mem.env["DEVICES"] /\ mem'.env["PCI"] = mem.env["PCI"]
        /\ mem'.env["MODULES"] = <<JoinModules(req, host)>>
    BY <2>1, <2>2 DEF OciSpec, Env, EnvKeys, SelectionKeys
  <2>4. AllocationSame(mem, mem')
    BY <2>2 DEF AllocationSame, AllocatedDevices
  <2> QED
    BY <1>e, <2>1, <2>3, <2>4 DEF Running
<1>7. CASE AddUverbsDevices /\ ~Fail
  <2> DEFINE nodes == NodesOf("uverb", host.uverb, req)
  <2>1. /\ pc = "uverbs" /\ pc' = "createRuntime" /\ mem \in OciSpec /\ mem' = AddNodes(mem, nodes)
        /\ UNCHANGED <<cfg, host, disk, req, loaded, steady, last>>
    BY <1>0, <1>7 DEF AddUverbsDevices, Continue, Running, hostVars, bundle, history
  <2>2. nodes \in SUBSET [path : Path, dev : DevNum] /\ \A n \in nodes : n.path[2] \in req
    BY <1>h, NodesOfType DEF Inventory, NodesOf
  <2>3. AllocationSame(mem, mem')
    BY <1>h, <2>1, UverbsAllocateNothing
  <2> HIDE DEF nodes
  <2>4. AddNodes(mem, nodes).env = mem.env
    BY <1>h, <2>1, <2>2, SelfExtends, AddNodesExtends
  <2>5. cfg.mode # "legacy" /\ steady => mem.env["MODULES"] = <<JoinModules(req, host)>>
    BY <2>1 DEF SelectorInv
  <2> QED
    BY <1>e, <2>1, <2>3, <2>4, <2>5 DEF Running
<1>8. CASE NetworkFiles \/ CreateTemp \/ WriteTemp
  <2>1. /\ pc \in {"netinfo", "gaudinet", "save", "write"}
        /\ pc' \in {"gaudinet", "save", "write", "rename"} /\ mem \in OciSpec
        /\ UNCHANGED <<cfg, host, disk, req, loaded, steady, last>>
        /\ mem' \in {mem} \cup {AddErrorEnvVar(mem, msg) : msg \in Message}
        /\ cfg.mode = "legacy" => mem' = mem
    BY <1>0, <1>8 DEF NetworkFiles, GenerateNetinfo, CopyGaudinet, PutAside, Written, Message,
       CreateTemp, WriteTemp, Continue, HandInv, Running, hostVars, bundle, history
  <2>2. /\ mem'.devices = mem.devices /\ mem'.rules = mem.rules
        /\ \A k \in EnvKeys \ {"ERROR"} : mem'.env[k] = mem.env[k]
    BY <2>1 DEF AddErrorEnvVar, AddEnvVar, OciSpec, Env
  <2>3. AllocationSame(mem, mem')
    BY <2>2 DEF AllocationSame, AllocatedDevices
  <2>4. /\ mem'.env["DEVICES"] = mem.env["DEVICES"] /\ mem'.env["PCI"] = mem.env["PCI"]
        /\ mem'.env["MODULES"] = mem.env["MODULES"]
    BY <2>2 DEF EnvKeys, SelectionKeys
  <2>5. cfg.mode # "legacy" /\ steady => mem.env["MODULES"] = <<JoinModules(req, host)>>
    BY <2>1 DEF SelectorInv
  <2> QED
    BY <1>e, <2>1, <2>3, <2>4, <2>5 DEF Running
<1>9. CASE RenameTemp
  <2>1. /\ pc = "rename" /\ pc' = "exec" /\ disk' = mem /\ mem \in OciSpec /\ loaded \in OciSpec
        /\ last' = IF steady THEN [ids |-> req, host |-> host] ELSE None
        /\ UNCHANGED <<cfg, host>>
    BY <1>0, <1>9 DEF RenameTemp, hostVars, Running
  <2>2. CASE ~steady
    BY <2>1, <2>2 DEF SelectorInv, Running
  <2>3. CASE steady /\ ModulesKnown(host)
    <3>1. /\ req # {} /\ Grows(loaded, mem) /\ (cfg.allowEnv \/ AllocationSame(loaded, mem))
          /\ \A k \in {"DEVICES", "PCI"} : mem.env[k] = loaded.env[k]
          /\ mem.env = loaded.env \/ mem.env["MODULES"] = <<JoinModules(req, host)>>
      BY <1>0, <2>1, <2>3 DEF EditInv, SelectorInv, Running
    <3>2. ResolveDevices(loaded, host, cfg.allowEnv, cfg.alwaysMount) = Success(req)
      BY <2>1, <2>3 DEF HandInv, Entitled, Asked, Running
    <3>3. cfg.allowEnv \in BOOLEAN /\ cfg.alwaysMount \in BOOLEAN
      BY ParametersTyped DEF TypeInv, TypeOK
    <3>4. ResolveDevices(mem, host, cfg.allowEnv, cfg.alwaysMount) = Success(req)
      BY <1>h, <2>1, <2>3, <3>1, <3>2, <3>3, RetryResolves
    <3>5. last'.ids = req /\ last'.host = host
      BY <2>1, <2>3
    <3> QED
      BY <2>1, <3>4, <3>5 DEF SelectorInv, Running
  <2>4. CASE steady /\ ~ModulesKnown(host)
    <3>1. last'.host = host
      BY <2>1, <2>4
    <3> QED
      BY <2>1, <2>4, <3>1 DEF SelectorInv, Running
  <2> QED
    BY <2>2, <2>3, <2>4
<1>10. CASE SaveFails \/ ExecRunc \/ Kill
  BY <1>i, <1>10 DEF SaveFails, ExecRunc, Kill, Continue, Idle, bundle, history
<1>11. CASE HostChange
  <2>1. steady' = FALSE /\ UNCHANGED <<cfg, disk, pc, mem, loaded, last>>
    BY <1>11 DEF HostChange, bundle, runVars
  <2> QED
    BY <2>1 DEF SelectorInv
<1>12. CASE UNCHANGED vars
  <2>1. UNCHANGED <<cfg, host, disk, pc, mem, req, loaded, steady, last>>
    BY <1>12 DEF vars, hostVars, bundle, runVars, history
  <2> QED
    BY <2>1 DEF SelectorInv
<1> QED
  BY <1>1, <1>2, <1>3, <1>4, <1>5, <1>6, <1>7, <1>8, <1>9, <1>10, <1>11, <1>12
  DEF Next, Request, EditSpec, SaveSpecs

\* To call create again selects the same devices: the module ids a request adds
\* to the environment never conflict with the selectors it came with.
THEOREM RetriesSelectTheSame == Spec => RetrySelectsSame
<1>1. Spec => [](TypeInv /\ EditInv /\ HandInv /\ SelectorInv)
  BY TypeInit, TypeNext, EditInit, EditNext, HandInit, HandNext, SelectorInit, SelectorNext, PTL DEF Spec
<1>2. TypeInv /\ EditInv /\ SelectorInv /\ [Next]_vars =>
        [pc = "resolve" /\ pc' # "resolve" /\ pc' # "killed" /\ steady
           /\ last # None /\ last.host = host /\ ModulesKnown(host)
         => req' = last.ids /\ pc' # "rejected"]_vars
  <2> SUFFICES ASSUME EditInv, SelectorInv, Next, pc = "resolve", pc' # "resolve", pc' # "killed",
                      last # None, last.host = host, ModulesKnown(host)
               PROVE  req' = last.ids /\ pc' # "rejected"
    OBVIOUS
  <2>1. Resolve
    BY DEF Next, Request, Create, EditSpec, AddPrestartHook, AddAcceleratorDevices, AddModuleIDs,
       AddUverbsDevices, AddCreateRuntimeHook, NetworkFiles, GenerateNetinfo, CopyGaudinet, SaveSpecs,
       CreateTemp, WriteTemp, RenameTemp, SaveFails, ExecRunc, Kill, HostChange, Idle, runVars
  <2>2. ResolveDevices(mem, host, cfg.allowEnv, cfg.alwaysMount) = Success(last.ids)
    BY DEF EditInv, SelectorInv
  <2>3. Success(last.ids).ok /\ Success(last.ids).ids = last.ids
    BY DEF Success
  <2> QED
    BY <2>1, <2>2, <2>3 DEF Resolve, FirstEdit
<1> QED
  BY <1>1, <1>2, PTL DEF Spec, RetrySelectsSame
=============================================================================
