---- MODULE CgroupFilter ----
(***************************************************************************)
(* Adding the devices of a container to its device cgroup:                 *)
(* handlePrestart of the cli finds version and path of the cgroup, then    *)
(* calls AddDeviceRules for the accelerators and for the uverbs nodes      *)
(* (cgroup/v1.go, cgroup/v2.go and the kernel calls in cgroup/ebpf.go).    *)
(* What a generated program decides is the subject of DeviceFilter; here a *)
(* program allows what its base allows and the rules put in front of it.   *)
(* An agent (systemd) that owns the cgroup may apply its policy again at   *)
(* any time.                                                               *)
(***************************************************************************)
EXTENDS Integers, SequencesExt, FiniteSetsExt

CONSTANTS
  Dev,           \* device numbers
  Hosts,         \* what /proc says about the container
  Calls,         \* the lists of device numbers handleMounts is called with
  Policies,      \* the sets of devices the agent may allow
  QuerySize,     \* the size of the first query (64 in the code)
  MaxRetries,    \* the queries that are tried (10 in the code)
  KernelLimit,   \* programs the kernel attaches to one cgroup
  MaxFaults,     \* bound on kernel and file errors
  MaxReloads     \* bound on the agent's actions

VARIABLES
  host,          \* as in Hosts
  programs,      \* v2: the programs attached to the cgroup
  allowed,       \* v1: the devices the cgroup allows
  policy,        \* what the agent wants allowed
  created,       \* programs loaded so far, which numbers them
  pc, calls,     \* the cli: next step, calls still to make
  version, rootPrefix, path,
  rules,         \* v1: rules of this call still to be written
  size, retries, ids,  \* v2: the query
  old, new,      \* v2: programs to detach, programs to attach
  container,     \* "created", "started" or "failed"
  faults, reloads,
  asked,         \* devices of the calls made
  before,        \* devices the cgroup allowed when the cli had found its path
  disturbed      \* the agent acted after the cli first looked at the cgroup

kernel == <<programs, allowed, policy, created>>
query  == <<size, retries, ids>>
cli    == <<calls, version, rootPrefix, path, rules, query, old, new>>
env    == <<host, container, faults, reloads, asked, before, disturbed>>
vars   == <<kernel, pc, cli, env>>

ASSUME NumbersPositive ==
  QuerySize \in Nat /\ MaxRetries \in Nat \ {0} /\ KernelLimit \in Nat \ {0}

ASSUME CallsTyped == Calls \subseteq Seq(Seq(Dev))

\* A program as the kernel has it: "own" if the agent knows it as its own;
\* "readable" is false where a security module keeps the cli from opening it.
Program(id, own, readable, base) ==
  [id |-> id, own |-> own, readable |-> readable, base |-> base, added |-> {}]

\* The order in which they were attached.
First(progs) == CHOOSE p \in progs : \A q \in progs : p.id <= q.id

\* The kernel asks version 1 where it controls devices, and every program.
Access == {d \in Dev : /\ "devices" \in host.subsystems => d \in allowed
                       /\ \A p \in programs : d \in p.base \cup p.added}

----------------------------------------------------------------------------
(* Version and path                                                        *)

\* The lines of /proc/<pid>/cgroup by their subsystem; "" is the unified one.
CGroupVersion(subsystems) == IF "devices" \in subsystems THEN 1
                             ELSE IF "" \in subsystems THEN 2 ELSE 0

Matches(v, line) == IF v = 1 THEN line.fs = "cgroup" /\ line.base = "devices"
                             ELSE line.fs = "cgroup2"

\* The line of /proc/<pid>/mountinfo that counts: the first that matches,
\* provided no line before it is malformed.
MountLines(v) ==
  {i \in DOMAIN host.mountinfo :
     /\ Matches(v, host.mountinfo[i])
     /\ \A j \in 1 .. i - 1 : ~Matches(v, host.mountinfo[j]) /\ host.mountinfo[j].fs # "malformed"}

\* Paths are sequences of names; the root directory is <<>>.
TrimPrefix(p, s) == IF IsPrefix(p, s) THEN SubSeq(s, Len(p) + 1, Len(s)) ELSE s

\* Whether path p is the container's cgroup where the line mounts the hierarchy
\* from its prefix on.
IsDirectory(line, p) ==
  /\ IsPrefix(line.prefix, host.cgroup)
  /\ p = line.mount \o TrimPrefix(line.prefix, host.cgroup)

PathOpens == \E i \in MountLines(version) : IsDirectory(host.mountinfo[i], path)

----------------------------------------------------------------------------

At(here) == pc = here
Goto(there) == pc' = there

\* An error goes up through AddDeviceRules, handleMounts and handlePrestart:
\* the hook fails and runc does not start the container.
HookFails == Goto("done") /\ container' = "failed"

Fault == faults < MaxFaults /\ faults' = faults + 1 /\ HookFails

Init == /\ host \in Hosts
        /\ policy \in Policies
        /\ programs \in IF "devices" \in host.subsystems THEN {{}}
                       ELSE {{Program(i, i = 1, i \notin hidden, policy) : i \in 1 .. n} :
                               n \in (IF policy = Dev THEN 0 ELSE 1) .. 2, hidden \in SUBSET {1, 2}}
        /\ created = 2
        /\ allowed = policy
        /\ pc = "version" /\ calls \in Calls
        /\ version = 0 /\ rootPrefix = <<>> /\ path = <<>> /\ rules = <<>>
        /\ size = QuerySize /\ retries = 0 /\ ids = {}
        /\ old = {} /\ new = {}
        /\ container = "created" /\ faults = 0 /\ reloads = 0
        /\ asked = {} /\ before = {} /\ disturbed = FALSE

\* CGroupVersion and New
DetectVersion ==
  /\ At("version")
  /\ version' = CGroupVersion(host.subsystems)
  /\ IF version' = 0 THEN HookFails ELSE Goto("mount") /\ UNCHANGED container
  /\ UNCHANGED <<kernel, calls, rootPrefix, path, rules, query, old, new,
                 host, faults, reloads, asked, before, disturbed>>

\* DeviceCGroupMountPath returns the prefix and the mount point, in this order;
\* handlePrestart takes the mount point for cgrpRootPrefix and only logs the prefix.
MountPath ==
  /\ At("mount")
  /\ IF \E i \in MountLines(version) : ~host.mountinfo[i].relative
     THEN /\ \E i \in MountLines(version) : rootPrefix' = host.mountinfo[i].mount
          /\ Goto("root") /\ UNCHANGED container
     ELSE HookFails /\ UNCHANGED rootPrefix
  /\ UNCHANGED <<kernel, calls, version, path, rules, query, old, new,
                 host, faults, reloads, asked, before, disturbed>>

\* DeviceCGroupRootPath takes rootPrefix off the cgroup, and handlePrestart
\* joins the two.
RootPath ==
  /\ At("root")
  /\ path' = rootPrefix \o TrimPrefix(rootPrefix, host.cgroup)
  /\ before' = Access
  /\ Goto("call")
  /\ UNCHANGED <<kernel, calls, version, rootPrefix, rules, query, old, new,
                 host, container, faults, reloads, asked, disturbed>>

\* handleMounts: the next list of devices, mounted, becomes rules.
Call ==
  /\ At("call") /\ calls # <<>>
  /\ calls' = Tail(calls)
  /\ \/ /\ rules' = Head(calls)
        /\ asked' = asked \cup Range(Head(calls))
        /\ Goto(IF version = 1 THEN "rule" ELSE "open")
        /\ UNCHANGED <<container, faults>>
     \/ Fault /\ UNCHANGED <<rules, asked>>
  /\ UNCHANGED <<kernel, version, rootPrefix, path, query, old, new, host, reloads, before, disturbed>>

\* The rest of the hook succeeds, and runc starts the container.
Start ==
  /\ At("call") /\ calls = <<>>
  /\ Goto("done") /\ container' = "started"
  /\ UNCHANGED <<kernel, cli, host, faults, reloads, asked, before, disturbed>>

----------------------------------------------------------------------------
(* Version 1: devices.allow is opened and written rule by rule             *)

AddDeviceRule ==
  /\ At("rule")
  /\ \/ rules = <<>> /\ Goto("call") /\ UNCHANGED <<allowed, rules, container, faults>>
     \/ /\ rules # <<>> /\ PathOpens
        /\ allowed' = allowed \cup {Head(rules)}
        /\ rules' = Tail(rules)
        /\ UNCHANGED <<pc, container, faults>>
     \/ /\ rules # <<>>
        /\ \/ Fault
           \/ ~PathOpens /\ HookFails /\ UNCHANGED faults
        /\ UNCHANGED <<allowed, rules>>
  /\ UNCHANGED <<programs, policy, created, calls, version, rootPrefix, path, query, old, new,
                 host, reloads, asked, before, disturbed>>

----------------------------------------------------------------------------
(* Version 2: every program that is found is replaced                      *)

Open ==
  /\ At("open")
  /\ \/ PathOpens /\ Goto("query") /\ UNCHANGED <<container, faults>>
     \/ ~PathOpens /\ HookFails /\ UNCHANGED faults
     \/ Fault
  /\ size' = QuerySize /\ retries' = 0
  /\ old' = {} /\ new' = {}
  /\ UNCHANGED <<kernel, calls, version, rootPrefix, path, rules, ids, host, reloads, asked, before, disturbed>>

\* Mutant: the size the kernel reported is not taken over.
AskTheSame(n) == UNCHANGED <<size, retries>>

AskForMore(n) == size' = n /\ retries' = retries + 1

\* FindAttachedCgroupDeviceFilters: ENOSPC comes with the number there is.
Query ==
  /\ At("query")
  /\ \/ /\ retries < MaxRetries
        /\ IF Cardinality(programs) > size
           THEN AskForMore(Cardinality(programs)) /\ UNCHANGED <<ids, pc>>
           ELSE ids' = programs /\ Goto("fetch") /\ UNCHANGED <<size, retries>>
        /\ UNCHANGED <<container, faults>>
     \/ /\ retries = MaxRetries
        /\ HookFails /\ UNCHANGED <<query, faults>>
     \/ Fault /\ UNCHANGED query
  /\ UNCHANGED <<kernel, calls, version, rootPrefix, path, rules, old, new, host, reloads, asked, before, disturbed>>

\* NewProgramFromID: one that may not be opened is skipped, one that has gone
\* is an error.
Fetch ==
  /\ At("fetch")
  /\ \/ ids = {} /\ Goto("generate") /\ UNCHANGED <<ids, old, container>>
     \/ /\ ids # {} /\ First(ids) \in programs
        /\ ids' = ids \ {First(ids)}
        /\ old' = IF First(ids).readable THEN old \cup {First(ids)} ELSE old
        /\ UNCHANGED <<pc, container>>
     \/ /\ ids # {} /\ First(ids) \notin programs
        /\ HookFails /\ UNCHANGED <<ids, old>>
  /\ UNCHANGED <<kernel, calls, version, rootPrefix, path, rules, size, retries, new,
                 host, faults, reloads, asked, before, disturbed>>

\* Mutant: the rules of an earlier call are not in the instructions taken over.
PrependToBase(p, devs) == devs

Prepend(p, devs) == p.added \cup devs

\* Info, Instructions and generateNewProgram.  Without a program the
\* generated one is refused by the kernel (ProgramLoads of DeviceFilter).
Generate ==
  /\ At("generate")
  /\ \/ /\ old # {}
        /\ new' = {[id    |-> created + Cardinality({q \in old : q.id <= p.id}),
                    own   |-> FALSE, readable |-> TRUE,
                    base  |-> p.base, added |-> Prepend(p, Range(rules))] : p \in old}
        /\ created' = created + Cardinality(old)
        /\ Goto("detach") /\ UNCHANGED <<container, faults>>
     \/ old = {} /\ HookFails /\ UNCHANGED <<new, created, faults>>
     \/ Fault /\ UNCHANGED <<new, created>>
  /\ UNCHANGED <<programs, allowed, policy, calls, version, rootPrefix, path, rules, query, old,
                 host, reloads, asked, before, disturbed>>

\* DetachCgroupDeviceFilter: fails when the program is attached no more.
Detach ==
  /\ At("detach")
  /\ \/ old = {} /\ Goto("attach") /\ UNCHANGED <<programs, old, container, faults>>
     \/ /\ old # {} /\ First(old) \in programs
        /\ programs' = programs \ {First(old)} /\ old' = old \ {First(old)}
        /\ UNCHANGED <<pc, container, faults>>
     \/ /\ old # {} /\ First(old) \notin programs
        /\ HookFails /\ UNCHANGED <<programs, old, faults>>
     \/ old # {} /\ Fault /\ UNCHANGED <<programs, old>>
  /\ UNCHANGED <<allowed, policy, created, calls, version, rootPrefix, path, rules, query, new,
                 host, reloads, asked, before, disturbed>>

\* Mutant: an error of attaching does not end the hook.
AttachFailsQuietly == faults < MaxFaults /\ faults' = faults + 1 /\ Goto("call") /\ UNCHANGED container

AttachFails == Fault

\* AttachCgroupDeviceFilter with BPF_F_ALLOW_MULTI
Attach ==
  /\ At("attach")
  /\ \/ new = {} /\ Goto("call") /\ UNCHANGED <<programs, new, container, faults>>
     \/ /\ new # {} /\ Cardinality(programs) < KernelLimit
        /\ programs' = programs \cup {First(new)} /\ new' = new \ {First(new)}
        /\ UNCHANGED <<pc, container, faults>>
     \/ /\ new # {} /\ Cardinality(programs) = KernelLimit
        /\ HookFails /\ UNCHANGED <<programs, new, faults>>
     \/ new # {} /\ AttachFails /\ UNCHANGED <<programs, new>>
  /\ UNCHANGED <<allowed, policy, created, calls, version, rootPrefix, path, rules, query, old,
                 host, reloads, asked, before, disturbed>>

----------------------------------------------------------------------------
(* The surroundings                                                        *)

Kill ==
  /\ ~At("done") /\ HookFails
  /\ UNCHANGED <<kernel, cli, host, faults, reloads, asked, before, disturbed>>

\* The agent applies a policy again: a program for it, attached in place of
\* the programs of its own that are still there.
Reload ==
  /\ reloads < MaxReloads /\ reloads' = reloads + 1
  /\ ~At("done")
  /\ policy' \in Policies
  /\ IF "devices" \in host.subsystems
     THEN allowed' = policy' /\ UNCHANGED <<programs, created>>
     ELSE LET others == {p \in programs : ~p.own}
          IN  /\ Cardinality(others) < KernelLimit
              /\ programs' = others \cup {Program(created + 1, TRUE, TRUE, policy')}
              /\ created' = created + 1
              /\ UNCHANGED allowed
  /\ disturbed' = (disturbed \/ pc \notin {"version", "mount", "root"})
  /\ UNCHANGED <<pc, cli, host, container, faults, asked, before>>

CliStep == \/ DetectVersion \/ MountPath \/ RootPath \/ Call \/ Start
           \/ AddDeviceRule
           \/ Open \/ Query \/ Fetch \/ Generate \/ Detach \/ Attach

Next == CliStep \/ Kill \/ Reload

Spec == Init /\ [][Next]_vars

\* The cli is a running process; its steps need not fail, and nothing is
\* assumed of its surroundings.
LiveSpec == Spec /\ WF_vars(CliStep /\ UNCHANGED faults)

----------------------------------------------------------------------------
(* Properties                                                              *)

\* The cgroup of a container that starts allows no more than the agent's
\* policy of the moment and the devices of the calls, although for a while no
\* program was attached at all: whatever fails, is killed or is changed by
\* the agent between the detaching and the attaching (v2.go:172-188), no
\* container starts without its filters.
NeverWider == container = "started" => Access \subseteq policy \cup asked

\* A container that starts may use every device of both calls and every device
\* it could use before them, in whichever version of cgroups controls devices,
\* if the cli could read the programs and the agent did not act after the cli
\* had found the path (AddDeviceRules).  A cgroup without programs allows
\* everything: a program of the rules alone would take the rest away (v2.go:129).
DevicesAllowed ==
  container = "started" /\ ~disturbed /\ (\A p \in programs : p.readable)
    => asked \cup before \subseteq Access

\* The rules go to the container's cgroup: DeviceCGroupMountPath "returns the
\* mount path (and its prefix)" (v1.go:36, v2.go:40) and DeviceCGroupRootPath
\* the cgroup "with the prefix possibly stripped off" (v1.go:104, v2.go:102),
\* so that the path stays right where a host mounts a part of the hierarchy.
PathIsContainers ==
  ~At("version") /\ ~At("mount") /\ ~At("root") /\ container # "failed" => PathOpens

\* The hook comes to an end: queries of a growing list are given up in time
\* (FindAttachedCgroupDeviceFilters).
HookConcludes == <>(container # "created")

====
