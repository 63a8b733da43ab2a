# Verification of gaudi-container-runtime

TLA+ models of the programs in this repository that make Gaudi accelerators
available in containers, the TLC runs that check them on small instances, and
TLAPS proofs of what matters most for every instance. Paths below are relative
to the repository.

## The system

| Part | State it keeps | Operations | Interacts with |
|---|---|---|---|
| Discovery and selection (`internal/discover`) | none; reads `/dev/accel`, `/sys` | `AllocatedDevices`, `ResolveDevices`, `SelectDevices`, identities, uverbs and external interfaces of accelerators | called by runtime, hook and cli, each at a moment of its own |
| `habana-container-runtime` | `config.json` of the bundle, temporary files next to it, network files in the root filesystem | `handleRequest` for `create`, `saveSpecs`, exec of runc | called by the engine, any number of times for a bundle; becomes runc |
| `habana-container-runtime-hook` | none; reads a `config.toml` of its own and the saved bundle | `doHook` for `prestart` and `createRuntime`: authorize again, run the cli | called by runc with `--devices` from the runtime, or by the engine's own hook file without |
| `habana-container-cli` | the container's mounts, device cgroup, network namespace and network files | `parseDevices`, `handlePrestart`, `exposeInterfaces` | run by the hook; its exit status decides whether the container starts |
| Network files (`internal/netinfo`) | `macAddrInfo.json`, `gaudinet.json` in the container | `Generate`, `GaudinetFile` | called by runtime and cli |
| Device cgroup (`cgroup`) | cgroup v1 files; eBPF programs of cgroup v2 | `AddDeviceRules` | called by the cli, twice; systemd changes the same programs |
| Configuration (`internal/config`, `habana-container-toolkit config`) | `config.toml` | `Load`, `getHookConfig`; `parseSetOption`, `SetPath`, `Save` | read by runtime and hook, from different places; written by an administrator |
| `habana-container-toolkit runtime configure`, builders (`internal/runtime`) | configuration files of containerd, CRI-O, docker | load, configure or remove, save, restart | an administrator or an installer, again and again; the engine reads the file when it is restarted |

What is hard in it:

* The same authorization is computed by two processes at two moments, from a
  spec one of them has edited meanwhile, under policies read from two places.
* `create` may be called again after any failure or kill; the bundle then holds
  what the earlier request wrote, and part of that (`HABANA_VISIBLE_MODULES`,
  hooks, cgroup rules, device nodes) is input to the new request.
* The host may change between any two look-ups.
* Files must be replaced whole; some errors are fatal, some are put aside in the
  environment, some are logged, and some mean success.
* The programs of a cgroup are detached before new ones are attached, while the
  agent that owns the cgroup may act.
* Configuration files are truncated, then written, by runs that may fail before
  the engine is restarted, and read meanwhile.
* Interfaces are passed on by a sequence of netlink requests that several
  containers issue at once, in namespaces that may outlive a failure.

What makes each part correct: *discovery* - nothing outside the authorized set
is ever selected, selectors agree or are refused; *runtime* - what reaches runc
is configured for exactly the entitled devices, whole, and gives no access the
engine did not; *hook and cli* - they come to the same devices, and a container
that starts has all of them; *interfaces* - a started container has complete
interfaces, and contention does not make everybody lose; *network files* - whole
for every reader, and of this request; *cgroup* - a container that starts has its
devices and no more than the agent's policy otherwise; *configuration* - no
opt-in by accident, and one policy for runtime and hook; *toolkit* - settings of
others are kept, a run can be repeated, and it is known when the engine is behind.

## Modules

| Module | Models | Composed of |
|---|---|---|
| `Discover` | selection over an inventory of the host and an OCI spec, as operators | |
| `BundleConfig` | abstract: what may happen to `config.json` | `Discover` for the data |
| `Runtime` | one create request, step by step, with the environment | extends `Discover`; implements `BundleConfig` |
| `Container` | engine, runc, hook and cli around `Runtime` | extends `Runtime` |
| `Interfaces` | `exposeInterfaces` in several namespaces | on its own |
| `NetInfoFile` | `Generate` and `GaudinetFile` as file operations of several writers | on its own |
| `DeviceFilter` | the eBPF program that is generated, and its execution | on its own |
| `CgroupFilter` | the device cgroup part of the cli, v1 and v2, with an agent | on its own; its programs are those of `DeviceFilter` by what they decide |
| `Toolkit` | `runtime configure` for docker, CRI-O and containerd | on its own |
| `HabanaConfig` | `config.toml`: `config` writes, runtime and hook read | on its own |
| `CommandLine` | the runtime's reading of its arguments, and runc's | on its own |
| `SelectLoop` | the loops of `ResolveDevices` as they run | extends `Discover` and is compared with it |
| `MCRuntime`, `MCContainer`, ... | instances for TLC | |
| `MCStartup` | what is read at a start, as one instance | `MCHabanaConfig`, `MCCommandLine` |
| `RuntimeProofs` | theorems about `Runtime` | |
| `ContainerProofs` | theorems about `Container` | extends `RuntimeProofs` |
| `InterfacesProofs`, `NetInfoFileProofs`, `ToolkitProofs`, `SelectLoopProofs` | theorems about the module of that name | |
| `CgroupProofs` | theorems about the device cgroup | `CgroupFilter`, `DeviceFilter` |
| `StartupProofs` | theorems about `HabanaConfig` and `CommandLine` | extends both |

### Discover

An *inventory* is one look at the host: node and number of each
`accelN`, `accel_controlDN` and uverbs device, `module_id`, `pci_addr`, and the
state of the network interface. A *spec* is what the code looks at in
`config.json`. Strings are members of sets that only have to be distinct where
the code compares them. Three abstractions: an entry of the environment is kept
per key (nothing depends on the order of entries with different keys); cgroup
rules that differ only in their number are one record when they are adjacent; a
rule either names a number or is a wildcard.

### Runtime

`pc` follows `handleRequest`: `Create` (load; `AfterLoad` has the early returns),
`Resolve`, then for legacy mode `AddPrestartHook`, for OCI mode
`AddAcceleratorDevices`, `AddModuleIDs`, `AddUverbsDevices`,
`AddCreateRuntimeHook`, `GenerateNetinfo`, `CopyGaudinet`, and for both
`CreateTemp`, `WriteTemp`, `RenameTemp` (or `SaveFails`), `ExecRunc`. `mem` is
the spec in memory, `disk` is `config.json`, `temps` counts temporary files,
`files` are the network files. `Kill` may hit at each step, `HostChange` between
any two. History variables (`origin`, `loaded`, `errs`, `steady`, `last`,
`crashes`) only serve the properties.

### Container

The engine calls `create`; runc makes the container from the saved bundle and
runs its hooks in order (external, modelled from how the code is called). A hook
takes the spec and its own configuration (`hcfg`, any member of `HookConfig`,
independent of the runtime's), authorizes (`GetContainerConfig`), and runs the
cli (`RunCli`), which parses and filters the devices, mounts and allows nodes
(prestart only), writes the network file and exposes interfaces; each of these
may fail after any part of its work, and `KillHook` may hit at each step.
`cont` is what the container has got. The namespaces here die with the
container; those of pods are the subject of `Interfaces`.

Mounting in detail: `HandleMounts` mounts the nodes one by one, then allows them
in the cgroup. `mountHLDevice` leaves out a node that exists under the root
filesystem already; whether the bundle's own nodes are visible there at that
moment depends on the runtime below, so the model takes both.

### Interfaces

A cli takes its interfaces one by one (`Take`), skips those that are in the
namespace already or down, adds a passthru macvlan under a temporary name
(`AddLink`), reads addresses and routes (`Query`), then inside the namespace
renames, addresses, sets up and routes. Any step may fail or be killed. The
kernel's rule that an interface carries one passthru macvlan is external. So is
what `LinkDel` does: the macvlan is created directly in the container's
namespace, the deferred `LinkDel` looks for it in the host's and finds nothing
(if it did not, it would also delete the interface after a success). A failed
request thus leaves its macvlan behind, and with a pod the next request meets it.
Interfaces are numbered in the order in which all clis find them (that of the
sorted accelerator ids).

### NetInfoFile

A writer is one call: `Generate` (macAddrInfo.json) or `GaudinetFile`
(gaudinet.json), by runtime or cli, also of a request that is repeated while the
one before still runs. The steps are those of the code: the source is looked at
and opened, `symlinkCheck`, the directories one by one (looked at, made, opened),
`collect`, the name looked at, temporary file, writes, rename or removal. Names
hold inodes, so a reader that has a file open keeps its inode whatever happens to
the name. `Unreadable` and `NetConfig` stand for the reading of sysfs. The host
may replace its gaudinet file and sysfs may change (`Replace`).

### DeviceFilter

Instructions, blocks and jumps of `ebpf.go`: a rule appends a block that jumps to
the next one when a test fails (`AppendDevice`), the attached program is the last
block (`Finalize`). `Resolve` is what the loader does with labels, `Verified` what
of the kernel's verifier the code depends on: no register is read unwritten,
jumps go forward and stay inside, the last instruction is an exit.
`Ask` and `Step` run the attached program, one instruction a step; `Decides` is
what a program comes to when it runs alone, and is what the engine's own program
is taken to say. The code generates no unconditional jump (`Ja`), but systemd's
programs have them (`NullAgain`). What is attached before has no labels and was taken by the kernel,
or is the bare exit the code starts from where nothing is attached
(`ProgramsAssumption`); rules are those of `convertDevInfoToDevRule`
(`RulesAssumption`); a context is two half words and two numbers
(`ContextsAssumption`). Registers hold numbers: a mask of
accesses is `And`, bit by bit. Widening
conversions to 32 bits are left out: device numbers have fewer.

### CgroupFilter

The path from `handlePrestart` (version, mount path, root path) to `AddDeviceRules`:
for v1 a write a rule, for v2 `Query` (with the size the kernel reports, up to a
number of retries), `Fetch` by id, `Generate`, `Detach` and `Attach` program by
program. A program is what its base allows and the rules put in front of it. The
agent (`Reload`) puts its own program in place of its own, as systemd does; the
cli's programs are not known to it. `MountPath` takes over what
`DeviceCGroupMountPath` returns second, the mount point, as `handlePrestart` does
for `cgrpRootPrefix`; `RootPath` takes that off the cgroup, where it is not found,
and joins the two. The path is thus mount point and cgroup: the right directory
(`PathOpens`) wherever a hierarchy is mounted from its root, and none where a part
of it is mounted. `before` remembers what the cgroup allowed when the cli had the
path.

### Toolkit

A run loads the file with its engine's parser, changes the tables in memory,
compares, saves (truncates, then writes) and restarts the engine. Runs follow one
another. A configuration is kept to the table of runtimes, an entry of somebody
else in it, our entry, the features, and all the rest as one value. The single
keys of an entry are one value, its directory. What a parser makes of a file cut
off anywhere is any of what it may be: refused, or for TOML a configuration
without our tables.

### HabanaConfig

Settings are one of each type the code tells apart, in the order in which they
are written; texts are one of each kind `parseSetOption` and reflection tell
apart. `Apply` is `SetPath` for an option, `Truncate` and `Write` are `Save`. A
reader of a file that is cut off finds the settings before the cut and defaults
for the rest, or a file it refuses. `RuntimeLoad` is `config.Load` at
its path, `HookLoad` is `getHookConfig` with its list of paths. `config` starts
from the defaults, not from the file it replaces, which is what the code does.

### CommandLine, SelectLoop

An argument is its dashes, its name and what follows an `=`. The engine writes a
command line part by part (`GlobalFlag`, `GiveCommand`, `LocalFlag`, `GiveId`), each flag
with the value it takes; `Request` is what the
runtime does with all of it. `RuncCreates` and `RuncBundle` say what runc makes of the
same arguments (external), reading from left to right: what stands behind a flag
that takes a value is that value, whatever it looks like.

`SelectLoop` takes the input of `ResolveDevices` as sequences, in the order of the
directory, the spec and the environment, and goes one position of one loop a step:
`AcceleratorDevices` (`InspectNode`, `PresentNode`), `AllocatedDevices` (`ScanRule`,
`NextDevice`, `NextNode`) and `SelectDevices` (`ScanEntry`, `MatchId`, `NextToken`,
`Compare`). `at` is the loop, `i`, `k` and `j` are its positions, the other variables
are what the loops carry along. Its properties say that this comes to the sets of
`Discover`, which all other modules use.

## Runs

| Run | Question | Bounds |
|---|---|---|
| `Runtime_retry` | Do repeated requests with kills, errors and host changes preserve grants, selections and the file, and does every selector on every allocation, inventory and configuration lead to a bundle configured for the entitled devices? | 2 accelerators; 3 requests, 2 host changes among 3 inventories, 4 bundles, 5 configurations; 1 request on 9 inventories, 163 bundles, 17 configurations |
| `Runtime_error` | Does the error variable hold the last error? | it does not; see below |
| `Container_life` | Is a started container what the runtime selected, and within the allocation and the selection under every configuration of the hook? | 2 requests, 1 host change, 5 x 4 configurations of runtime and hook; 1 request on 9 inventories, 65 bundles, 6 x 32 configurations |
| `Container_live` | Is every create request concluded? | 2 requests, fairness below |
| `Interfaces_retry` | Are the interfaces of a started container complete, and can all contenders lose? | pod and container, 2 interfaces, 2 requests each, 1 fault; a third container for first requests without faults |
| `DeviceFilter_decide` | Does the program load, and decide as its rules and the program before it? | 2 calls of up to 2 rules, 4 programs of engines or none, 54 accesses |
| `CgroupFilter_rules` | Has a started container its devices and no more, and does the hook end? | 4 devices, 10 hosts, up to 2 programs, first query for 1, 2 queries, room for 3 programs, 1 fault, 2 reloads |
| `CgroupFilter_path` | Do rules go to the container's cgroup? | they do not; see below |
| `NetInfoFile_write` | Are files replaced whole, whoever writes, fails or is killed? | 3 calls, 2 writes a file, 1 fault, 1 kill, 1 change of the host |
| `Toolkit_configure` | What do runs leave, keep and repeat? | 3 engines, 8 files, 3 runs, 1 error, 1 kill, 1 restart by others |
| `Startup_reads` | Do readers follow what the administrator said, and each other; is what runc creates edited first, in runc's bundle? | 3 paths, 4 files, 2 runs of 1 option or 1 run of 2, 1 fault; 2 flags before and 2 after the command, words that are commands or flags too |
| `SelectLoop_rules` | Do the loops come to the sets of `Discover`? | up to 3 of 7 rules and a device listed once or twice, or up to 3 of 15 entries under both policies, 4 inventories |

Where a row has two sets of bounds, the `CONSTRAINT` of the configuration, and in
`Runtime_retry` the initial states (`MCInit`: the wide set starts at the last
request, with the changes of the host used up), keep states within one or the
other; both are defined in the MC module. In `Startup_reads` files and command
lines, which share no variable, are explored one after the other. Configurations that differ only in a
setting their mode does not read are counted once.

Two accelerators tell apart *this*, *another* and *all*, which is all the code
distinguishes; inventories are chosen to have each special case (node gone, not
a node, block device, numbers swapped, identity missing or unreadable, interface
down or without a net directory) once. Three requests are one more than a retry
of a retry needs to differ from a retry. One fault in `Interfaces_retry` is
enough because every failure ends the request and the second request then runs
on what it left; two containers and two interfaces are the smallest circular
wait, the third container shows that it is no matter of pairs. Two calls in
`DeviceFilter_decide` put a generated program in front of a generated one. Three
places for programs in `CgroupFilter_rules` are one more than the engine uses, so that the
agent can take the place between detaching and attaching. Two writers of one
name and one of the other meet in both directories. Three runs of the toolkit
are add, remove and repeat; the second finds what an interrupted first one left.
Three rules are grant, denial and grant of one access; three entries are the
selectors of the three kinds, or one of them given twice and another.
`CHECK_DEADLOCK FALSE` everywhere: with the bounds used up, nothing
has to happen any more.

Fairness (`Container_live`): weak fairness of the steps of runtime, runc, hook
and cli, each a running process that waits for nothing but its child. Nothing is
assumed of the engine, kills or the host. Hooks are assumed to end, which for
the netlink requests and the exec of `ip` the code takes for granted as well.
`CgroupFilter_rules` adds weak fairness of the steps of the cli that meet no fault, and assumes
nothing of agent and kernel: an end is reached because the number of queries is
limited, and `Fetch`, `Detach` and `Attach` each use up a finite list.

`CgroupFilter_path` shows a disagreement of code and comments, on hosts that mount
a part of the cgroup hierarchy, as a runtime that is itself in a container finds it.
`DeviceCGroupMountPath` returns the prefix and then the mount point (`v1.go` line 72,
`v2.go` line 71; the comment above it names them in the other order), and
`handlePrestart` takes them in the order of the comment
(`cmd/habana-container-cli/main.go` line 265). What `DeviceCGroupRootPath` gets to
take off is then the mount point, and the prefix is only logged: for the prefix
`/docker` and the cgroup `/docker/c1` the path is mount point`/docker/c1` and not
mount point`/c1`, although `v1.go` lines 103-104 have the root path "with the prefix
possibly stripped off". The directory is not there and the hook fails. With the
prefix `/`, as on ordinary hosts, the path is right.

`Runtime_error` shows one of code and `README.md`: line 199 has `HABANA_RUNTIME_ERROR`
hold "the last error from the runtime flow". `addErrorEnvVar`
(`cmd/habana-container-runtime/main.go` line 259) keeps a variable that is there, so
that it holds the first error of a request, or that of an earlier request.

Other disagreements met while modelling; the properties below are stated around
them:

* `README.md` lines 190-191: malformed and duplicate selectors fail container
  creation. `ResolveDevices` returns before it looks at them when no accelerator
  is authorized.
* `README.md` line 186: empty and `void` perform no setup. In CDI mode they mean
  all devices (`NothingAskedNothingDone`).
* `cgroup/v2.go` line 129: without a program one with just the new rules is made.
  It is the rules followed by a bare exit, which for any other access returns a
  register nothing has written; the kernel refuses it (lemma `NoneRefused`;
  `ProgramLoads` excludes it) and the hook fails. A program of the rules alone that
  the kernel took would violate `DevicesAllowed`, since the cgroup allowed everything.
* `internal/netinfo/netinfo.go` line 214: an empty gaudinet file is not copied.
  Its size is that of a look before the file is opened.
* `configure.go` line 72: `--dry-run` writes nothing. CRI-O's builder makes a
  missing file before options are looked at (`DryRunWritesNothing`).
* `README.md` line 131: containerd's runtimes are a table under
  `...cri".containerd`. The builder adds its entry one level above.
* `cmd/habana-container-toolkit/config/config.go` line 58: lists are
  comma-separated. A list of one element and one that begins with a number are
  refused. A string that begins with a number is saved as the
  character of that number (`ParseSetOption`, `Assigned`).
* `cmd/habana-container-runtime/main.go` lines 108-109: what is no create request
  needs no modification. The word `create` anywhere on the command line makes it one.

## Properties and what they exclude

* `HandedOverConfigured`: for a host that stood still. The hook's later
  authorization of the *edited* spec gives exactly the same devices.
* `SelectionUsable`: for bundles whose engine left accelerators to the runtime.
  With nodes or exact rules of the engine present, the runtime defers to them.
* `GrantsPreserved`, `WithinAllocation`: where environment-based requests are
  off, with no assumption on the host. uverbs nodes are additions by
  design; their majors differ from those of accelerators (`MajorsDistinct`).
* `RetrySelectsSame`: where module ids are there and distinct. Without a
  `module_id` file the runtime writes an empty `HABANA_VISIBLE_MODULES`, which
  at the next request selects nothing and conflicts.
* `MacMatchesSelection`: the file is of this request or an error is recorded.
* `ErrorsVisible`: that there was an error, not which. A second error of a request,
  and every error of a request on a bundle that tells of one, is only logged.
* `StartedAsSelected`: policies of runtime and hook agree, the host is steady and
  the one the bundle was last edited for, and the engine's numbers are the
  host's. On a changing host the cli silently leaves out what has gone, and a
  request that comes to no devices leaves the hooks of an earlier one in place.
* `SelectionIsBound`, `NothingAskedNothingDone`: any policy of the hook except
  CDI, which ignores `--devices`.
* `StartedComplete`: not in a namespace where a request has failed before; a
  half-made interface under its own name is taken for a whole one there.
* `SomeoneStarts`: first requests, without faults.
* `NeverWider`: what a started container may access is the agent's policy of
  that moment and the devices asked for; between detaching and attaching it may
  be anything. `DevicesAllowed`: the devices asked for and those allowed before.
  Programs the cli may not read are skipped and go on denying, and a reload of the
  agent after the cli has found the path takes the devices away again; both are
  excluded.
* `DecidesAsRules`: for rules as the cli makes them, of all accesses to a number.
  A rule of part of the accesses leaves the access where the next rule expects the type.
* `FilesWhole` has no exclusion; `SuccessIsFresh` is about a call that had
  something to write; `PortsInPlace` about devices of one type.
* `OthersKept`: not after a run that was interrupted inside `os.WriteFile`, which
  may leave an empty file that the next run takes for a configuration. Docker's
  other features are lost by `--cdi.enabled`; nothing promises to keep them.
* `EngineBehindOnlyIf`: names the runs that leave an engine behind, among them a
  run whose restart failed and every repetition of it, which finds the file as
  it wants it and restarts nothing.
* `HookFollowsRuntime`: no file has changed in between, the driver's directory
  has no file of its own, and the flag of the hook and `XDG_CONFIG_HOME` agree.
* `EditsRuncsBundle`: no word of the command line is itself `b` or `bundle`, and
  the bundle is given once (the runtime takes the first, runc the last).

## Proofs

Each theorem holds for every value of the constants that its module assumes
something of, and for every bound.

| Module | Theorem | Property |
|---|---|---|
| `RuntimeProofs` | `TypeCorrect`, `NoTempsLeaked` | `TypeOK`, `NoLeakedTemps` |
| | `GrantsArePreserved` | `GrantsPreserved` |
| | `ErrorsAreVisible`, `MacIsOfSelection` | `ErrorsVisible`, `MacMatchesSelection` |
| | `ImplementsContract` | `BundleContract`, the refinement of `BundleConfig` |
| | `BundlesAreConfigured`, `SelectionsAreUsable` | `HandedOverConfigured`, `SelectionUsable` |
| | `RetriesSelectTheSame` | `RetrySelectsSame` |
| `ContainerProofs` | `ContainerTypeCorrect` | `CTypeOK` |
| | `SelectionIsABound`, `AllocationIsABound` | `SelectionIsBound`, `WithinAllocation` |
| | `NothingAskedIsNothingDone` | `NothingAskedNothingDone` |
| | `StartsWithTheSelection` | `StartedAsSelected` |
| `InterfacesProofs` | `InterfacesTypeCorrect`, `StartedIsComplete` | `ITypeOK`, `StartedComplete` |
| | `ContendersDoNotAllLose` | `SomeoneStarts` |
| `NetInfoFileProofs` | `FilesAreWhole`, `SuccessfulCallsAreFresh` | `FilesWhole`, `SuccessIsFresh` |
| | `TemporaryFilesRemoved`, `NoReaderDisturbed` | `TempsRemoved`, `ReadersUndisturbed` |
| | `FailuresHaveCause` | `FailsForCause` |
| | `AddressesAreInPlace` | `PortsInPlace` |
| `CgroupProofs` | `NeverWiderThanAsked`, `DevicesAreAllowed` | `NeverWider`, `DevicesAllowed` |
| | `FilterLoads`, `FilterDecides` | `ProgramLoads`, `DecidesAsRules` |
| `ToolkitProofs` | `OthersAreKept`, `SuccessIsApplied` | `OthersKept`, `SuccessApplied` |
| | `EngineFollows`, `RepeatingChangesNothing` | `EngineBehindOnlyIf`, `RepeatChangesNothing` |
| | `DryRunsWriteNothing` | `DryRunWritesNothing` |
| `StartupProofs` | `NobodyOptsInByAccident` | `OptInIsExplicit` |
| | `HookReadsTheSame`, `RunsSetWhatTheySay` | `HookFollowsRuntime`, `LastValueOfAll` |
| | `WhatRuncCreatesIsEdited` | `EditsRuncsBundle` |
| `SelectLoopProofs` | `LastRuleAllocates` | `AllocatesByLastRule` |
| | `ResolvesDeclaredDevices` | `ResolvesAsDeclared` |

Assumptions are those the modules state of their constants; TLC evaluates them
in every run. Besides types and bounds: tokens of different kinds differ
(`TokensDistinct`, `NoLinkApart`, `MarksDistinct`, the names in `ImagesPlain`);
uverbs nodes have other numbers than accelerators (`MajorsDistinct`, used for
`GrantsArePreserved`, `RetriesSelectTheSame` and `AllocationIsABound`); hooks that an engine puts into a
bundle name no devices (`HooksAskNothing`: `packaging/oci-habana-hook.json`
has no `--devices`); a file that the toolkit finds has an entry of its own
only in a table of runtimes (`FilesWellFormed`); the port of an interface is below
the number of ports of its type and its address is not the broadcast address
(`PortsFit`, facts of the hardware: `Generate` leaves out a port beyond that number);
the paths found under `/dev/accel`
are there once each (`NodesAreOfAccel`); what is attached to a cgroup was taken by the kernel,
jumps forward only and is made of the instructions that runc and systemd use for devices, on R0 to R5
(`ProgramsAssumption`, `Instruction`); engines write flags with their values, and none
for a bundle in front of the command (`FlagsComplete`); and a list of tokens has one at least,
as `strings.Split` leaves it (`InputsTyped`).

What holds in the end is seldom kept by every step as it stands; the arguments
are those of these invariants:

1. `TypeInv` is `TypeOK` with a count: there are at most as many temporary
   files as killed requests, and between `CreateTemp` and the rename one more.
   `NoLeakedTemps` alone says nothing of a running request.
2. `GrantInv` says of `config.json` and of the spec in memory, on every
   inventory, what `GrantsPreserved` says of `config.json` on the current one,
   and that without environment requests `pc` never is at `accelerators`. The only
   rules appended are then those of uverbs nodes, whose numbers are no
   accelerator's on any inventory. The core is `AppendOtherRule`: a rule that
   does not apply to a number leaves what `Granted` says of it. Every inventory
   is needed since the host may change after a rule was added.
3. `ReportInv` follows whether there is an error, from where one is put aside to
   `config.json`, and knows when the network file was written for the devices of
   the request.
4. `EditInv` says what `mem` may differ in from `disk` at each value of `pc`,
   and that `disk` is what the request loaded until the rename. With it
   `RenameTemp` maps to `Configure` of the abstract module and all other steps
   to `Request`, `Conclude` or a stutter.
5. `HandInv`: what has been added so far is usable and grows what was loaded, and
   the devices of the request are those the loaded spec is entitled to. That
   the *edited* spec comes to the same devices (`Entitled`) is a fact about
   `ResolveDevices`: the additions name devices that were selected already.
   `SelectorInv` adds that after a save the selection repeats, because the
   module ids that were written name the devices that were selected.
6. `CInv` ties hook and cli to a `runc` that waits; `SelInv` bounds each stage of
   a hook by `--devices`; `NodeInv` and `AllocInv` do it by the allocation, with
   `GrantInv` for what the runtime did to the spec before; `QuietInv` says that a
   bundle that asks for nothing is never edited, so that a repeated request and
   every hook find what the engine wrote.
7. `IfaceInv`: a busy cli works on the macvlan it made, which has come as far as
   `pc` says, and a namespace nobody failed in holds whole interfaces only.
   `ContendInv` is about the order: a cli holds interfaces below the one it
   has at hand only, so that a request that fails does so at an
   interface which another, further one holds. A furthest one exists as no
   request is beyond some bound; it cannot have failed.
8. `FileInv` follows inodes, not names: an inode has no name before it is
   complete, and is not written afterwards. `CauseInv` keeps the cause of
   each failure.
9. `FilterInv`: while programs are exchanged, one that keeps within policy and
   devices is attached and not about to be detached, or waits to be attached; a
   program of the agent is newer than any that is to be detached. `AllowInv` is
   the other direction: what was asked for before the present call, and what the
   cgroup allowed before the first, is allowed by every program the cli may read,
   and the rest comes with those it makes.
10. `ToolInv`: a run that is to save holds what it loaded from the file that is
    there, changed; changing it again changes nothing (`Changed` is idempotent).

11. `SavedInv` and `StartInv`: on a host that is still the one of the last save,
   `config.json` has a hook for `last.ids`, is entitled to them, and has nodes with the
   host's numbers; it is these facts, not those of the running request, that
   outlive the request. A container then has interfaces of that selection only,
   and `Progress` counts what is missing by the hooks left: either a habana hook is
   yet to end, or all interfaces are there; either one of the prestart list is,
   or the nodes are. `HooksSelect` is the core: `--devices` gives the hook, on the
   edited spec, the devices that the runtime found on the unedited one.
12. `DataInv` follows the table of addresses from `collect` to the file. It
   has to name the writers whose inodes are still without a name, and holds
   until sysfs changes for the first time.
13. `ConfigInv`: what a file says of the opt-in goes back to a file or an
   option; what the runtime has read is what its path holds as long as no
   file changes (`Current`); and the settings in memory are those of the options
   so far, in order (`Setting`).
14. `LoopInv` says at each position what the part that has been passed comes to:
   nodes found char so far, the permissions of the rules so far as the last
   of them says, ids matched by the tokens so far, selectors seen that agree
   with the selected ids. That sorted lists compare like sets needs a fact on
   sorting: two increasing sequences without repetition over the same set are equal.
   Where a loop fails, the declared resolution is shown to fail as well.
15. `LineInv`: the arguments so far end where runc looks for a flag or a word,
   a bundle flag is no value and stands behind a word that runc may take for its
   command (the one it does take is not behind that one). So one argument at most looks like a bundle to either
   reader, and it is the same. That runc's reading is defined at all is shown without
   induction (`ValuesDefined`): an argument is a value if an odd number of
   arguments right before it take one.
16. `DeviceInv`: the program under construction is `ProgramOf` the rules taken so
    far, and what is attached allows what the engine's program or a rule of
    the calls before allows. A generated program has sections of five
    instructions, those of `init` and those of each rule; loading it turns the
    label of the next block into the distance to the next section (`ResolveJoins`).
    It *loads* since the registers written on every way to an instruction can be
    given section by section, and behind the last one contain R1, all the
    program behind may count on at its start (`JoinedVerifies`). Where that is a bare exit R0
    is written on no way that skips every rule (`NoneRefused`). It *decides* as it should
    by a simulation (`WhereOn`): control is in section s only if the
    rules before it do not concern the access, or it is behind the sections and
    every register that the program alone has written has the value it has there;
    registers the sections left behind are never read, which is what the verifier ensured of the
    program alone (`Annotated`). That every run ends within as many steps as
    there are instructions (`TraceUnderway`) is by jumps that go forward only.

TLC has every property above in a run; `TypeInv`, `GrantInv`, `EditInv`,
`FileInv`, `SavedInv` and `StartInv` were also checked as invariants before they were proved.

`DeviceInv` speaks of all lists of rules and is not evaluated by TLC; its run checks
`DecidesAsRules` and `ProgramLoads` on three programs of engines and on none, and
that `Decides` says of the three what they are written for.

Every invariant and every action property of the runs has a theorem.
Model-checked only: liveness (`CreateConcludes`, `HookConcludes`), which is out
of the prover's reach together with ENABLED.

## Not modelled

* Parsing and writing of TOML, JSON and flags by libraries, logging, the search
  for binaries (it succeeds or fails), registration of commands.
* The single keys of the entry a builder adds, and where its table is in the
  engine's file.
* `HasExternalInterfaces`, `IsHabanaContainer`: no callers.
* Host networking: every interface is found and nothing is done.
* Runs of the toolkit that overlap: there is no lock and nothing is promised.
* A panic of the cli, from which `run` recovers without an error: none can be
  reached in the goroutine that recovers.
* The walk along sysfs parents and the globbing of `/dev/accel`: an inventory is
  what they find.

## Plan

What is left is `Interfaces` composed with `Container`'s hooks, the retry in a pod,
where a container of a pod finds the interfaces of the one before.
