---- MODULE MCCgroupFilter ----
(* Instances of CgroupFilter: hosts with cgroup v1, hybrid and v2, two      *)
(* accelerators and a uverbs node among the devices.                        *)
EXTENDS CgroupFilter

CONSTANTS null, acc0, acc1, verb

MCDev      == {null, acc0, acc1, verb}
MCPolicies == {{null}, {null, acc0}, MCDev}
MCCalls    == {<<>>, <<<<acc0, acc1>>>>, <<<<verb>>>>, <<<<acc0, acc1>>, <<verb>>>>, <<<<acc0>>, <<>>>>}

Line(fs, base, pre, mount) == [fs |-> fs, base |-> base, prefix |-> pre, mount |-> mount, relative |-> FALSE]
Sys == <<"sys", "fs", "cgroup">>
Other     == Line("proc", "proc", <<>>, <<"proc">>)
Malformed == Line("malformed", "", <<>>, <<>>)
V1Cpu     == Line("cgroup", "cpu", <<>>, Sys \o <<"cpu">>)
V1        == Line("cgroup", "devices", <<>>, Sys \o <<"devices">>)
V1Bound   == Line("cgroup", "devices", <<"docker">>, Sys \o <<"devices">>)
V2        == Line("cgroup2", "cgroup", <<>>, Sys)
V2Bound   == Line("cgroup2", "cgroup", <<"docker">>, Sys)
V2Other   == Line("cgroup2", "cgroup", <<"lxc">>, Sys)
V2Unified == Line("cgroup2", "unified", <<>>, Sys \o <<"unified">>)
V2Outside == [V2 EXCEPT !.relative = TRUE]

Host(subsystems, mountinfo) ==
  [subsystems |-> subsystems, mountinfo |-> mountinfo, cgroup |-> <<"docker", "c1">>]

\* Hosts that mount the hierarchy from its root, hosts that mount a part of it,
\* and hosts on which there is no path to be had.
PlainHosts  == {Host({"devices", "cpu"}, <<Other, V1Cpu, V1>>),
                Host({"devices", ""}, <<V2Unified, V1>>),
                Host({""}, <<Other, V2>>)}
BoundHosts  == {Host({"devices", ""}, <<V2Unified, V1Bound>>), Host({""}, <<Other, V2Bound>>)}
BrokenHosts == {Host({"cpu"}, <<V1Cpu>>), Host({"devices"}, <<V2>>),
                Host({""}, <<Malformed, V2>>), Host({""}, <<V2Outside>>),
                Host({""}, <<V2Other>>)}
MCHosts     == PlainHosts \cup BoundHosts \cup BrokenHosts
====
