------------------------------ MODULE MCRuntime ------------------------------
(* Instances of Runtime: two accelerators, one number each per node. *)
EXTENDS Runtime

CONSTANTS a0, a1, m0, m1, p0, p1, junk

MCAccel  == {a0, a1}
MCIdent  == {m0, m1, p0, p1}
MCJunk   == {junk}
MCDevNum == 0..8

(* Inventories. *)
Char(n)  == [kind |-> "char", dev |-> n]
Gone     == [kind |-> "absent", dev |-> 0]
Both(x, y) == [a \in MCAccel |-> IF a = a0 THEN x ELSE y]

Healthy == [accel  |-> Both(Char(1), Char(2)), control |-> Both(Char(3), Char(4)),
            uverb  |-> Both(Char(5), Gone),
            module |-> Both(m0, m1), pci |-> Both(p0, p1), net |-> Both("up", "up")]
\* The second accelerator has left, the numbers have moved, only a control node came up.
Unplugged  == [Healthy EXCEPT !.accel[a1] = Gone, !.control[a1] = Gone,
                              !.module[a1] = Empty, !.pci[a1] = Empty, !.net[a1] = "none"]
Renumbered == [Healthy EXCEPT !.accel = Both(Char(2), Char(1)), !.net[a1] = "down"]
HalfUp     == [Healthy EXCEPT !.accel[a0] = Gone, !.module[a0] = Empty, !.uverb[a1] = Char(6)]
\* Files that are not what they should be.
NotANode   == [Healthy EXCEPT !.accel[a1] = [kind |-> "invalid", dev |-> 0]]
BlockNode  == [Healthy EXCEPT !.accel[a0] = [kind |-> "block", dev |-> 7], !.net[a1] = "missing"]
NoModule   == [Healthy EXCEPT !.module = Both(Empty, ReadErr)]
NoPci      == [Healthy EXCEPT !.pci = Both(Empty, ReadErr)]
NoUverb    == [Healthy EXCEPT !.uverb[a0] = [kind |-> "invalid", dev |-> 8]]

SomeHosts == {Healthy, Unplugged, Renumbered}
AllHosts  == SomeHosts \cup {HalfUp, NotANode, BlockNode, NoModule, NoPci, NoUverb}

(* Bundles. *)
List(toks) == [form |-> "list", toks |-> toks]
Form(f)    == [form |-> f, toks |-> {}]
NoEnv      == [k \in EnvKeys |-> <<>>]

Deny(devs)          == [allow |-> FALSE, type |-> "a", exact |-> FALSE, devs |-> devs, access |-> Access]
Allow(devs, access) == [allow |-> TRUE, type |-> "c", exact |-> TRUE, devs |-> devs, access |-> access]
DenyAll == Deny(MCDevNum)

AccelNode(a, n) == [path |-> <<"accel", a>>, type |-> "c", dev |-> n]

\* Docker: everything denied, no device; the environment asks.
Plain == [process |-> TRUE, root |-> TRUE, privileged |-> FALSE, env |-> NoEnv, devices |-> {},
          rules |-> <<DenyAll>>, prestart |-> <<>>, createRuntime |-> <<>>]
\* A device plugin has allocated accelerators.
Plugin(ids) == [Plain EXCEPT !.devices = {AccelNode(a, IF a = a0 THEN 1 ELSE 2) : a \in ids},
                             !.rules = <<DenyAll, Allow({IF a = a0 THEN 1 ELSE 2 : a \in ids}, {"r", "w"})>>]
Asks(s, key, value) == [s EXCEPT !.env[key] = <<value>>]

Other == [habana |-> FALSE, devs |-> {}]
OciHook == [habana |-> TRUE, devs |-> {}]

Environments ==
  {NoEnv} \cup
  {[NoEnv EXCEPT ![k] = <<v>>] : k \in SelectionKeys,
      v \in {Form("all"), Form("none"), Form("empty"), Form("bare"), List({a0}),
             List({m0, m1}), List({p1}), List({a0, junk}), List({m0, Empty})}} \cup
  {[NoEnv EXCEPT !["DEVICES"] = <<List({a0}), List({a0})>>],
   [NoEnv EXCEPT !["DEVICES"] = <<List({a0})>>, !["PCI"] = <<List({p0})>>],
   [NoEnv EXCEPT !["DEVICES"] = <<List({a0})>>, !["PCI"] = <<List({p1})>>],
   [NoEnv EXCEPT !["DEVICES"] = <<Form("all")>>, !["MODULES"] = <<List({m0})>>]}

\* Every selector on every kind of allocation.
SelectorBundles ==
  {[s EXCEPT !.env = e] : e \in Environments,
     s \in {Plain, Plugin({a0}), Plugin({a0, a1}),
            [Plugin({a0, a1}) EXCEPT !.rules = <<DenyAll, Allow({1, 2}, Access), Deny({1})>>],
            [Plugin({a0, a1}) EXCEPT !.rules = <<Allow({1, 2}, {"r"}), Allow({1}, {"w"})>>]}}
  \cup {NoSpec, [Plain EXCEPT !.process = FALSE], [Plugin({a0}) EXCEPT !.root = FALSE]}

\* What is called again and again while the host changes.
RetryBundles ==
  {Asks(Plain, "DEVICES", List({a0})), Asks(Plugin({a0, a1}), "DEVICES", Form("all")),
   [Plugin({a0}) EXCEPT !.prestart = <<OciHook, Other>>, !.createRuntime = <<Other>>],
   Asks(Plugin({a0, a1}), "PCI", List({p1}))}

Configs(modes, allow, always, mount, uverbs) ==
  [mode : modes, allowEnv : allow, alwaysMount : always,
   mountAccelerators : mount, mountUverbs : uverbs]

\* The mounts are read in oci mode only, that of the accelerators only if the
\* environment may ask, and nothing is read in cdi mode.
AllConfigs == Configs({"oci"}, {TRUE}, BOOLEAN, BOOLEAN, BOOLEAN)
              \cup Configs({"oci"}, {FALSE}, BOOLEAN, {TRUE}, BOOLEAN)
              \cup Configs({"legacy"}, BOOLEAN, BOOLEAN, {TRUE}, {TRUE})
              \cup Configs({"cdi"}, {TRUE}, {TRUE}, {TRUE}, {TRUE})

RetryConfigs == {c \in AllConfigs : c.mode # "cdi" /\ c.alwaysMount /\ c.mountUverbs}

CreateBundles == SelectorBundles \cup RetryBundles

\* A few bundles through all requests and changes of the host, or every bundle,
\* host and configuration through the last request, with the changes used up.
MCInit ==
  \/ Init /\ cfg \in RetryConfigs /\ host \in SomeHosts /\ disk \in RetryBundles
  \/ /\ cfg \in AllConfigs /\ host \in AllHosts /\ disk \in SelectorBundles
     /\ changes = MaxHostChanges /\ creates = MaxCreates - 1
     /\ temps = 0 /\ files = [mac |-> {}, gaudinet |-> FALSE]
     /\ pc = "idle" /\ mem = disk /\ req = {} /\ errs = <<>>
     /\ origin = disk /\ loaded = disk /\ steady = TRUE /\ last = None
     /\ crashes = 0

MCSpec == MCInit /\ [][Next]_vars

\* What is called again and again sees some of the inventories.
HostsBounded == origin \in RetryBundles => host \in SomeHosts
=============================================================================
