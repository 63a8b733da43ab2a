---- MODULE MCSelectLoop ----
(* Instances of SelectLoop: two accelerators, one identity unreadable.       *)
EXTENDS SelectLoop

CONSTANTS a0, a1, m0, m1, p0, p1, junk

MCAccel == {a0, a1}
MCIdent == {m0, m1, p0, p1}
MCJunk  == {junk}
MCNums  == 1..2
MCNodes == <<<<"accel", a0>>, <<"accel", a1>>, <<"control", a0>>, <<"control", a1>>>>

Both(x, y) == [a \in MCAccel |-> IF a = a0 THEN x ELSE y]
Char(n)    == [kind |-> "char", dev |-> n]
Healthy == [accel |-> Both(Char(1), Char(2)), control |-> Both(Char(1), Char(2)),
            uverb |-> Both(Char(1), Char(2)), module |-> Both(m0, m1), pci |-> Both(p0, p1),
            net |-> Both("up", "up")]
Broken  == [Healthy EXCEPT !.module = Both(Empty, ReadErr), !.accel[a0].kind = "block"]
Shared  == [Healthy EXCEPT !.module = Both(m0, m0)]

DeviceOf(n, type) == [path |-> <<"accel", IF n = 1 THEN a0 ELSE a1>>, type |-> type, dev |-> n]
Every == <<DeviceOf(1, "c"), DeviceOf(2, "c")>>
Twice == <<DeviceOf(1, "c"), DeviceOf(2, "b"), DeviceOf(1, "c")>>

R(allow, type, devs, access) ==
  [allow |-> allow, type |-> type, exact |-> devs # MCNums, devs |-> devs, access |-> access]
AllowAll == R(TRUE, "a", MCNums, Access)
MCRules  == {AllowAll, R(FALSE, "a", MCNums, Access), R(TRUE, "c", {1}, {"r", "w"}), R(TRUE, "", {2}, {"r"}),
             R(FALSE, "c", {2}, {"w"}), R(TRUE, "b", {1}, Access), R(FALSE, "c", MCNums, {"r"})}

E(key, form, toks) == [key |-> key, form |-> form, toks |-> toks]
MCEntries == {E("OTHER", "list", <<a0>>), E("DEVICES", "bare", <<>>), E("PCI", "void", <<>>)}
  \cup {E(key, "all", <<>>) : key \in SelectionKeys}
  \cup {E("DEVICES", "list", t) : t \in {<<a0>>, <<a1, a0>>, <<a0, a0>>, <<a1, junk>>, <<a0, Empty>>}}
  \cup {E("MODULES", "list", t) : t \in {<<m0>>, <<m0, m1>>}}
  \cup {E("PCI", "list", t) : t \in {<<p1, p0>>, <<p0>>}}

Unsound == [Healthy EXCEPT !.control[a1].kind = "invalid", !.accel[a1].kind = "absent"]
AllHosts == {Healthy, Broken, Shared, Unsound}

\* Up to three rules and no entry, or a rule for all and up to three entries;
\* one input is refused and one is passed over at once.
UpTo(n, S) == UNION {[1..x -> S] : x \in 0..n}
In(devices, rules, entries, allowEnvironments) ==
  [process : {TRUE}, devices : devices, rules : rules, entries : entries,
   allowEnvironment : allowEnvironments, alwaysMount : BOOLEAN]
MCInputs ==
  In({Every, Twice}, UpTo(3, MCRules), {<<>>}, {FALSE})
  \cup In({Every, <<>>}, {<<AllowAll>>}, UpTo(2, MCEntries), BOOLEAN)
  \cup In({Every}, {<<AllowAll>>}, [1..3 -> MCEntries], {FALSE})
  \cup [process : {FALSE}, devices : {Every}, rules : {<<>>}, entries : {<<>>},
        allowEnvironment : BOOLEAN, alwaysMount : {TRUE}]
====
