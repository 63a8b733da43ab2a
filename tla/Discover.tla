------------------------------ MODULE Discover ------------------------------
(***************************************************************************)
(* The device selection of internal/discover, as operators over a host     *)
(* inventory and an OCI spec.                                              *)
(*                                                                         *)
(* An inventory h is what one look at /dev/accel and /sys shows:           *)
(*   h.accel[a], h.control[a]  the nodes accelN and accel_controlDN        *)
(*   h.uverb[a]                the first uverbs node of accelerator a      *)
(*   h.module[a], h.pci[a]     the contents of module_id and pci_addr:     *)
(*                             Empty when the file is missing, ReadErr     *)
(*                             when reading it fails                       *)
(*   h.net[a]                  its network interface: "none" without an    *)
(*                             infiniband device, "missing" when that      *)
(*                             device has no net directory                 *)
(* A spec s holds what the code looks at in config.json: environment       *)
(* entries, device nodes, cgroup rules (in order: later rules win), the    *)
(* two hook lists, and whether "process" and a root path are there.        *)
(***************************************************************************)
EXTENDS Naturals, Sequences

CONSTANTS Accel,    \* accelerator ids, the N of /dev/accel/accelN
          Ident,    \* module ids and PCI addresses
          Junk,     \* selector tokens that are no number and name no device
          DevNum,   \* device numbers (major and minor together)
          Empty,    \* the empty string
          ReadErr   \* an identity file that exists and cannot be read

\* Ids, identities and junk are distinct strings; the three markers are none of them.
ASSUME TokensDistinct ==
  /\ Accel \cap (Ident \cup Junk) = {} /\ Ident \cap Junk = {}
  /\ Empty \notin Accel \cup Ident \cup Junk \cup {ReadErr}
  /\ ReadErr \notin Accel \cup Ident \cup Junk

(***************************************************************************)
(* Data.                                                                   *)
(***************************************************************************)
Node == [kind : {"absent", "invalid", "char", "block"}, dev : DevNum]

Inventory == [accel  : [Accel -> Node], control : [Accel -> Node],
              uverb  : [Accel -> Node],
              module : [Accel -> Ident \cup {Empty, ReadErr}],
              pci    : [Accel -> Ident \cup {Empty, ReadErr}],
              net    : [Accel -> {"up", "down", "missing", "none"}]]

SelectionKeys == {"DEVICES", "MODULES", "PCI"}
EnvKeys == SelectionKeys \cup {"ERROR", "OTHER"}
Message == {"netinfo", "gaudinet"}
Token   == Accel \cup Ident \cup Junk \cup {Empty}

\* "bare" is an entry without "="; a "list" is a comma-separated list.
Value == [form : {"bare", "all", "empty", "none", "void", "list"},
          toks : SUBSET (Token \cup Message)]

\* The values of each key in the order of the environment's entries: nothing
\* depends on the order of entries with different keys.
Env == [EnvKeys -> Seq(Value)]

Path   == {"accel", "control", "uverb"} \X Accel
Device == [path : Path, type : {"c", "b"}, dev : DevNum]

\* A rule matches the numbers in devs: all of them without a major or a minor
\* (not exact), one with both.  Adjacent exact rules that differ only in the
\* number are one record.
Access == {"r", "w", "m"}
Rule   == [allow : BOOLEAN, type : {"a", "c", "b", ""}, exact : BOOLEAN,
           devs : SUBSET DevNum, access : SUBSET Access]

\* habana-container-hook (or another program) and its --devices argument.
Hook == [habana : BOOLEAN, devs : SUBSET Accel]

\* privileged: CAP_SYS_ADMIN is in the bounding set of the process.
OciSpec == [process : BOOLEAN, root : BOOLEAN, privileged : BOOLEAN, env : Env,
            devices : SUBSET Device, rules : Seq(Rule),
            prestart : Seq(Hook), createRuntime : Seq(Hook)]

Elems(seq) == {seq[i] : i \in DOMAIN seq}

(***************************************************************************)
(* AllocatedDevices: what the engine put into the spec.                    *)
(***************************************************************************)
RuleApplies(rule, dev, access) ==
  /\ rule.type \in {"a", "c", ""}
  /\ dev \in rule.devs
  /\ access \in rule.access

\* The last rule that mentions the access decides; without one it is denied.
Granted(rules, dev, access) ==
  \E i \in DOMAIN rules :
     /\ RuleApplies(rules[i], dev, access) /\ rules[i].allow
     /\ \A j \in DOMAIN rules : j > i => ~RuleApplies(rules[j], dev, access)

AllocatedDevices(s, h) ==
  {a \in Accel :
     /\ h.accel[a].kind = "char"
     /\ \E d \in s.devices : d.type = "c" /\ d.dev = h.accel[a].dev
     /\ Granted(s.rules, h.accel[a].dev, "r")
     /\ Granted(s.rules, h.accel[a].dev, "w")}

\* Ids of every character device under /dev/accel.
PresentDevices(h) ==
  {a \in Accel : "char" \in {h.accel[a].kind, h.control[a].kind}}

(***************************************************************************)
(* SelectDevices: the three selector variables narrow the authorized set.  *)
(***************************************************************************)
Identity(h, key, a) ==
  CASE key = "DEVICES" -> a
    [] key = "MODULES" -> h.module[a]
    [] key = "PCI"     -> h.pci[a]

\* Mutant: void is taken for all, as it is in CDI mode.
ChosenVoidAsAll(key, v, authorized, h) ==
  {a \in authorized : \/ v.form \in {"all", "void"}
                      \/ v.form = "list" /\ Identity(h, key, a) \in v.toks \ {Empty}}

Chosen(key, v, authorized, h) ==
  {a \in authorized : \/ v.form = "all"
                      \/ v.form = "list" /\ Identity(h, key, a) \in v.toks \ {Empty}}

Malformed(key, v, authorized, h) ==
  \/ v.form = "bare"
  \/ /\ v.form = "list"
     /\ \/ \E a \in authorized : Identity(h, key, a) = ReadErr
        \/ \E t \in v.toks : \/ t = Empty
                             \/ \A a \in authorized : Identity(h, key, a) # t

Failure      == [ok |-> FALSE, ids |-> {}]
Success(ids) == [ok |-> TRUE, ids |-> ids]

SelectDevices(env, authorized, alwaysMount, h) ==
  LET used == {k \in SelectionKeys : env[k] # <<>>}
      picked(k) == Chosen(k, env[k][1], authorized, h)
  IN  IF \E k \in used : \/ Len(env[k]) > 1
                         \/ Malformed(k, env[k][1], authorized, h)
                         \/ \E l \in used : picked(k) # picked(l)
      THEN Failure
      ELSE Success({a \in authorized : \/ used = {} /\ alwaysMount
                                       \/ \E k \in used : a \in picked(k)})

\* DeviceInfo fails on a node of /dev/accel that is no device.
InventoryBroken(h) ==
  \E a \in Accel : "invalid" \in {h.accel[a].kind, h.control[a].kind}

ResolveDevices(s, h, allowEnv, alwaysMount) ==
  LET authorized == IF allowEnv THEN PresentDevices(h) ELSE AllocatedDevices(s, h)
  IN  IF ~s.process THEN Failure
      ELSE IF ~allowEnv /\ s.devices = {} THEN Success({})
      ELSE IF InventoryBroken(h) THEN Failure
      ELSE IF authorized = {} THEN Success({})
      ELSE SelectDevices(s.env, authorized, alwaysMount, h)
=============================================================================
