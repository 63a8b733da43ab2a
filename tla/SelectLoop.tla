---- MODULE SelectLoop ----
(***************************************************************************)
(* ResolveDevices of internal/discover as its loops run - over the nodes   *)
(* of /dev/accel, the devices and cgroup rules of the spec, the entries of *)
(* the environment, their tokens and the authorized ids, one after the     *)
(* other and with what they carry along - to be compared with the sets of  *)
(* Discover, which the other modules use.                                  *)
(***************************************************************************)
EXTENDS Discover, FiniteSets, SequencesExt

CONSTANTS
  Nodes,       \* the paths of /dev/accel, as Glob sorts them
  Hosts,       \* some inventories
  Inputs       \* some specs and policies

VARIABLES
  host, in,         \* the input
  at,               \* which loop runs, or "done" or "failed"
  i, k, j,          \* positions in the outer, the middle and the inner loop
  permissions,      \* the accesses granted to the device looked at, so far
  authorized, seen, selected,
  current, matched  \* of the selector looked at

input    == <<host, in>>
position == <<i, k, j>>
lists    == <<authorized, seen, selected, current>>
vars     == <<input, at, position, permissions, lists, matched>>

ASSUME NodesAreOfAccel == /\ Nodes \in Seq({"accel", "control"} \X Accel) /\ IsInjective(Nodes)
                          /\ ToSet(Nodes) = {"accel", "control"} \X Accel

Entry == [key : EnvKeys, form : {"bare", "all", "empty", "none", "void", "list"}, toks : Seq(Token)]

\* The parts of a spec in the order the code meets them, and the policy.
Input == [process : BOOLEAN, devices : Seq(Device), rules : Seq(Rule), entries : Seq(Entry),
          allowEnvironment : BOOLEAN, alwaysMount : BOOLEAN]

\* strings.Split gives at least one token.
ASSUME InputsTyped ==
  /\ Hosts \subseteq Inventory /\ Inputs \subseteq Input
  /\ \A s \in Inputs : \A n \in DOMAIN s.entries :
       s.entries[n].form = "list" => s.entries[n].toks # <<>>

----------------------------------------------------------------------------
(* ResolveDevices, AcceleratorDevices and DevicesIDs                       *)

\* DeviceInfo of a path.
Look(path) == IF path[1] = "accel" THEN host.accel[path[2]] ELSE host.control[path[2]]
Found == Look(Nodes[i])
Id == Nodes[i][2]

\* Mutant: an id is added once more.
AddAgain(ids, id) == Append(ids, id)

\* if !slices.Contains(ids, id) { append }
Add(ids, id) == IF Contains(ids, id) THEN ids ELSE Append(ids, id)

Resolve ==
  /\ at = "resolve"
  /\ at' = IF ~in.process THEN "failed"
           ELSE IF ~in.allowEnvironment /\ in.devices = <<>> THEN "done" ELSE "inspect"
  /\ UNCHANGED <<input, position, permissions, lists, matched>>

InspectNode ==
  /\ at = "inspect" /\ i <= Len(Nodes) /\ i' = i + 1
  /\ at' = IF Found.kind = "invalid" THEN "failed" ELSE at
  /\ UNCHANGED <<input, k, j, permissions, lists, matched>>

Inspected ==
  /\ at = "inspect" /\ i > Len(Nodes) /\ i' = 1
  /\ at' = IF in.allowEnvironment THEN "present" ELSE "allocate"
  /\ UNCHANGED <<input, k, j, permissions, lists, matched>>

PresentNode ==
  /\ at = "present" /\ i <= Len(Nodes) /\ i' = i + 1
  /\ authorized' = IF Found.kind = "char" THEN Add(authorized, Id) ELSE authorized
  /\ UNCHANGED <<input, at, k, j, permissions, seen, selected, current, matched>>

Authorized ==
  /\ at \in {"present", "allocate"} /\ i > Len(Nodes) /\ i' = 1
  /\ at' = IF authorized = <<>> THEN "done" ELSE "select"
  /\ UNCHANGED <<input, k, j, permissions, lists, matched>>

----------------------------------------------------------------------------
(* AllocatedDevices                                                        *)

IsAccelerator == Nodes[i][1] = "accel" /\ Found.kind = "char"
Listed == in.devices[k].type = "c" /\ in.devices[k].dev = Found.dev

\* Mutant: a permission is never taken back.
Accumulate(granted, rule) == IF rule.allow THEN granted \cup rule.access ELSE granted

\* permissions[access] = rule.Allow, for each access of the rule.
Overwrite(granted, rule) == IF rule.allow THEN granted \cup rule.access ELSE granted \ rule.access

Scanning == at = "allocate" /\ i <= Len(Nodes) /\ IsAccelerator /\ k <= Len(in.devices)

ScanRule ==
  /\ Scanning /\ Listed /\ j <= Len(in.rules) /\ j' = j + 1
  /\ LET rule == in.rules[j] IN
       permissions' = IF rule.type \in {"a", "c", ""} /\ Found.dev \in rule.devs
                      THEN Overwrite(permissions, rule) ELSE permissions
  /\ UNCHANGED <<input, at, i, k, lists, matched>>

NextDevice ==
  /\ Scanning /\ (Listed => j > Len(in.rules))
  /\ authorized' = IF Listed /\ {"r", "w"} \subseteq permissions THEN Add(authorized, Id) ELSE authorized
  /\ k' = k + 1 /\ j' = 1 /\ permissions' = {}
  /\ UNCHANGED <<input, at, i, seen, selected, current, matched>>

NextNode ==
  /\ at = "allocate" /\ i <= Len(Nodes) /\ (IsAccelerator => k > Len(in.devices))
  /\ i' = i + 1 /\ k' = 1
  /\ UNCHANGED <<input, at, j, permissions, lists, matched>>

----------------------------------------------------------------------------
(* SelectDevices                                                           *)

Selector == in.entries[i]

ScanEntry ==
  /\ at = "select" /\ i <= Len(in.entries)
  /\ IF Selector.key \notin SelectionKeys THEN i' = i + 1 /\ UNCHANGED <<at, k, j, seen, current, matched>>
     ELSE IF Selector.form = "bare" \/ Selector.key \in seen
     THEN at' = "failed" /\ UNCHANGED <<position, seen, current, matched>>
     ELSE /\ seen' = seen \cup {Selector.key}
          /\ current' = IF Selector.form = "all" THEN authorized ELSE <<>>
          /\ at' = IF Selector.form = "list" THEN "list" ELSE "compare"
          /\ k' = 1 /\ j' = 1 /\ matched' = FALSE /\ UNCHANGED i
  /\ UNCHANGED <<input, permissions, authorized, selected>>

\* One token against one id, whose identity is read for it.
MatchId ==
  /\ at = "list" /\ k <= Len(Selector.toks) /\ j <= Len(authorized)
  /\ LET token == Selector.toks[k]
         identity == Identity(host, Selector.key, authorized[j])
     IN  IF identity = ReadErr THEN at' = "failed" /\ UNCHANGED <<matched, current>>
         ELSE /\ UNCHANGED at
              /\ IF token # Empty /\ token = identity
                 THEN matched' = TRUE /\ current' = Add(current, authorized[j])
                 ELSE UNCHANGED <<matched, current>>
  /\ j' = j + 1
  /\ UNCHANGED <<input, i, k, permissions, authorized, seen, selected>>

\* Mutant: that a token matched is not forgotten for the next.
NextTokenMatched ==
  /\ at = "list" /\ k <= Len(Selector.toks) /\ j > Len(authorized)
  /\ at' = IF matched THEN at ELSE "failed"
  /\ k' = k + 1 /\ j' = 1
  /\ UNCHANGED <<input, i, permissions, lists, matched>>

NextToken ==
  /\ at = "list" /\ k <= Len(Selector.toks) /\ j > Len(authorized)
  /\ at' = IF matched THEN at ELSE "failed"
  /\ k' = k + 1 /\ j' = 1 /\ matched' = FALSE
  /\ UNCHANGED <<input, i, permissions, lists>>

Listened ==
  /\ at = "list" /\ k > Len(Selector.toks) /\ at' = "compare"
  /\ UNCHANGED <<input, position, permissions, lists, matched>>

\* slices.Sort: names sort as the paths that end in them.
Position(id) == CHOOSE n \in DOMAIN Nodes : Nodes[n] = <<"accel", id>>
Increasing(ids) == \A m, n \in DOMAIN ids : m < n => Position(ids[m]) <= Position(ids[n])
Sortings(ids) == {s \in {[n \in DOMAIN ids |-> ids[p[n]]] : p \in Bijection(DOMAIN ids, DOMAIN ids)} : Increasing(s)}

Compare ==
  /\ at = "compare"
  /\ \E sorted \in Sortings(current) :
       IF seen # {Selector.key} /\ selected # sorted
       THEN at' = "failed" /\ UNCHANGED <<i, selected>>
       ELSE at' = "select" /\ i' = i + 1 /\ selected' = sorted
  /\ UNCHANGED <<input, k, j, permissions, authorized, seen, current, matched>>

Selected ==
  /\ at = "select" /\ i > Len(in.entries) /\ at' = "done"
  /\ selected' = IF seen = {} /\ in.alwaysMount THEN authorized ELSE selected
  /\ UNCHANGED <<input, position, permissions, authorized, seen, current, matched>>

Init ==
  /\ host \in Hosts /\ in \in Inputs
  /\ at = "resolve" /\ i = 1 /\ k = 1 /\ j = 1
  /\ permissions = {} /\ authorized = <<>> /\ seen = {} /\ selected = <<>>
  /\ current = <<>> /\ matched = FALSE

Authorize == \/ Resolve \/ InspectNode \/ Inspected \/ PresentNode \/ Authorized
             \/ ScanRule \/ NextDevice \/ NextNode

Select == ScanEntry \/ MatchId \/ NextToken \/ Listened \/ Compare \/ Selected

Next == Authorize \/ Select

Spec == Init /\ [][Next]_vars

----------------------------------------------------------------------------
(* Properties                                                              *)

\* The input as Discover sees it: the values of each key in order, and lists
\* as sets of tokens.
Positions(key) == {n \in DOMAIN in.entries : in.entries[n].key = key}
Nth(S, n) == CHOOSE p \in S : Cardinality({q \in S : q <= p}) = n
AsValue(e) == [form |-> e.form, toks |-> ToSet(e.toks)]
Values(key) == [n \in 1..Cardinality(Positions(key)) |-> AsValue(in.entries[Nth(Positions(key), n)])]
AsSpec == [process |-> in.process, devices |-> ToSet(in.devices), rules |-> in.rules,
           env |-> [key \in EnvKeys |-> Values(key)]]

Declared == ResolveDevices(AsSpec, host, in.allowEnvironment, in.alwaysMount)

\* The permissions carried along from rule to rule come to what the last rule
\* for each access says, for any order of the rules and for a device listed any
\* number of times; and an id is there once, also where its accelerator and its
\* control node are both looked at.
AllocatesByLastRule ==
  at \in {"present", "allocate"} /\ i > Len(Nodes) =>
    /\ ToSet(authorized) = IF in.allowEnvironment THEN PresentDevices(host) ELSE AllocatedDevices(AsSpec, host)
    /\ IsInjective(authorized)

\* The loop over the environment, which stops at the first entry it cannot
\* take and compares each selector with the one before, accepts an environment
\* exactly if all selectors are sound and agree, in whatever order they come,
\* and selects what each of them says, no device twice.
ResolvesAsDeclared ==
  at \in {"done", "failed"} =>
    /\ at = "done" <=> Declared.ok
    /\ Declared.ok => ToSet(selected) = Declared.ids /\ IsInjective(selected)

====
