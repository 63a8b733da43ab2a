--------------------------- MODULE SelectLoopProofs ---------------------------
(***************************************************************************)
(* Proofs about module SelectLoop: for any inventory, spec and policy the  *)
(* loops of ResolveDevices come to the sets of Discover, which the other   *)
(* modules take for what discovery computes.                               *)
(***************************************************************************)
EXTENDS SelectLoop, FiniteSetTheorems, WellFoundedInduction, TLAPS

(***************************************************************************)
(* Lists without repetition.                                               *)
(***************************************************************************)
LEMMA AddAdds ==
  ASSUME NEW S, NEW ids \in Seq(S), NEW id \in S, IsInjective(ids)
  PROVE  /\ Add(ids, id) \in Seq(S) /\ IsInjective(Add(ids, id))
         /\ \A x : x \in ToSet(Add(ids, id)) <=> x \in ToSet(ids) \/ x = id
<1>1. CASE Contains(ids, id)
  BY <1>1 DEF Add, Contains, ToSet
<1>2. CASE ~Contains(ids, id)
  <2>1. Add(ids, id) = Append(ids, id)
    BY <1>2 DEF Add
  <2>2. \A n \in 1..Len(ids) : ids[n] # id
    BY <1>2 DEF Contains
  <2> QED
    BY <2>1, <2>2 DEF IsInjective, ToSet
<1> QED
  BY <1>1, <1>2

LEMMA EmptyHasNone ==
  ASSUME NEW S, NEW s \in Seq(S)
  PROVE  s = <<>> <=> ToSet(s) = {}
<1>1. ASSUME s = <<>> PROVE ToSet(s) = {}
  <2>1. DOMAIN s = {}
    BY <1>1
  <2> QED
    BY <2>1 DEF ToSet
<1>2. ASSUME s # <<>> PROVE ToSet(s) # {}
  <2>1. 1 \in DOMAIN s
    BY <1>2
  <2> QED
    BY <2>1 DEF ToSet
<1> QED
  BY <1>1, <1>2

LEMMA EmptyIsInjective == ToSet(<<>>) = {} /\ IsInjective(<<>>) /\ Increasing(<<>>)
<1>1. DOMAIN <<>> = {}
  OBVIOUS
<1> QED
  BY <1>1 DEF ToSet, IsInjective, Increasing

LEMMA SmallestExists ==
  ASSUME NEW S \in SUBSET Nat, S # {}
  PROVE  \E x \in S : \A y \in S : x <= y
<1>1. \A x, y \in Nat : <<y, x>> \in OpToRel(<, Nat) <=> y < x
  BY DEF OpToRel
<1>2. PICK x \in S : \A y \in S : <<y, x>> \notin OpToRel(<, Nat)
  BY NatLessThanWellFounded, WFMin
<1>3. ASSUME NEW y \in S PROVE x <= y
  <2>1. ~(y < x)
    BY <1>1, <1>2, Zenon
  <2>2. x \in Nat /\ y \in Nat
    OBVIOUS
  <2> QED
    BY <2>1, <2>2
<1> QED
  BY <1>3

(***************************************************************************)
(* Sorting keeps the ids, and a sorted list is determined by its ids: that *)
(* slices.Equal compares sets.                                             *)
(***************************************************************************)
LEMMA PositionIs ==
  ASSUME NEW id \in Accel
  PROVE  Position(id) \in DOMAIN Nodes /\ Nodes[Position(id)] = <<"accel", id>>
<1>1. <<"accel", id>> \in ToSet(Nodes)
  BY NodesAreOfAccel
<1> QED
  BY <1>1 DEF Position, ToSet

LEMMA PositionsDiffer ==
  ASSUME NEW a \in Accel, NEW b \in Accel, Position(a) = Position(b)
  PROVE  a = b
BY PositionIs

LEMMA SortingKeeps ==
  ASSUME NEW ids \in Seq(Accel), NEW s \in Sortings(ids)
  PROVE  /\ s \in Seq(Accel) /\ ToSet(s) = ToSet(ids) /\ Increasing(s)
         /\ IsInjective(ids) => IsInjective(s)
<1>1. PICK p \in Bijection(DOMAIN ids, DOMAIN ids) : s = [n \in DOMAIN ids |-> ids[p[n]]]
  BY DEF Sortings
<1>2. /\ p \in [DOMAIN ids -> DOMAIN ids]
      /\ \A m, n \in DOMAIN ids : p[m] = p[n] => m = n
      /\ \A m \in DOMAIN ids : \E n \in DOMAIN ids : p[n] = m
  BY DEF Bijection, Injection, Surjection, IsInjective
<1>3. DOMAIN ids = 1..Len(ids) /\ Len(ids) \in Nat
  OBVIOUS
<1>4. s \in Seq(Accel)
  BY <1>1, <1>2, <1>3
<1>5. ToSet(s) = ToSet(ids)
  BY <1>1, <1>2 DEF ToSet
<1>6. IsInjective(ids) => IsInjective(s)
  BY <1>1, <1>2 DEF IsInjective
<1> QED
  BY <1>4, <1>5, <1>6 DEF Sortings

LEMMA SortedIsUnique ==
  ASSUME NEW s \in Seq(Accel), NEW t \in Seq(Accel), IsInjective(s), IsInjective(t),
         Increasing(s), Increasing(t), ToSet(s) = ToSet(t)
  PROVE  s = t
<1> DEFINE D == {n \in Nat \ {0} : n \in DOMAIN s \cup DOMAIN t /\ (n > Len(s) \/ n > Len(t) \/ s[n] # t[n])}
<1>1. SUFFICES ASSUME D # {} PROVE FALSE
  <2>1. \A n \in DOMAIN s \cup DOMAIN t : n <= Len(s) /\ n <= Len(t) /\ s[n] = t[n]
    BY <1>1
  <2>2. Len(s) = Len(t)
    BY <2>1
  <2> QED
    BY <2>1, <2>2
<1>2. PICK n \in D : \A m \in D : n <= m
  BY <1>1, SmallestExists
<1>3. n \in Nat \ {0} /\ \A m \in 1..(n - 1) : m <= Len(s) /\ m <= Len(t) /\ s[m] = t[m]
  BY <1>2
<1> HIDE DEF D
<1>4. ASSUME NEW u \in Seq(Accel), NEW v \in Seq(Accel), IsInjective(v), Increasing(u),
             \A m \in 1..(n - 1) : m <= Len(u) /\ m <= Len(v) /\ u[m] = v[m],
             ToSet(u) = ToSet(v), n <= Len(v), n > Len(u) \/ u[n] # v[n]
      PROVE  n <= Len(u) /\ Position(u[n]) <= Position(v[n]) /\ u[n] # v[n]
  <2>1. v[n] \in ToSet(u)
    <3>1. n \in DOMAIN v
      BY <1>3, <1>4
    <3>2. v[n] \in ToSet(v)
      BY <3>1 DEF ToSet
    <3> QED
      BY <1>4, <3>2
  <2>2. PICK m \in 1..Len(u) : u[m] = v[n]
    BY <2>1 DEF ToSet
  <2>3. ~(m < n)
    <3>1. SUFFICES ASSUME m < n PROVE FALSE
      OBVIOUS
    <3>2. m \in 1..(n - 1) /\ m \in DOMAIN v /\ n \in DOMAIN v /\ v[m] = v[n]
      BY <1>3, <1>4, <2>2, <3>1
    <3> QED
      BY <1>4, <3>1, <3>2 DEF IsInjective
  <2>4. n <= Len(u) /\ u[n] # v[n] /\ n < m
    BY <1>3, <1>4, <2>2, <2>3
  <2> QED
    BY <1>3, <1>4, <2>2, <2>4 DEF Increasing
<1>5. n <= Len(s) \/ n <= Len(t)
  BY <1>2 DEF D
<1>6. n > Len(s) \/ n > Len(t) \/ s[n] # t[n]
  BY <1>2 DEF D
<1>7. n <= Len(s) /\ n <= Len(t) /\ s[n] # t[n]
  <2>1. CASE n <= Len(t)
    BY <1>3, <1>4, <1>6, <2>1
  <2>2. CASE n <= Len(s)
    <3>1. \A m \in 1..(n - 1) : m <= Len(t) /\ m <= Len(s) /\ t[m] = s[m]
      BY <1>3
    <3> QED
      BY <1>3, <1>4, <1>6, <2>2, <3>1
  <2> QED
    BY <1>5, <2>1, <2>2
<1>8. Position(s[n]) <= Position(t[n])
  BY <1>3, <1>4, <1>7
<1>9. Position(t[n]) <= Position(s[n])
  <2>1. \A m \in 1..(n - 1) : m <= Len(t) /\ m <= Len(s) /\ t[m] = s[m]
    BY <1>3
  <2> QED
    BY <1>3, <1>4, <1>7, <2>1
<1>10. s[n] \in Accel /\ t[n] \in Accel
  BY <1>3, <1>7
<1>11. Position(s[n]) = Position(t[n])
  BY <1>8, <1>9, <1>10, PositionIs, NodesAreOfAccel
<1> QED
  BY <1>7, <1>10, <1>11, PositionsDiffer

(***************************************************************************)
(* The invariant.  Of each loop is known what the positions before the     *)
(* present one have come to.                                               *)
(***************************************************************************)
Selecting == {"select", "list", "compare"}
Checked == Selecting \cup {"present", "allocate"}

Types ==
  /\ host \in Hosts /\ in \in Inputs
  /\ at \in Checked \cup {"resolve", "inspect", "done", "failed"}
  /\ i \in Nat \ {0} /\ k \in Nat \ {0} /\ j \in Nat \ {0}
  /\ permissions \in SUBSET Access /\ seen \in SUBSET SelectionKeys /\ matched \in BOOLEAN
  /\ authorized \in Seq(Accel) /\ selected \in Seq(Accel) /\ current \in Seq(Accel)

\* What ResolveDevices has ruled out, and what it has not begun.
Passed ==
  /\ at \in Checked \cup {"inspect"} => in.process /\ (in.allowEnvironment \/ in.devices # <<>>)
  /\ at = "inspect" => \A n \in DOMAIN Nodes : n < i => Look(Nodes[n]).kind # "invalid"
  /\ at \in Checked => ~InventoryBroken(host)
  /\ at \in {"resolve", "inspect", "present", "allocate"} => seen = {} /\ selected = <<>>
  /\ at \in {"resolve", "inspect"} => authorized = <<>> /\ k = 1 /\ j = 1 /\ permissions = {}
  /\ at = "resolve" => i = 1

Presenting ==
  at = "present" =>
    /\ in.allowEnvironment /\ IsInjective(authorized)
    /\ \A a \in Accel : a \in ToSet(authorized) <=>
         \E n \in DOMAIN Nodes : n < i /\ Nodes[n][2] = a /\ Look(Nodes[n]).kind = "char"

\* Device m is the node of accelerator a.
Lists(m, a) == in.devices[m].type = "c" /\ in.devices[m].dev = host.accel[a].dev

\* The last of the rules before n that is about the access allows it.
GrantedBefore(rules, n, dev, x) ==
  \E p \in DOMAIN rules :
     /\ p < n /\ RuleApplies(rules[p], dev, x) /\ rules[p].allow
     /\ \A q \in DOMAIN rules : p < q /\ q < n => ~RuleApplies(rules[q], dev, x)

Allocating ==
  at = "allocate" =>
    /\ ~in.allowEnvironment /\ IsInjective(authorized)
    /\ \A a \in Accel : a \in ToSet(authorized) <=>
         /\ a \in AllocatedDevices(AsSpec, host)
         /\ \E n \in DOMAIN Nodes :
              /\ Nodes[n] = <<"accel", a>>
              /\ n < i \/ (n = i /\ \E m \in DOMAIN in.devices : m < k /\ Lists(m, a))
    /\ j = 1 \/ (Scanning /\ Listed)
    /\ \A x \in Access : x \in permissions <=> GrantedBefore(in.rules, j, Found.dev, x)

ToSelectFrom == IF in.allowEnvironment THEN PresentDevices(host) ELSE AllocatedDevices(AsSpec, host)

\* The selectors among the entries before n.
Selectors(n) == {m \in DOMAIN in.entries : m < n /\ in.entries[m].key \in SelectionKeys}
ChosenBy(m)  == Chosen(in.entries[m].key, AsValue(in.entries[m]), ToSelectFrom, host)
SoundAt(m)   == ~Malformed(in.entries[m].key, AsValue(in.entries[m]), ToSelectFrom, host)

Accepting ==
  at \in Selecting =>
    /\ ToSet(authorized) = ToSelectFrom /\ IsInjective(authorized) /\ authorized # <<>>
    /\ \A m, n \in Selectors(i) : in.entries[m].key = in.entries[n].key => m = n
    /\ \A m \in Selectors(i) : SoundAt(m) /\ ToSet(selected) = ChosenBy(m)
    /\ Selectors(i) = {} => selected = <<>>
    /\ IsInjective(selected) /\ Increasing(selected)
    /\ at = "select" => seen = {in.entries[m].key : m \in Selectors(i)}

AtSelector ==
  at \in {"list", "compare"} =>
    /\ i \in DOMAIN in.entries /\ Selector.key \in SelectionKeys /\ Selector.form # "bare"
    /\ seen = {in.entries[m].key : m \in Selectors(i)} \cup {Selector.key}
    /\ \A m \in Selectors(i) : in.entries[m].key # Selector.key
    /\ IsInjective(current)

IdentityOf(a) == Identity(host, Selector.key, a)
Asks(p, a) == Selector.toks[p] # Empty /\ Selector.toks[p] = IdentityOf(a)

Listing ==
  at = "list" =>
    /\ Selector.form = "list"
    /\ \A a \in Accel : a \in ToSet(current) <=>
         \E p \in DOMAIN Selector.toks, n \in DOMAIN authorized :
            authorized[n] = a /\ (p < k \/ (p = k /\ n < j)) /\ Asks(p, a)
    /\ \A p \in DOMAIN Selector.toks : p < k => \E a \in ToSet(authorized) : Asks(p, a)
    /\ matched <=> /\ k \in DOMAIN Selector.toks
                   /\ \E n \in DOMAIN authorized : n < j /\ Asks(k, authorized[n])
    /\ \A n \in DOMAIN authorized : k > 1 \/ n < j => IdentityOf(authorized[n]) # ReadErr

Comparing == at = "compare" => SoundAt(i) /\ ToSet(current) = ChosenBy(i)

LoopInv == /\ Types /\ Passed /\ Presenting /\ Allocating /\ Accepting /\ AtSelector /\ Listing
           /\ Comparing /\ ResolvesAsDeclared

(***************************************************************************)
(* What Discover says of an environment, entry by entry.                   *)
(***************************************************************************)
LEMMA InputIs ==
  ASSUME Types
  PROVE  /\ host \in Inventory /\ in \in Input
         /\ \A n \in DOMAIN in.entries : /\ in.entries[n] \in Entry
                                         /\ in.entries[n].form = "list" => in.entries[n].toks # <<>>
BY InputsTyped DEF Types, Input

LEMMA FirstIs ==
  ASSUME NEW S \in SUBSET Nat, IsFiniteSet(S), NEW n \in S, \A m \in S : n <= m
  PROVE  Nth(S, 1) = n
<1>1. {q \in S : q <= n} = {n}
  <2>1. \A m \in S : m <= n => m = n
    OBVIOUS
  <2> QED
    BY <2>1
<1>2. Cardinality({q \in S : q <= n}) = 1
  BY <1>1, FS_Singleton
<1>3. ASSUME NEW p \in S, Cardinality({q \in S : q <= p}) = 1
      PROVE  p = n
  <2>1. IsFiniteSet({q \in S : q <= p})
    BY FS_Subset
  <2>2. PICK x : {q \in S : q <= p} = {x}
    BY <1>3, <2>1, FS_Singleton
  <2>3. p \in {q \in S : q <= p} /\ n \in {q \in S : q <= p}
    OBVIOUS
  <2> QED
    BY <2>2, <2>3
<1> QED
  BY <1>2, <1>3 DEF Nth

LEMMA EnvIs ==
  ASSUME Types, NEW key \in SelectionKeys
  PROVE  /\ AsSpec.env[key] = <<>> <=> Positions(key) = {}
         /\ Len(AsSpec.env[key]) > 1 <=> \E m, n \in Positions(key) : m # n
         /\ \A n \in Positions(key) :
              (\A m \in Positions(key) : n <= m) => AsSpec.env[key][1] = AsValue(in.entries[n])
<1> DEFINE S == Positions(key)
           C == Cardinality(S)
<1>1. S \in SUBSET Nat /\ S \subseteq 1..Len(in.entries) /\ Len(in.entries) \in Nat
  BY InputIs DEF Positions, Input
<1>2. IsFiniteSet(S)
  <2>1. IsFiniteSet(1..Len(in.entries))
    BY <1>1, FS_Interval
  <2> HIDE DEF S
  <2> QED
    BY <1>1, <2>1, FS_Subset
<1>3. C \in Nat
  BY <1>2, FS_CardinalityType
<1>4. C = 0 <=> S = {}
  BY <1>2, FS_EmptySet
<1>5. C = 1 <=> \E x : S = {x}
  BY <1>2, FS_Singleton
<1>6. AsSpec.env[key] = Values(key)
  BY DEF AsSpec, EnvKeys
<1> HIDE DEF S, C
<1>7. Values(key) = [n \in 1..C |-> AsValue(in.entries[Nth(S, n)])]
  BY DEF Values, S, C
<1>8. Len(Values(key)) = C /\ (Values(key) = <<>> <=> C = 0)
  BY <1>3, <1>7
<1>9. C > 1 <=> \E m, n \in S : m # n
  <2>1. (\E m, n \in S : m # n) <=> S # {} /\ ~\E x : S = {x}
    OBVIOUS
  <2> QED
    BY <1>3, <1>4, <1>5, <2>1
<1>10. ASSUME NEW n \in S, \A m \in S : n <= m
       PROVE  Values(key)[1] = AsValue(in.entries[n])
  <2>1. Nth(S, 1) = n
    BY <1>1, <1>2, <1>10, FirstIs
  <2>2. C >= 1
    BY <1>3, <1>4
  <2> QED
    BY <1>3, <1>7, <2>1, <2>2
<1>11. \A n \in S : (\A m \in S : n <= m) => Values(key)[1] = AsValue(in.entries[n])
  BY <1>10
<1> QED
  BY <1>4, <1>6, <1>8, <1>9, <1>11 DEF S

\* Entry n is the first with its key.
IsFirst(n) ==
  /\ n \in DOMAIN in.entries /\ in.entries[n].key \in SelectionKeys
  /\ \A m \in DOMAIN in.entries : m < n => in.entries[m].key # in.entries[n].key

LEMMA FirstValue ==
  ASSUME Types, NEW n, IsFirst(n)
  PROVE  LET key == in.entries[n].key
         IN  key \in SelectionKeys /\ AsSpec.env[key] # <<>> /\ AsSpec.env[key][1] = AsValue(in.entries[n])
<1> DEFINE key == in.entries[n].key
<1>1. key \in SelectionKeys /\ n \in Positions(key)
  BY DEF IsFirst, Positions
<1>2. \A m \in Positions(key) : n <= m
  BY InputIs DEF IsFirst, Positions, Input
<1> HIDE DEF key
<1> QED
  BY <1>1, <1>2, EnvIs DEF key

Offer == SelectDevices(AsSpec.env, ToSelectFrom, in.alwaysMount, host)

LEMMA RepeatFails ==
  ASSUME Types, NEW m \in DOMAIN in.entries, NEW n \in DOMAIN in.entries, m # n,
         in.entries[m].key = in.entries[n].key, in.entries[n].key \in SelectionKeys
  PROVE  Offer = Failure
<1> DEFINE key == in.entries[n].key
<1>1. m \in Positions(key) /\ n \in Positions(key)
  BY DEF Positions
<1> HIDE DEF key
<1>2. key \in SelectionKeys
  BY DEF key
<1>3. AsSpec.env[key] # <<>> /\ Len(AsSpec.env[key]) > 1
  BY <1>1, <1>2, EnvIs
<1> QED
  BY <1>2, <1>3 DEF Offer, SelectDevices

LEMMA UnsoundFails ==
  ASSUME Types, NEW n, IsFirst(n), ~SoundAt(n)
  PROVE  Offer = Failure
<1> DEFINE key == in.entries[n].key
<1>1. key \in SelectionKeys /\ AsSpec.env[key] # <<>> /\ AsSpec.env[key][1] = AsValue(in.entries[n])
  BY FirstValue
<1>2. Malformed(key, AsValue(in.entries[n]), ToSelectFrom, host)
  BY DEF SoundAt
<1> HIDE DEF key
<1> QED
  BY <1>1, <1>2 DEF Offer, SelectDevices

LEMMA ConflictFails ==
  ASSUME Types, NEW m, NEW n, IsFirst(m), IsFirst(n), ChosenBy(m) # ChosenBy(n)
  PROVE  Offer = Failure
<1> DEFINE key(p) == in.entries[p].key
<1>1. /\ key(m) \in SelectionKeys /\ AsSpec.env[key(m)] # <<>> /\ AsSpec.env[key(m)][1] = AsValue(in.entries[m])
      /\ key(n) \in SelectionKeys /\ AsSpec.env[key(n)] # <<>> /\ AsSpec.env[key(n)][1] = AsValue(in.entries[n])
  BY FirstValue
<1>2. Chosen(key(m), AsValue(in.entries[m]), ToSelectFrom, host)
        # Chosen(key(n), AsValue(in.entries[n]), ToSelectFrom, host)
  BY DEF ChosenBy
<1> HIDE DEF key
<1> QED
  BY <1>1, <1>2 DEF Offer, SelectDevices

LEMMA AgreedSucceeds ==
  ASSUME Types, NEW S, NEW N, \A n \in DOMAIN in.entries : n < N,
         \A m, n \in Selectors(N) : in.entries[m].key = in.entries[n].key => m = n,
         \A n \in Selectors(N) : SoundAt(n) /\ ChosenBy(n) = S,
         Selectors(N) = {} => S = IF in.alwaysMount THEN ToSelectFrom ELSE {}
  PROVE  Offer = Success(S)
<1> DEFINE used == {key \in SelectionKeys : AsSpec.env[key] # <<>>}
           picked(key) == Chosen(key, AsSpec.env[key][1], ToSelectFrom, host)
<1>1. ASSUME NEW key \in used
      PROVE  /\ ~(Len(AsSpec.env[key]) > 1)
             /\ ~Malformed(key, AsSpec.env[key][1], ToSelectFrom, host)
             /\ picked(key) = S /\ Selectors(N) # {}
  <2>1. key \in SelectionKeys /\ AsSpec.env[key] # <<>>
    BY <1>1
  <2>2. PICK n \in Positions(key) : TRUE
    BY <2>1, EnvIs
  <2>3. n \in Selectors(N) /\ in.entries[n].key = key
    BY <2>1, <2>2 DEF Positions, Selectors
  <2>4. \A m \in Positions(key) : m = n
    BY <2>1, <2>3 DEF Positions, Selectors
  <2>5. AsSpec.env[key][1] = AsValue(in.entries[n])
    <3>1. \A m \in Positions(key) : n <= m
      BY <2>2, <2>4, InputIs DEF Positions, Input
    <3> QED
      BY <2>1, <2>2, <3>1, EnvIs
  <2>6. ~(Len(AsSpec.env[key]) > 1)
    BY <2>1, <2>4, EnvIs
  <2> QED
    BY <2>3, <2>5, <2>6 DEF SoundAt, ChosenBy
<1>2. ASSUME NEW n \in Selectors(N) PROVE in.entries[n].key \in used
  <2>1. n \in Positions(in.entries[n].key) /\ in.entries[n].key \in SelectionKeys
    BY DEF Selectors, Positions
  <2> QED
    BY <2>1, EnvIs
<1>3. used = {} <=> Selectors(N) = {}
  BY <1>1, <1>2
<1>4. used # {} => S \subseteq ToSelectFrom
  BY <1>1 DEF Chosen
<1>5. Offer = IF \E key \in used : \/ Len(AsSpec.env[key]) > 1
                                   \/ Malformed(key, AsSpec.env[key][1], ToSelectFrom, host)
                                   \/ \E other \in used : picked(key) # picked(other)
              THEN Failure
              ELSE Success({a \in ToSelectFrom : \/ used = {} /\ in.alwaysMount
                                                 \/ \E key \in used : a \in picked(key)})
  BY DEF Offer, SelectDevices
<1> HIDE DEF used, picked
<1>6. Offer = Success({a \in ToSelectFrom : \/ used = {} /\ in.alwaysMount
                                            \/ \E key \in used : a \in picked(key)})
  BY <1>1, <1>5
<1>7. CASE used = {}
  BY <1>3, <1>6, <1>7
<1>8. CASE used # {}
  BY <1>1, <1>4, <1>6, <1>8
<1> QED
  BY <1>7, <1>8

LEMMA DeclaredIs ==
  ASSUME Types
  PROVE  /\ ~in.process => Declared = Failure
         /\ in.process /\ ~in.allowEnvironment /\ in.devices = <<>> => Declared = Success({})
         /\ in.process /\ (in.allowEnvironment \/ in.devices # <<>>) =>
              /\ InventoryBroken(host) => Declared = Failure
              /\ ~InventoryBroken(host) =>
                   Declared = IF ToSelectFrom = {} THEN Success({}) ELSE Offer
<1>1. in.devices = <<>> <=> AsSpec.devices = {}
  <2>1. in.devices \in Seq(Device)
    BY InputIs DEF Input
  <2>2. in.devices = <<>> <=> ToSet(in.devices) = {}
    BY <2>1, EmptyHasNone
  <2> QED
    BY <2>2 DEF AsSpec
<1>2. AsSpec.process = in.process
  BY DEF AsSpec
<1>3. Declared = IF ~in.process THEN Failure
                 ELSE IF ~in.allowEnvironment /\ in.devices = <<>> THEN Success({})
                 ELSE IF InventoryBroken(host) THEN Failure
                 ELSE IF ToSelectFrom = {} THEN Success({})
                 ELSE Offer
  BY <1>1, <1>2 DEF Declared, ResolveDevices, ToSelectFrom, Offer
<1> QED
  BY <1>3

(***************************************************************************)
(* The steps.                                                              *)
(***************************************************************************)
LEMMA InputStays ==
  ASSUME UNCHANGED input
  PROVE  /\ host' = host /\ in' = in /\ AsSpec' = AsSpec
         /\ ToSelectFrom' = ToSelectFrom /\ Declared' = Declared
         /\ \A n : /\ Selectors(n)' = Selectors(n) /\ ChosenBy(n)' = ChosenBy(n)
                   /\ SoundAt(n)' <=> SoundAt(n)
         /\ \A path : Look(path)' = Look(path)
         /\ \A m, a : Lists(m, a)' <=> Lists(m, a)
<1>1. host' = host /\ in' = in
  BY DEF input
<1>2. AsSpec' = AsSpec
  BY <1>1 DEF AsSpec, Values, Positions
<1>3. ToSelectFrom' = ToSelectFrom
  BY <1>1, <1>2 DEF ToSelectFrom
<1>4. Declared' = Declared
  BY <1>1, <1>2 DEF Declared
<1> QED
  BY <1>1, <1>2, <1>3, <1>4 DEF Selectors, ChosenBy, SoundAt, Look, Lists

LEMMA Refused ==
  ASSUME UNCHANGED input, at' = "failed", Declared = Failure
  PROVE  ResolvesAsDeclared'
<1>1. Declared' = Declared /\ ~Failure.ok /\ at' # "done"
  BY InputStays DEF Failure
<1> QED
  BY <1>1 DEF ResolvesAsDeclared

LEMMA Accepted ==
  ASSUME UNCHANGED input, at' = "done", Declared = Success(ToSet(selected')), IsInjective(selected')
  PROVE  ResolvesAsDeclared'
<1>1. Declared' = Declared /\ Declared.ok /\ Declared.ids = ToSet(selected')
  BY InputStays DEF Success
<1> QED
  BY <1>1 DEF ResolvesAsDeclared

\* Between two devices, and between two nodes, nothing is carried along.
LEMMA NothingCarried ==
  ASSUME NEW rules \in Seq(Rule), NEW dev, NEW x
  PROVE  ~GrantedBefore(rules, 1, dev, x)
<1>1. \A p \in DOMAIN rules : p \in Nat \ {0}
  OBVIOUS
<1> QED
  BY <1>1 DEF GrantedBefore

LEMMA InitLoop == Init => LoopInv
<1> SUFFICES ASSUME Init PROVE LoopInv
  OBVIOUS
<1>1. Types
  <2>1. <<>> \in Seq(Accel) /\ 1 \in Nat \ {0} /\ FALSE \in BOOLEAN
    OBVIOUS
  <2> QED
    BY <2>1 DEF Init, Types
<1> QED
  BY <1>1 DEF Init, LoopInv, Passed, Presenting, Allocating, Accepting, AtSelector, Listing, Comparing,
         ResolvesAsDeclared, Selecting, Checked

LEMMA ResolveStep == ASSUME LoopInv, Resolve PROVE LoopInv'
<1>1. UNCHANGED input /\ at \notin Selecting /\ at' \in {"failed", "done", "inspect"}
      /\ UNCHANGED <<i, k, j, permissions, authorized, seen, selected, current, matched>>
  BY DEF Resolve, Selecting, position, lists
<1>2. Types'
  BY <1>1 DEF LoopInv, Types, input
<1>3. Passed'
  BY <1>1, InputStays DEF LoopInv, Passed, Resolve, Checked, Selecting, Types
<1>4. ResolvesAsDeclared'
  <2>1. Declared' = Declared /\ selected' = <<>>
    BY <1>1, InputStays DEF LoopInv, Passed, Resolve
  <2>2. at' = "failed" => Declared = Failure
    BY DeclaredIs DEF LoopInv, Resolve
  <2>3. at' = "done" => Declared = Success({})
    BY DeclaredIs DEF LoopInv, Resolve
  <2>4. at' = "inspect" => ResolvesAsDeclared'
    BY DEF ResolvesAsDeclared
  <2> QED
    BY <1>1, <2>1, <2>2, <2>3, <2>4, EmptyIsInjective, Refused, Accepted
<1> QED
  BY <1>1, <1>2, <1>3, <1>4
     DEF LoopInv, Presenting, Allocating, Accepting, AtSelector, Listing, Comparing, Selecting

LEMMA BrokenAt ==
  ASSUME Types
  PROVE  InventoryBroken(host) <=> \E n \in DOMAIN Nodes : Look(Nodes[n]).kind = "invalid"
<1>1. ASSUME NEW a \in Accel, NEW kind \in {"accel", "control"}
      PROVE  \E n \in DOMAIN Nodes : Nodes[n] = <<kind, a>>
  <2>1. <<kind, a>> \in ToSet(Nodes)
    BY NodesAreOfAccel
  <2> QED
    BY <2>1 DEF ToSet
<1>2. ASSUME NEW n \in DOMAIN Nodes
      PROVE  \E a \in Accel : Nodes[n] = <<"accel", a>> \/ Nodes[n] = <<"control", a>>
  <2>1. Nodes[n] \in {"accel", "control"} \X Accel
    BY NodesAreOfAccel
  <2> QED
    BY <2>1
<1>3. \A a \in Accel : Look(<<"accel", a>>) = host.accel[a] /\ Look(<<"control", a>>) = host.control[a]
  BY DEF Look
<1>4. ASSUME NEW n \in DOMAIN Nodes, Look(Nodes[n]).kind = "invalid" PROVE InventoryBroken(host)
  BY <1>2, <1>3, <1>4 DEF InventoryBroken
<1>5. ASSUME NEW a \in Accel, "invalid" \in {host.accel[a].kind, host.control[a].kind}
      PROVE  \E n \in DOMAIN Nodes : Look(Nodes[n]).kind = "invalid"
  <2>1. PICK m \in DOMAIN Nodes : Nodes[m] = <<"accel", a>>
    BY <1>1
  <2>2. PICK n \in DOMAIN Nodes : Nodes[n] = <<"control", a>>
    BY <1>1
  <2> QED
    BY <1>3, <1>5, <2>1, <2>2
<1> QED
  BY <1>4, <1>5 DEF InventoryBroken

LEMMA InspectStep == ASSUME LoopInv, InspectNode PROVE LoopInv'
<1>1. UNCHANGED input /\ at = "inspect" /\ at' \in {"failed", "inspect"} /\ i' = i + 1 /\ i \in DOMAIN Nodes
      /\ UNCHANGED <<k, j, permissions, authorized, seen, selected, current, matched>>
  BY NodesAreOfAccel DEF LoopInv, Types, InspectNode, lists
<1>2. Types'
  BY <1>1 DEF LoopInv, Types, input
<1>3. Passed'
  <2>1. at' = "inspect" => \A n \in DOMAIN Nodes : n < i' => Look(Nodes[n])'.kind # "invalid"
    BY <1>1, InputStays, NodesAreOfAccel DEF LoopInv, Passed, Types, InspectNode, Found
  <2> QED
    BY <1>1, <2>1, InputStays DEF LoopInv, Passed, Checked, Selecting
<1>4. ResolvesAsDeclared'
  <2>2. at' = "failed" => Declared = Failure
    BY <1>1, DeclaredIs, BrokenAt DEF LoopInv, InspectNode, Found, Passed, Checked
  <2>3. at' = "inspect" => ResolvesAsDeclared'
    BY DEF ResolvesAsDeclared
  <2> QED
    BY <1>1, <2>2, <2>3, Refused
<1> QED
  BY <1>1, <1>2, <1>3, <1>4
     DEF LoopInv, Presenting, Allocating, Accepting, AtSelector, Listing, Comparing, Selecting

LEMMA InspectedStep == ASSUME LoopInv, Inspected PROVE LoopInv'
<1>1. UNCHANGED input /\ at = "inspect" /\ at' \in {"present", "allocate"} /\ i' = 1 /\ i > Len(Nodes)
      /\ UNCHANGED <<k, j, permissions, authorized, seen, selected, current, matched>>
  BY DEF Inspected, lists
<1>2. Types'
  BY <1>1 DEF LoopInv, Types, input, Checked
<1>3. ~InventoryBroken(host)
  BY <1>1, BrokenAt, NodesAreOfAccel DEF LoopInv, Types, Passed
<1>4. Passed'
  BY <1>1, <1>3, InputStays DEF LoopInv, Passed, Checked, Selecting
<1>5. authorized = <<>> /\ IsInjective(authorized) /\ ToSet(authorized) = {} /\ k = 1 /\ j = 1 /\ permissions = {}
  BY <1>1, EmptyIsInjective DEF LoopInv, Passed
<1>6. Presenting'
  BY <1>1, <1>5, InputStays, NodesAreOfAccel DEF Presenting, Inspected
<1>7. Allocating'
  <2>1. in.rules \in Seq(Rule) /\ in' = in
    BY <1>1, InputStays, InputIs DEF LoopInv, Input
  <2>2. \A a : ~\E n \in DOMAIN Nodes : n < 1 \/ (n = 1 /\ \E m \in DOMAIN in.devices : m < 1 /\ Lists(m, a))
    BY NodesAreOfAccel, InputIs DEF LoopInv, Input
  <2> QED
    BY <1>1, <1>5, <2>1, <2>2, InputStays, NothingCarried DEF Allocating, Inspected
<1> QED
  BY <1>1, <1>2, <1>4, <1>6, <1>7
     DEF LoopInv, Accepting, AtSelector, Listing, Comparing, Selecting, ResolvesAsDeclared

LEMMA PresentStep == ASSUME LoopInv, PresentNode PROVE LoopInv'
<1>1. UNCHANGED input /\ at = "present" /\ at' = at /\ i' = i + 1 /\ i \in DOMAIN Nodes
      /\ UNCHANGED <<k, j, permissions, seen, selected, current, matched>>
  BY NodesAreOfAccel DEF LoopInv, Types, PresentNode
<1>2. Id \in Accel
  BY <1>1, NodesAreOfAccel DEF Id
<1>3. authorized' = IF Found.kind = "char" THEN Add(authorized, Id) ELSE authorized
  BY DEF PresentNode
<1>4. /\ authorized' \in Seq(Accel) /\ IsInjective(authorized')
      /\ \A a : a \in ToSet(authorized') <=>
           a \in ToSet(authorized) \/ (a = Id /\ Found.kind = "char")
  BY <1>1, <1>2, <1>3, AddAdds DEF LoopInv, Types, Presenting
<1>5. Types'
  BY <1>1, <1>4 DEF LoopInv, Types, input
<1>6. Passed'
  BY <1>1, InputStays DEF LoopInv, Passed, Checked, Selecting
<1>7. Presenting'
  <2>1. ASSUME NEW a \in Accel
        PROVE  a \in ToSet(authorized') <=>
                 \E n \in DOMAIN Nodes : n < i' /\ Nodes[n][2] = a /\ Look(Nodes[n]).kind = "char"
    <3>1. (\E n \in DOMAIN Nodes : n < i' /\ Nodes[n][2] = a /\ Look(Nodes[n]).kind = "char")
            <=> \/ \E n \in DOMAIN Nodes : n < i /\ Nodes[n][2] = a /\ Look(Nodes[n]).kind = "char"
                \/ Nodes[i][2] = a /\ Look(Nodes[i]).kind = "char"
      BY <1>1, NodesAreOfAccel DEF LoopInv, Types
    <3> QED
      BY <1>1, <1>4, <3>1 DEF LoopInv, Presenting, Found, Id
  <2> QED
    BY <1>1, <1>4, <2>1, InputStays DEF LoopInv, Presenting
<1> QED
  BY <1>1, <1>5, <1>6, <1>7
     DEF LoopInv, Allocating, Accepting, AtSelector, Listing, Comparing, Selecting, ResolvesAsDeclared

LEMMA AllocatedIs ==
  ASSUME Types, NEW a \in Accel
  PROVE  a \in AllocatedDevices(AsSpec, host) <=>
           /\ host.accel[a].kind = "char" /\ \E m \in DOMAIN in.devices : Lists(m, a)
           /\ \A x \in {"r", "w"} : Granted(in.rules, host.accel[a].dev, x)
<1>1. AsSpec.rules = in.rules /\ AsSpec.devices = ToSet(in.devices)
  BY DEF AsSpec
<1> QED
  BY <1>1 DEF AllocatedDevices, ToSet, Lists

\* What the first two phases leave is what is authorized.
LEMMA AuthorizedAll ==
  ASSUME LoopInv, at \in {"present", "allocate"}, i > Len(Nodes)
  PROVE  ToSet(authorized) = ToSelectFrom /\ IsInjective(authorized)
<1>1. ToSet(authorized) \subseteq Accel
  BY DEF LoopInv, Types, ToSet
<1>2. \A n \in DOMAIN Nodes : n < i
  BY NodesAreOfAccel DEF LoopInv, Types
<1>3. ASSUME NEW a \in Accel, NEW kind \in {"accel", "control"}
      PROVE  \E n \in DOMAIN Nodes : Nodes[n] = <<kind, a>>
  <2>1. <<kind, a>> \in ToSet(Nodes)
    BY NodesAreOfAccel
  <2> QED
    BY <2>1 DEF ToSet
<1>4. CASE at = "present"
  <2>1. ASSUME NEW a \in Accel
        PROVE  a \in ToSet(authorized) <=> a \in PresentDevices(host)
    <3>1. a \in ToSet(authorized) <=>
            \E n \in DOMAIN Nodes : Nodes[n][2] = a /\ Look(Nodes[n]).kind = "char"
      BY <1>2, <1>4 DEF LoopInv, Presenting
    <3>2. ASSUME NEW n \in DOMAIN Nodes, Nodes[n][2] = a, Look(Nodes[n]).kind = "char"
          PROVE  a \in PresentDevices(host)
      BY <3>2, NodesAreOfAccel DEF Look, PresentDevices
    <3>3. ASSUME a \in PresentDevices(host)
          PROVE  \E n \in DOMAIN Nodes : Nodes[n][2] = a /\ Look(Nodes[n]).kind = "char"
      <4>1. PICK m \in DOMAIN Nodes : Nodes[m] = <<"accel", a>>
        BY <1>3
      <4>2. PICK n \in DOMAIN Nodes : Nodes[n] = <<"control", a>>
        BY <1>3
      <4>3. Look(Nodes[m]) = host.accel[a] /\ Look(Nodes[n]) = host.control[a]
        BY <4>1, <4>2 DEF Look
      <4> QED
        BY <3>3, <4>1, <4>2, <4>3 DEF PresentDevices
    <3> QED
      BY <3>1, <3>2, <3>3
  <2>2. PresentDevices(host) \subseteq Accel
    BY DEF PresentDevices
  <2> QED
    BY <1>1, <1>4, <2>1, <2>2 DEF LoopInv, Presenting, ToSelectFrom
<1>5. CASE at = "allocate"
  <2>1. \A a \in Accel : a \in ToSet(authorized) <=> a \in AllocatedDevices(AsSpec, host)
    BY <1>2, <1>3, <1>5 DEF LoopInv, Allocating
  <2>2. AllocatedDevices(AsSpec, host) \subseteq Accel
    BY DEF AllocatedDevices
  <2> QED
    BY <1>1, <1>5, <2>1, <2>2 DEF LoopInv, Allocating, ToSelectFrom
<1> QED
  BY <1>4, <1>5

LEMMA AuthorizedStep == ASSUME LoopInv, Authorized PROVE LoopInv'
<1>1. UNCHANGED input /\ at \in {"present", "allocate"} /\ i > Len(Nodes) /\ i' = 1
      /\ UNCHANGED <<k, j, permissions, authorized, seen, selected, current, matched>>
      /\ at' = IF authorized = <<>> THEN "done" ELSE "select"
  BY DEF Authorized, lists
<1>2. Types'
  BY <1>1 DEF LoopInv, Types, input, Checked, Selecting
<1>3. Passed'
  BY <1>1, InputStays DEF LoopInv, Passed, Checked, Selecting
<1>4. ToSet(authorized) = ToSelectFrom /\ IsInjective(authorized)
  BY <1>1, AuthorizedAll
<1>5. seen = {} /\ selected = <<>>
  BY <1>1 DEF LoopInv, Passed
<1>6. Accepting'
  <2>1. Selectors(i)' = {}
    BY <1>1, InputStays, InputIs DEF LoopInv, Selectors, Input
  <2>2. at' \in Selecting => at' = "select" /\ authorized # <<>>
    BY <1>1 DEF Selecting
  <2>3. seen' = {} /\ selected' = <<>>
    BY <1>1, <1>5
  <2>4. {in'.entries[m].key : m \in Selectors(i)'} = {}
    BY <2>1
  <2> QED
    BY <1>1, <1>4, <2>1, <2>2, <2>3, <2>4, InputStays, EmptyIsInjective DEF Accepting
<1>7. ResolvesAsDeclared'
  <2>1. CASE authorized = <<>>
    <3>1. ToSelectFrom = {}
      BY <1>4, <2>1, EmptyIsInjective
    <3>2. Declared = Success({})
      BY <1>1, <3>1, DeclaredIs DEF LoopInv, Passed, Checked
    <3> QED
      BY <1>1, <1>5, <2>1, <3>2, Accepted, EmptyIsInjective
  <2>2. CASE authorized # <<>>
    BY <1>1, <2>2 DEF ResolvesAsDeclared
  <2> QED
    BY <2>1, <2>2
<1> QED
  BY <1>1, <1>2, <1>3, <1>6, <1>7
     DEF LoopInv, Presenting, Allocating, AtSelector, Listing, Comparing

(***************************************************************************)
(* AllocatedDevices.  One rule more: it decides the accesses it is about.  *)
(***************************************************************************)
LEMMA GrantedThrough ==
  ASSUME NEW rules \in Seq(Rule), NEW dev, NEW x, NEW n \in DOMAIN rules
  PROVE  GrantedBefore(rules, n + 1, dev, x) <=>
           IF RuleApplies(rules[n], dev, x) THEN rules[n].allow ELSE GrantedBefore(rules, n, dev, x)
<1> DEFINE R(p) == RuleApplies(rules[p], dev, x)
<1>1. DOMAIN rules \subseteq Nat
  OBVIOUS
<1>2. \A p \in DOMAIN rules : (p < n + 1 <=> p < n \/ p = n)
  BY <1>1
<1>3. GrantedBefore(rules, n + 1, dev, x) <=>
        \E p \in DOMAIN rules : /\ p < n + 1 /\ R(p) /\ rules[p].allow
                                /\ \A q \in DOMAIN rules : p < q /\ q < n + 1 => ~R(q)
  BY DEF GrantedBefore
<1>4. GrantedBefore(rules, n, dev, x) <=>
        \E p \in DOMAIN rules : /\ p < n /\ R(p) /\ rules[p].allow
                                /\ \A q \in DOMAIN rules : p < q /\ q < n => ~R(q)
  BY DEF GrantedBefore
<1> HIDE DEF R
<1>5. CASE R(n)
  <2>1. GrantedBefore(rules, n + 1, dev, x) => rules[n].allow
    BY <1>1, <1>2, <1>3, <1>5
  <2>2. rules[n].allow => GrantedBefore(rules, n + 1, dev, x)
    BY <1>1, <1>2, <1>3, <1>5
  <2> QED
    BY <1>5, <2>1, <2>2 DEF R
<1>6. CASE ~R(n)
  <2>1. GrantedBefore(rules, n + 1, dev, x) <=> GrantedBefore(rules, n, dev, x)
    BY <1>1, <1>2, <1>3, <1>4, <1>6
  <2> QED
    BY <1>6, <2>1 DEF R
<1> QED
  BY <1>5, <1>6

\* The scan reads the input and its own position.
LEMMA ScanStays ==
  ASSUME UNCHANGED input, i' = i
  PROVE  Found' = Found /\ Id' = Id /\ (IsAccelerator' <=> IsAccelerator)
<1>1. Found' = Found /\ Id' = Id
  BY DEF Found, Look, Id, input
<1> QED
  BY <1>1 DEF IsAccelerator

LEMMA ScanRuleStep == ASSUME LoopInv, ScanRule PROVE LoopInv'
<1>1. UNCHANGED input /\ at = "allocate" /\ at' = at /\ j' = j + 1 /\ j \in DOMAIN in.rules
      /\ UNCHANGED <<i, k, authorized, seen, selected, current, matched>>
  <2>1. j \in Nat \ {0} /\ in.rules \in Seq(Rule) /\ j <= Len(in.rules)
    BY InputIs DEF LoopInv, Types, ScanRule, Input
  <2>2. j \in DOMAIN in.rules
    BY <2>1
  <2> QED
    BY <2>2 DEF ScanRule, Scanning, lists
<1> DEFINE rule == in.rules[j]
<1>2. rule \in Rule
  BY <1>1, InputIs DEF LoopInv, Input
<1>3. permissions' = IF rule.type \in {"a", "c", ""} /\ Found.dev \in rule.devs
                     THEN Overwrite(permissions, rule) ELSE permissions
  BY DEF ScanRule
<1>4. ASSUME NEW x \in Access
      PROVE  x \in permissions' <=> IF RuleApplies(rule, Found.dev, x) THEN rule.allow ELSE x \in permissions
  BY <1>2, <1>3 DEF Overwrite, RuleApplies, Rule
<1>5. permissions' \in SUBSET Access
  BY <1>2, <1>3 DEF Overwrite, Rule, LoopInv, Types
<1> HIDE DEF rule
<1>6. Types'
  BY <1>1, <1>5 DEF LoopInv, Types, input
<1>7. Passed'
  BY <1>1, InputStays DEF LoopInv, Passed, Checked, Selecting
<1>8. Allocating'
  <2>1. ASSUME NEW x \in Access
        PROVE  x \in permissions' <=> GrantedBefore(in.rules, j + 1, Found.dev, x)
    <3>1. in.rules \in Seq(Rule) /\ (x \in permissions <=> GrantedBefore(in.rules, j, Found.dev, x))
      BY <1>1, InputIs DEF LoopInv, Allocating, Input
    <3> QED
      BY <1>1, <1>4, <3>1, GrantedThrough DEF rule
  <2>2. Found' = Found
    BY <1>1, ScanStays
  <2>3. Scanning' /\ Listed'
    BY <1>1, ScanStays DEF ScanRule, Scanning, Listed, input
  <2> QED
    BY <1>1, <2>1, <2>2, <2>3, InputStays DEF LoopInv, Allocating
<1> QED
  BY <1>1, <1>6, <1>7, <1>8
     DEF LoopInv, Presenting, Accepting, AtSelector, Listing, Comparing, Selecting, ResolvesAsDeclared

LEMMA AllGranted ==
  ASSUME NEW rules \in Seq(Rule), NEW dev, NEW x, NEW n \in Nat, n > Len(rules)
  PROVE  GrantedBefore(rules, n, dev, x) <=> Granted(rules, dev, x)
<1>1. \A p \in DOMAIN rules : p \in Nat /\ p < n
  OBVIOUS
<1> QED
  BY <1>1 DEF GrantedBefore, Granted

LEMMA NextDeviceStep == ASSUME LoopInv, NextDevice PROVE LoopInv'
<1>1. UNCHANGED input /\ at = "allocate" /\ at' = at /\ k' = k + 1 /\ j' = 1 /\ permissions' = {}
      /\ i \in DOMAIN Nodes /\ k \in DOMAIN in.devices /\ IsAccelerator
      /\ UNCHANGED <<i, seen, selected, current, matched>>
  BY InputIs, NodesAreOfAccel DEF LoopInv, Types, NextDevice, Scanning, Input
<1>2. Id \in Accel /\ Nodes[i] = <<"accel", Id>> /\ Found = host.accel[Id]
  <2>1. Nodes[i] \in {"accel", "control"} \X Accel
    BY <1>1, NodesAreOfAccel
  <2> QED
    BY <1>1, <2>1 DEF Id, IsAccelerator, Found, Look
<1> DEFINE grants == Listed /\ {"r", "w"} \subseteq permissions
<1>3. /\ authorized' \in Seq(Accel) /\ IsInjective(authorized')
      /\ \A a : a \in ToSet(authorized') <=> a \in ToSet(authorized) \/ (a = Id /\ grants)
  BY <1>1, <1>2, AddAdds DEF LoopInv, Types, Allocating, NextDevice
<1>4. grants <=> Lists(k, Id) /\ Id \in AllocatedDevices(AsSpec, host)
  <2>1. Listed <=> Lists(k, Id)
    BY <1>2 DEF Listed, Lists
  <2>2. ASSUME Listed
        PROVE  \A x \in Access : x \in permissions <=> Granted(in.rules, Found.dev, x)
    <3>1. j > Len(in.rules) /\ j \in Nat /\ in.rules \in Seq(Rule)
      BY <2>2, InputIs DEF LoopInv, Types, NextDevice, Input
    <3> QED
      BY <1>1, <3>1, AllGranted DEF LoopInv, Allocating
  <2> QED
    BY <1>1, <1>2, <2>1, <2>2, AllocatedIs DEF LoopInv, IsAccelerator, Access
<1> HIDE DEF grants
<1>5. Types'
  BY <1>1, <1>3 DEF LoopInv, Types, input
<1>6. Passed'
  BY <1>1, InputStays DEF LoopInv, Passed, Checked, Selecting
<1>7. ASSUME NEW a \in Accel
      PROVE  a \in ToSet(authorized') <=>
               /\ a \in AllocatedDevices(AsSpec, host)
               /\ \E n \in DOMAIN Nodes :
                    /\ Nodes[n] = <<"accel", a>>
                    /\ n < i \/ (n = i /\ \E m \in DOMAIN in.devices : m < k + 1 /\ Lists(m, a))
  <2>1. (\E m \in DOMAIN in.devices : m < k + 1 /\ Lists(m, a))
          <=> (\E m \in DOMAIN in.devices : m < k /\ Lists(m, a)) \/ Lists(k, a)
    BY <1>1, InputIs DEF LoopInv, Types, Input
  <2>2. Nodes[i] = <<"accel", a>> <=> a = Id
    BY <1>2
  <2>3. a \in ToSet(authorized) <=>
          /\ a \in AllocatedDevices(AsSpec, host)
          /\ \E n \in DOMAIN Nodes :
               /\ Nodes[n] = <<"accel", a>>
               /\ n < i \/ (n = i /\ \E m \in DOMAIN in.devices : m < k /\ Lists(m, a))
    BY <1>1 DEF LoopInv, Allocating
  <2> QED
    BY <1>1, <1>3, <1>4, <2>1, <2>2, <2>3
<1>8. Allocating'
  <2>1. in.rules \in Seq(Rule) /\ in' = in
    BY <1>1, InputStays, InputIs DEF LoopInv, Input
  <2> QED
    BY <1>1, <1>3, <1>7, <2>1, InputStays, NothingCarried DEF LoopInv, Allocating
<1> QED
  BY <1>1, <1>5, <1>6, <1>8
     DEF LoopInv, Presenting, Accepting, AtSelector, Listing, Comparing, Selecting, ResolvesAsDeclared

LEMMA NextNodeStep == ASSUME LoopInv, NextNode PROVE LoopInv'
<1>1. UNCHANGED input /\ at = "allocate" /\ at' = at /\ i' = i + 1 /\ k' = 1 /\ i \in DOMAIN Nodes
      /\ (IsAccelerator => k > Len(in.devices))
      /\ UNCHANGED <<j, permissions, authorized, seen, selected, current, matched>>
  BY NodesAreOfAccel DEF LoopInv, Types, NextNode, lists
<1>2. j = 1
  BY <1>1 DEF LoopInv, Allocating, Scanning, Types, NextNode
<1>3. permissions = {}
  <2>1. in.rules \in Seq(Rule)
    BY InputIs DEF LoopInv, Input
  <2> QED
    BY <1>1, <1>2, <2>1, NothingCarried DEF LoopInv, Allocating, Types
<1>4. Types'
  BY <1>1 DEF LoopInv, Types, input
<1>5. Passed'
  BY <1>1, InputStays DEF LoopInv, Passed, Checked, Selecting
<1>6. ASSUME NEW a \in Accel
      PROVE  a \in ToSet(authorized) <=>
               /\ a \in AllocatedDevices(AsSpec, host)
               /\ \E n \in DOMAIN Nodes :
                    /\ Nodes[n] = <<"accel", a>>
                    /\ n < i + 1 \/ (n = i + 1 /\ \E m \in DOMAIN in.devices : m < 1 /\ Lists(m, a))
  <2>1. \A n \in DOMAIN Nodes : /\ n < i + 1 <=> n < i \/ n = i
                                /\ ~\E m \in DOMAIN in.devices : m < 1
    BY NodesAreOfAccel, InputIs DEF LoopInv, Types, Input
  <2>2. ASSUME Nodes[i] = <<"accel", a>>, a \in AllocatedDevices(AsSpec, host)
        PROVE  \E m \in DOMAIN in.devices : m < k /\ Lists(m, a)
    <3>1. host.accel[a].kind = "char" /\ \E m \in DOMAIN in.devices : Lists(m, a)
      BY <2>2, AllocatedIs DEF LoopInv
    <3>2. IsAccelerator
      BY <2>2, <3>1 DEF IsAccelerator, Found, Look
    <3>3. \A m \in DOMAIN in.devices : m < k
      BY <1>1, <3>2, InputIs DEF LoopInv, Types, Input
    <3> QED
      BY <3>1, <3>3
  <2>3. a \in ToSet(authorized) <=>
          /\ a \in AllocatedDevices(AsSpec, host)
          /\ \E n \in DOMAIN Nodes :
               /\ Nodes[n] = <<"accel", a>>
               /\ n < i \/ (n = i /\ \E m \in DOMAIN in.devices : m < k /\ Lists(m, a))
    BY <1>1 DEF LoopInv, Allocating
  <2> QED
    BY <2>1, <2>2, <2>3
<1>7. Allocating'
  <2>1. in.rules \in Seq(Rule) /\ in' = in
    BY <1>1, InputStays, InputIs DEF LoopInv, Input
  <2> QED
    BY <1>1, <1>2, <1>3, <1>6, <2>1, InputStays, NothingCarried DEF LoopInv, Allocating
<1> QED
  BY <1>1, <1>4, <1>5, <1>7
     DEF LoopInv, Presenting, Accepting, AtSelector, Listing, Comparing, Selecting, ResolvesAsDeclared

(***************************************************************************)
(* SelectDevices.                                                          *)
(***************************************************************************)
LEMMA SelectStays ==
  ASSUME UNCHANGED input, i' = i
  PROVE  /\ Selectors(i)' = Selectors(i) /\ Selector' = Selector
         /\ SoundAt(i)' <=> SoundAt(i)
         /\ ChosenBy(i)' = ChosenBy(i)
         /\ \A a : IdentityOf(a)' = IdentityOf(a)
         /\ \A p, a : Asks(p, a)' <=> Asks(p, a)
<1>1. host' = host /\ in' = in /\ ToSelectFrom' = ToSelectFrom
  BY InputStays
<1>2. Selector' = Selector /\ \A a : IdentityOf(a)' = IdentityOf(a)
  BY <1>1 DEF Selector, IdentityOf
<1> QED
  BY <1>1, <1>2 DEF Selectors, SoundAt, ChosenBy, Asks

LEMMA Offers == ASSUME LoopInv, at \in Selecting PROVE Declared = Offer
<1>1. ToSelectFrom # {}
  BY EmptyHasNone DEF LoopInv, Types, Accepting
<1> QED
  BY <1>1, DeclaredIs DEF LoopInv, Passed, Checked

LEMMA SelectorsAreFirst ==
  ASSUME LoopInv, at \in Selecting, NEW n \in Selectors(i)
  PROVE  IsFirst(n)
<1>1. n \in DOMAIN in.entries /\ n < i /\ in.entries[n].key \in SelectionKeys
  BY DEF Selectors
<1>2. ASSUME NEW m \in DOMAIN in.entries, m < n, in.entries[m].key = in.entries[n].key PROVE FALSE
  <2>1. m \in Selectors(i)
    BY <1>1, <1>2, InputIs DEF LoopInv, Types, Selectors, Input
  <2>2. m # n
    BY <1>1, <1>2, InputIs DEF LoopInv, Input
  <2> QED
    BY <1>2, <2>1, <2>2 DEF LoopInv, Accepting
<1> QED
  BY <1>1, <1>2 DEF IsFirst

LEMMA NewIsFirst ==
  ASSUME LoopInv, i \in DOMAIN in.entries, Selector.key \in SelectionKeys,
         \A m \in Selectors(i) : in.entries[m].key # Selector.key
  PROVE  IsFirst(i)
BY DEF Selectors, Selector, IsFirst

LEMMA ScanEntryStep == ASSUME LoopInv, ScanEntry PROVE LoopInv'
<1>1. UNCHANGED input /\ at = "select" /\ i \in DOMAIN in.entries
      /\ UNCHANGED <<permissions, authorized, selected>>
  <2>1. i \in Nat \ {0} /\ in.entries \in Seq(Entry) /\ i <= Len(in.entries)
    BY InputIs DEF LoopInv, Types, ScanEntry, Input
  <2>2. i \in DOMAIN in.entries
    BY <2>1
  <2> QED
    BY <2>2 DEF ScanEntry
<1>2. at \in Selecting /\ seen = {in.entries[m].key : m \in Selectors(i)} /\ i \notin Selectors(i)
  BY <1>1 DEF LoopInv, Accepting, Selecting, Selectors, Types
<1>3. host' = host /\ in' = in /\ ToSelectFrom' = ToSelectFrom
  BY <1>1, InputStays
<1>4. CASE Selector.key \notin SelectionKeys
  <2>1. i' = i + 1 /\ UNCHANGED <<at, k, j, seen, current, matched>>
    BY <1>4 DEF ScanEntry
  <2>2. Selectors(i)' = Selectors(i)
    <3>1. \A m \in DOMAIN in.entries : m \in Nat
      BY InputIs DEF LoopInv, Input
    <3>2. \A m \in DOMAIN in.entries : (m < i + 1 <=> m < i \/ m = i)
      BY <3>1, <1>1
    <3> QED
      BY <1>3, <1>4, <2>1, <3>2 DEF Selectors, Selector
  <2>3. Types'
    BY <1>1, <2>1 DEF LoopInv, Types, input
  <2>4. Passed'
    BY <1>1, <2>1, InputStays DEF LoopInv, Passed, Checked, Selecting
  <2>5. Accepting'
    BY <1>1, <1>2, <2>1, <2>2, InputStays DEF LoopInv, Accepting
  <2> QED
    BY <1>1, <2>1, <2>3, <2>4, <2>5
       DEF LoopInv, Presenting, Allocating, AtSelector, Listing, Comparing, ResolvesAsDeclared
<1>5. CASE Selector.key \in SelectionKeys /\ (Selector.form = "bare" \/ Selector.key \in seen)
  <2>1. at' = "failed" /\ UNCHANGED <<i, k, j, seen, current, matched>>
    BY <1>5 DEF ScanEntry, position
  <2>2. Declared = Failure
    <3>1. CASE Selector.key \in seen
      <4>1. PICK m \in Selectors(i) : in.entries[m].key = Selector.key
        BY <1>2, <3>1
      <4>2. m \in DOMAIN in.entries /\ m # i
        BY <1>2 DEF Selectors
      <4> QED
        BY <1>1, <1>2, <1>5, <4>1, <4>2, RepeatFails, Offers DEF LoopInv, Selector
    <3>2. CASE Selector.key \notin seen
      <4>1. IsFirst(i)
        BY <1>1, <1>2, <1>5, <3>2, NewIsFirst
      <4>2. ~SoundAt(i)
        BY <1>5, <3>2 DEF SoundAt, Malformed, AsValue, Selector
      <4> QED
        BY <1>2, <4>1, <4>2, UnsoundFails, Offers DEF LoopInv
    <3> QED
      BY <3>1, <3>2
  <2>3. Types'
    BY <1>1, <2>1 DEF LoopInv, Types, input
  <2>4. Passed'
    BY <1>1, <2>1, InputStays DEF LoopInv, Passed, Checked, Selecting
  <2>5. ResolvesAsDeclared'
    BY <1>1, <2>1, <2>2, Refused
  <2> QED
    BY <1>1, <2>1, <2>3, <2>4, <2>5
       DEF LoopInv, Presenting, Allocating, Accepting, AtSelector, Listing, Comparing, Selecting
<1>6. CASE Selector.key \in SelectionKeys /\ Selector.form # "bare" /\ Selector.key \notin seen
  <2>1. /\ seen' = seen \cup {Selector.key}
        /\ current' = IF Selector.form = "all" THEN authorized ELSE <<>>
        /\ at' = IF Selector.form = "list" THEN "list" ELSE "compare"
        /\ k' = 1 /\ j' = 1 /\ matched' = FALSE /\ i' = i
    BY <1>6 DEF ScanEntry
  <2>2. current' \in Seq(Accel) /\ seen' \in SUBSET SelectionKeys /\ matched' \in BOOLEAN
    <3>1. <<>> \in Seq(Accel) /\ authorized \in Seq(Accel) /\ seen \in SUBSET SelectionKeys
      BY DEF LoopInv, Types
    <3>2. matched' \in BOOLEAN
      BY <2>1
    <3> QED
      BY <1>6, <2>1, <3>1, <3>2
  <2>3. Types'
    BY <1>1, <2>1, <2>2 DEF LoopInv, Types, input, Checked, Selecting
  <2>4. Passed'
    BY <1>1, <2>1, InputStays DEF LoopInv, Passed, Checked, Selecting
  <2>5. Accepting'
    BY <1>1, <1>2, <2>1, InputStays, SelectStays DEF LoopInv, Accepting
  <2>6. AtSelector'
    <3>1. \A m \in Selectors(i) : in.entries[m].key # Selector.key
      BY <1>2, <1>6
    <3>2. IsInjective(current')
      BY <1>2, <2>1, EmptyIsInjective DEF LoopInv, Accepting
    <3> QED
      BY <1>1, <1>2, <1>3, <1>6, <2>1, <3>1, <3>2, SelectStays DEF AtSelector
  <2>7. Listing'
    <3>1. SUFFICES ASSUME at' = "list" PROVE Listing'
      BY DEF Listing
    <3>2. Selector.form = "list" /\ current' = <<>>
      BY <2>1, <3>1
    <3>3. ToSet(current') = {}
      BY <3>2, EmptyIsInjective
    <3>4. /\ \A p \in DOMAIN Selector.toks : ~(p < 1)
          /\ \A n \in DOMAIN authorized : ~(n < 1)
      BY <1>1, InputIs DEF LoopInv, Types, Selector, Entry
    <3> QED
      BY <1>1, <1>3, <2>1, <3>2, <3>3, <3>4, SelectStays DEF Listing
  <2>8. Comparing'
    <3>1. SUFFICES ASSUME at' = "compare" PROVE Comparing'
      BY DEF Comparing
    <3>2. Selector.form \in {"all", "empty", "none", "void"}
      BY <1>1, <1>6, <2>1, <3>1, InputIs DEF LoopInv, Selector, Entry
    <3>3. SoundAt(i)
      BY <3>2 DEF SoundAt, Malformed, AsValue, Selector
    <3>4. ToSet(current') = ChosenBy(i)
      BY <1>2, <2>1, <3>2, EmptyIsInjective DEF ChosenBy, Chosen, AsValue, Selector, LoopInv, Accepting
    <3> QED
      BY <1>1, <2>1, <3>3, <3>4, SelectStays DEF Comparing
  <2> QED
    BY <1>1, <2>1, <2>3, <2>4, <2>5, <2>6, <2>7, <2>8
       DEF LoopInv, Presenting, Allocating, ResolvesAsDeclared
<1> QED
  BY <1>4, <1>5, <1>6

LEMMA MatchIdStep == ASSUME LoopInv, MatchId PROVE LoopInv'
<1> DEFINE token == Selector.toks[k]
           id    == authorized[j]
<1>1. UNCHANGED input /\ at = "list" /\ k \in DOMAIN Selector.toks /\ j \in DOMAIN authorized
      /\ j' = j + 1 /\ UNCHANGED <<i, k, permissions, authorized, seen, selected>>
  <2>1. i \in DOMAIN in.entries /\ Selector.toks \in Seq(Token)
    BY InputIs DEF LoopInv, AtSelector, MatchId, Selector, Entry
  <2>2. /\ k \in Nat \ {0} /\ k <= Len(Selector.toks) /\ j \in Nat \ {0} /\ j <= Len(authorized)
        /\ authorized \in Seq(Accel)
    BY DEF LoopInv, Types, MatchId
  <2>3. k \in DOMAIN Selector.toks /\ j \in DOMAIN authorized
    BY <2>1, <2>2
  <2> QED
    BY <2>3 DEF MatchId
<1>2. id \in Accel /\ id \in ToSet(authorized) /\ id \in ToSelectFrom
  BY <1>1 DEF LoopInv, Types, Accepting, Selecting, ToSet
<1>3. /\ IdentityOf(id) = ReadErr => at' = "failed" /\ UNCHANGED <<matched, current>>
      /\ IdentityOf(id) # ReadErr /\ ~Asks(k, id) => UNCHANGED <<at, matched, current>>
      /\ IdentityOf(id) # ReadErr /\ Asks(k, id) =>
           at' = at /\ matched' = TRUE /\ current' = Add(current, id)
  BY DEF MatchId, IdentityOf, Asks
<1>4. host' = host /\ in' = in /\ ToSelectFrom' = ToSelectFrom
  BY <1>1, InputStays
<1>5. /\ current' \in Seq(Accel) /\ IsInjective(current')
      /\ \A a : a \in ToSet(current') <=>
           a \in ToSet(current) \/ (IdentityOf(id) # ReadErr /\ Asks(k, id) /\ a = id)
  <2>1. current \in Seq(Accel) /\ IsInjective(current)
    BY <1>1 DEF LoopInv, Types, AtSelector
  <2> HIDE DEF id
  <2>2. CASE IdentityOf(id) # ReadErr /\ Asks(k, id)
    <3>1. current' = Add(current, id)
      BY <1>3, <2>2
    <3> QED
      BY <1>2, <2>1, <2>2, <3>1, AddAdds
  <2>3. CASE ~(IdentityOf(id) # ReadErr /\ Asks(k, id))
    <3>1. current' = current
      BY <1>3, <2>3
    <3> QED
      BY <2>1, <2>3, <3>1
  <2> QED
    BY <2>2, <2>3
<1>6. matched' \in BOOLEAN
  BY <1>3 DEF LoopInv, Types
<1>7. at' \in {"list", "failed"}
  BY <1>1, <1>3
<1> HIDE DEF token, id
<1>8. Types'
  BY <1>1, <1>5, <1>6, <1>7 DEF LoopInv, Types, input, Checked, Selecting
<1>9. Passed'
  BY <1>1, <1>7, InputStays DEF LoopInv, Passed, Checked, Selecting
<1>10. Accepting'
  BY <1>1, <1>7, InputStays, SelectStays DEF LoopInv, Accepting, Selecting
<1>11. AtSelector'
  BY <1>1, <1>4, <1>5, <1>7, SelectStays DEF LoopInv, AtSelector
<1>12. CASE IdentityOf(id) = ReadErr
  <2>1. at' = "failed"
    BY <1>3, <1>12
  <2>2. IsFirst(i)
    BY <1>1, NewIsFirst DEF LoopInv, AtSelector
  <2>3. ~SoundAt(i)
    BY <1>1, <1>2, <1>12 DEF SoundAt, Malformed, AsValue, IdentityOf, Selector, LoopInv, Listing
  <2>4. Declared = Failure
    BY <1>1, <2>2, <2>3, UnsoundFails, Offers DEF LoopInv, Selecting
  <2> QED
    BY <1>1, <1>8, <1>9, <2>1, <2>4, Refused
       DEF LoopInv, Presenting, Allocating, Accepting, AtSelector, Listing, Comparing, Selecting
<1>13. CASE IdentityOf(id) # ReadErr
  <2>1. at' = "list"
    BY <1>1, <1>3, <1>13
  <2>2. DOMAIN authorized \subseteq Nat /\ j \in Nat
    BY <1>1 DEF LoopInv, Types
  <2>3. \A n \in DOMAIN authorized : (n < j + 1 <=> n < j \/ n = j)
    BY <2>2
  <2>4. ASSUME NEW a \in Accel
        PROVE  a \in ToSet(current') <=>
                 \E p \in DOMAIN Selector.toks, n \in DOMAIN authorized :
                   authorized[n] = a /\ (p < k \/ (p = k /\ n < j + 1)) /\ Asks(p, a)
    <3>1. a \in ToSet(current) <=>
            \E p \in DOMAIN Selector.toks, n \in DOMAIN authorized :
              authorized[n] = a /\ (p < k \/ (p = k /\ n < j)) /\ Asks(p, a)
      BY <1>1 DEF LoopInv, Listing
    <3> QED
      BY <1>1, <1>5, <1>13, <2>3, <3>1 DEF id
  <2>5. matched' <=> \E n \in DOMAIN authorized : n < j + 1 /\ Asks(k, authorized[n])
    <3>1. matched <=> \E n \in DOMAIN authorized : n < j /\ Asks(k, authorized[n])
      BY <1>1 DEF LoopInv, Listing
    <3>2. matched' <=> matched \/ Asks(k, id)
      BY <1>3, <1>13
    <3> QED
      BY <1>1, <2>3, <3>1, <3>2 DEF id
  <2>6. \A n \in DOMAIN authorized : k > 1 \/ n < j + 1 => IdentityOf(authorized[n]) # ReadErr
    BY <1>1, <1>13, <2>3 DEF id, LoopInv, Listing
  <2>7. Listing'
    BY <1>1, <1>4, <2>1, <2>4, <2>5, <2>6, SelectStays DEF LoopInv, Listing
  <2> QED
    BY <1>8, <1>9, <1>10, <1>11, <2>1, <2>7
       DEF LoopInv, Presenting, Allocating, Comparing, ResolvesAsDeclared
<1> QED
  BY <1>12, <1>13

LEMMA NextTokenStep == ASSUME LoopInv, NextToken PROVE LoopInv'
<1>1. UNCHANGED input /\ at = "list" /\ i \in DOMAIN in.entries /\ j > Len(authorized)
      /\ k' = k + 1 /\ j' = 1 /\ matched' = FALSE /\ at' = (IF matched THEN at ELSE "failed")
      /\ UNCHANGED <<i, permissions, authorized, seen, selected, current>>
  BY DEF NextToken, lists, LoopInv, AtSelector
<1>2. Selector.toks \in Seq(Token) /\ Selector.form = "list"
  BY <1>1, InputIs DEF LoopInv, Selector, Entry, Listing
<1>3. k \in DOMAIN Selector.toks
  <2>1. k \in Nat \ {0} /\ k <= Len(Selector.toks)
    BY DEF LoopInv, Types, NextToken
  <2> QED
    BY <1>2, <2>1
<1>4. \A n \in DOMAIN authorized : n \in Nat \ {0} /\ n < j
  BY <1>1 DEF LoopInv, Types
<1>5. DOMAIN Selector.toks \subseteq Nat \ {0} /\ k \in Nat \ {0}
  BY <1>2, <1>3
<1>6. host' = host /\ in' = in /\ ToSelectFrom' = ToSelectFrom /\ ToSet(authorized) = ToSelectFrom
  BY <1>1, InputStays DEF LoopInv, Accepting, Selecting
<1>7. Types'
  <2>1. at' \in {"list", "failed"} /\ matched' \in BOOLEAN
    BY <1>1
  <2> QED
    BY <1>1, <2>1 DEF LoopInv, Types, input, Checked, Selecting
<1>8. Passed'
  BY <1>1, InputStays DEF LoopInv, Passed, Checked, Selecting
<1>9. Accepting'
  BY <1>1, InputStays, SelectStays DEF LoopInv, Accepting, Selecting
<1>10. AtSelector'
  BY <1>1, <1>6, SelectStays DEF LoopInv, AtSelector
<1>11. matched <=> \E a \in ToSet(authorized) : Asks(k, a)
  BY <1>1, <1>3, <1>4 DEF LoopInv, Listing, ToSet
<1>12. CASE ~matched
  <2>1. at' = "failed"
    BY <1>1, <1>12
  <2>2. IsFirst(i)
    BY <1>1, NewIsFirst DEF LoopInv, AtSelector
  <2>3. Selector.toks[k] \in ToSet(Selector.toks)
    BY <1>3 DEF ToSet
  <2>4. ~SoundAt(i)
    BY <1>2, <1>6, <1>11, <1>12, <2>3 DEF SoundAt, Malformed, AsValue, IdentityOf, Selector, Asks
  <2>5. Declared = Failure
    BY <1>1, <2>2, <2>4, UnsoundFails, Offers DEF LoopInv, Selecting
  <2> QED
    BY <1>1, <1>7, <1>8, <2>1, <2>5, Refused
       DEF LoopInv, Presenting, Allocating, Accepting, AtSelector, Listing, Comparing, Selecting
<1>13. CASE matched
  <2>1. at' = "list"
    BY <1>1, <1>13
  <2>2. \A p \in DOMAIN Selector.toks : (p < k + 1 <=> p < k \/ p = k)
    BY <1>5
  <2>3. ASSUME NEW a \in Accel
        PROVE  a \in ToSet(current) <=>
                 \E p \in DOMAIN Selector.toks, n \in DOMAIN authorized :
                   authorized[n] = a /\ (p < k + 1 \/ (p = k + 1 /\ n < 1)) /\ Asks(p, a)
    <3>1. a \in ToSet(current) <=>
            \E p \in DOMAIN Selector.toks, n \in DOMAIN authorized :
              authorized[n] = a /\ (p < k \/ (p = k /\ n < j)) /\ Asks(p, a)
      BY <1>1 DEF LoopInv, Listing
    <3>2. \A n \in DOMAIN authorized : ~(n < 1) /\ n < j
      BY <1>4
    <3> QED
      BY <2>2, <3>1, <3>2
  <2>4. \A p \in DOMAIN Selector.toks : p < k + 1 => \E a \in ToSet(authorized) : Asks(p, a)
    BY <1>1, <1>11, <1>13, <2>2 DEF LoopInv, Listing
  <2>5. ~\E n \in DOMAIN authorized : n < 1
    BY <1>4
  <2>6. \A n \in DOMAIN authorized : IdentityOf(authorized[n]) # ReadErr
    BY <1>1, <1>4 DEF LoopInv, Listing
  <2>7. Listing'
    BY <1>1, <1>2, <1>6, <2>1, <2>3, <2>4, <2>5, <2>6, SelectStays DEF Listing
  <2> QED
    BY <1>7, <1>8, <1>9, <1>10, <2>1, <2>7
       DEF LoopInv, Presenting, Allocating, Comparing, ResolvesAsDeclared
<1> QED
  BY <1>12, <1>13

LEMMA ListenedStep == ASSUME LoopInv, Listened PROVE LoopInv'
<1>1. UNCHANGED input /\ at = "list" /\ at' = "compare" /\ i \in DOMAIN in.entries
      /\ UNCHANGED <<i, k, j, permissions, authorized, seen, selected, current, matched>>
  BY DEF Listened, lists, position, LoopInv, AtSelector
<1>2. Selector.toks \in Seq(Token) /\ Selector.form = "list" /\ Selector.toks # <<>>
  BY <1>1, InputIs DEF LoopInv, Selector, Entry, Listing
<1>3. \A p \in DOMAIN Selector.toks : p < k
  BY <1>2 DEF Listened, LoopInv, Types
<1>4. k > 1
  BY <1>2 DEF Listened, LoopInv, Types
<1>5. host' = host /\ in' = in /\ ToSelectFrom' = ToSelectFrom /\ ToSet(authorized) = ToSelectFrom
  BY <1>1, InputStays DEF LoopInv, Accepting, Selecting
<1>6. Types'
  BY <1>1 DEF LoopInv, Types, input, Checked, Selecting
<1>7. Passed'
  BY <1>1, InputStays DEF LoopInv, Passed, Checked, Selecting
<1>8. Accepting'
  BY <1>1, InputStays, SelectStays DEF LoopInv, Accepting, Selecting
<1>9. AtSelector'
  BY <1>1, <1>5, SelectStays DEF LoopInv, AtSelector
<1>10. \A a \in ToSelectFrom : IdentityOf(a) # ReadErr
  BY <1>1, <1>4, <1>5 DEF LoopInv, Listing, ToSet
<1>11. \A p \in DOMAIN Selector.toks : \E a \in ToSelectFrom : Asks(p, a)
  BY <1>1, <1>3, <1>5 DEF LoopInv, Listing
<1>12. SoundAt(i)
  <2>1. \A t \in ToSet(Selector.toks) : t # Empty /\ \E a \in ToSelectFrom : IdentityOf(a) = t
    BY <1>11 DEF ToSet, Asks
  <2> QED
    BY <1>2, <1>10, <2>1 DEF SoundAt, Malformed, AsValue, IdentityOf, Selector
<1>13. ToSet(current) = ChosenBy(i)
  <2>1. ToSelectFrom \subseteq Accel /\ ToSet(current) \subseteq Accel
    BY <1>5 DEF LoopInv, Types, ToSet
  <2>2. ASSUME NEW a \in Accel
        PROVE  a \in ToSet(current) <=> a \in ToSelectFrom /\ \E p \in DOMAIN Selector.toks : Asks(p, a)
    <3>1. a \in ToSet(current) <=>
            \E p \in DOMAIN Selector.toks, n \in DOMAIN authorized :
              authorized[n] = a /\ (p < k \/ (p = k /\ n < j)) /\ Asks(p, a)
      BY <1>1 DEF LoopInv, Listing
    <3> QED
      BY <1>3, <1>5, <3>1 DEF ToSet
  <2>3. ChosenBy(i) = {a \in ToSelectFrom : IdentityOf(a) \in ToSet(Selector.toks) \ {Empty}}
    BY <1>2 DEF ChosenBy, Chosen, AsValue, IdentityOf, Selector
  <2>4. \A a : (\E p \in DOMAIN Selector.toks : Asks(p, a)) <=> IdentityOf(a) \in ToSet(Selector.toks) \ {Empty}
    BY DEF Asks, ToSet
  <2> QED
    BY <2>1, <2>2, <2>3, <2>4
<1>14. Comparing'
  BY <1>1, <1>12, <1>13, SelectStays DEF Comparing
<1> QED
  BY <1>1, <1>6, <1>7, <1>8, <1>9, <1>14
     DEF LoopInv, Presenting, Allocating, Listing, ResolvesAsDeclared

LEMMA CompareStep == ASSUME LoopInv, Compare PROVE LoopInv'
<1>1. UNCHANGED input /\ at = "compare" /\ i \in DOMAIN in.entries /\ SoundAt(i)
      /\ Selector.key \in SelectionKeys /\ ToSet(current) = ChosenBy(i)
      /\ UNCHANGED <<k, j, permissions, authorized, seen, current, matched>>
  BY DEF Compare, LoopInv, AtSelector, Comparing
<1>2. PICK sorted \in Sortings(current) :
        IF seen # {Selector.key} /\ selected # sorted
        THEN at' = "failed" /\ UNCHANGED <<i, selected>>
        ELSE at' = "select" /\ i' = i + 1 /\ selected' = sorted
  BY DEF Compare
<1>3. /\ sorted \in Seq(Accel) /\ IsInjective(sorted) /\ Increasing(sorted)
      /\ ToSet(sorted) = ChosenBy(i)
  BY <1>1, <1>2, SortingKeeps DEF LoopInv, Types, AtSelector
<1>4. /\ selected \in Seq(Accel) /\ IsInjective(selected) /\ Increasing(selected)
      /\ \A m \in Selectors(i) : SoundAt(m) /\ ToSet(selected) = ChosenBy(m)
  BY <1>1 DEF LoopInv, Types, Accepting, Selecting
<1>5. /\ seen = {in.entries[m].key : m \in Selectors(i)} \cup {Selector.key}
      /\ \A m \in Selectors(i) : in.entries[m].key # Selector.key
  BY <1>1 DEF LoopInv, AtSelector
<1>6. CASE seen # {Selector.key} /\ selected # sorted
  <2>1. at' = "failed" /\ UNCHANGED <<i, selected>>
    BY <1>2, <1>6
  <2>2. PICK m \in Selectors(i) : TRUE
    BY <1>5, <1>6
  <2>3. ToSet(selected) # ToSet(sorted)
    BY <1>3, <1>4, <1>6, SortedIsUnique
  <2>4. ChosenBy(m) # ChosenBy(i)
    BY <1>3, <1>4, <2>2, <2>3
  <2>5. IsFirst(m) /\ IsFirst(i)
    BY <1>1, <1>5, <2>2, SelectorsAreFirst, NewIsFirst DEF Selecting
  <2>6. Declared = Failure
    BY <1>1, <2>4, <2>5, ConflictFails, Offers DEF LoopInv, Selecting
  <2>7. Types'
    BY <1>1, <2>1 DEF LoopInv, Types, input, Checked, Selecting
  <2>8. Passed'
    BY <1>1, <2>1, InputStays DEF LoopInv, Passed, Checked, Selecting
  <2> QED
    BY <1>1, <2>1, <2>6, <2>7, <2>8, Refused
       DEF LoopInv, Presenting, Allocating, Accepting, AtSelector, Listing, Comparing, Selecting
<1>7. CASE seen = {Selector.key} \/ selected = sorted
  <2>1. at' = "select" /\ i' = i + 1 /\ selected' = sorted
    BY <1>2, <1>7
  <2>2. host' = host /\ in' = in
    BY <1>1, InputStays
  <2>3. Types'
    BY <1>1, <1>3, <2>1 DEF LoopInv, Types, input, Checked, Selecting
  <2>4. Passed'
    BY <1>1, <2>1, InputStays DEF LoopInv, Passed, Checked, Selecting
  <2>5. Selectors(i)' = Selectors(i) \cup {i}
    <3>1. \A m \in DOMAIN in.entries : m \in Nat
      BY InputIs DEF LoopInv, Input
    <3>2. \A m \in DOMAIN in.entries : (m < i + 1 <=> m < i \/ m = i)
      BY <3>1, <1>1
    <3> QED
      BY <1>1, <2>1, <2>2, <3>2 DEF Selectors, Selector
  <2>6. ASSUME NEW m \in Selectors(i) \cup {i}
        PROVE  SoundAt(m) /\ ToSet(sorted) = ChosenBy(m)
    <3>1. seen = {Selector.key} => Selectors(i) = {}
      BY <1>5
    <3> QED
      BY <1>1, <1>3, <1>4, <1>7, <2>6, <3>1
  <2>7. \A m, n \in Selectors(i) \cup {i} : in.entries[m].key = in.entries[n].key => m = n
    BY <1>1, <1>5 DEF LoopInv, Accepting, Selecting, Selector
  <2>8. seen = {in.entries[m].key : m \in Selectors(i) \cup {i}}
    BY <1>5 DEF Selector
  <2>9. Accepting'
    <3>1. /\ ToSet(authorized') = ToSelectFrom' /\ IsInjective(authorized') /\ authorized' # <<>>
      BY <1>1, InputStays DEF LoopInv, Accepting, Selecting
    <3>2. \A m \in Selectors(i)' : SoundAt(m)' /\ ToSet(selected') = ChosenBy(m)'
      BY <1>1, <2>1, <2>5, <2>6, InputStays
    <3>3. \A m, n \in Selectors(i)' : in'.entries[m].key = in'.entries[n].key => m = n
      BY <2>2, <2>5, <2>7
    <3>4. seen' = {in'.entries[m].key : m \in Selectors(i)'} /\ Selectors(i)' # {}
      BY <1>1, <2>2, <2>5, <2>8
    <3> QED
      BY <1>3, <2>1, <3>1, <3>2, <3>3, <3>4 DEF Accepting
  <2> QED
    BY <1>1, <2>1, <2>3, <2>4, <2>9
       DEF LoopInv, Presenting, Allocating, AtSelector, Listing, Comparing, ResolvesAsDeclared
<1> QED
  BY <1>6, <1>7

LEMMA SelectedStep == ASSUME LoopInv, Selected PROVE LoopInv'
<1>1. UNCHANGED input /\ at = "select" /\ at' = "done" /\ i > Len(in.entries)
      /\ UNCHANGED <<i, k, j, permissions, authorized, seen, current, matched>>
      /\ selected' = IF seen = {} /\ in.alwaysMount THEN authorized ELSE selected
  BY DEF Selected, position
<1>2. /\ ToSet(authorized) = ToSelectFrom /\ IsInjective(authorized)
      /\ \A m, n \in Selectors(i) : in.entries[m].key = in.entries[n].key => m = n
      /\ \A m \in Selectors(i) : SoundAt(m) /\ ToSet(selected) = ChosenBy(m)
      /\ Selectors(i) = {} => selected = <<>>
      /\ IsInjective(selected) /\ seen = {in.entries[m].key : m \in Selectors(i)}
  BY <1>1 DEF LoopInv, Accepting, Selecting
<1>3. \A n \in DOMAIN in.entries : n < i
  BY <1>1, InputIs DEF LoopInv, Types, Input
<1>4. seen = {} <=> Selectors(i) = {}
  BY <1>2
<1>5. \A m \in Selectors(i) : SoundAt(m) /\ ChosenBy(m) = ToSet(selected')
  BY <1>1, <1>2, <1>4
<1>6. Selectors(i) = {} => ToSet(selected') = IF in.alwaysMount THEN ToSelectFrom ELSE {}
  BY <1>1, <1>2, <1>4, EmptyIsInjective
<1>7. Offer = Success(ToSet(selected'))
  BY <1>2, <1>3, <1>5, <1>6, AgreedSucceeds DEF LoopInv
<1>8. Declared = Success(ToSet(selected')) /\ IsInjective(selected')
  BY <1>1, <1>2, <1>7, Offers DEF Selecting
<1>9. Types'
  BY <1>1 DEF LoopInv, Types, input, Checked, Selecting
<1>10. Passed'
  BY <1>1, InputStays DEF LoopInv, Passed, Checked, Selecting
<1> QED
  BY <1>1, <1>8, <1>9, <1>10, Accepted
     DEF LoopInv, Presenting, Allocating, Accepting, AtSelector, Listing, Comparing, Selecting

LEMMA LoopNext == LoopInv /\ [Next]_vars => LoopInv'
<1> SUFFICES ASSUME LoopInv, [Next]_vars PROVE LoopInv'
  OBVIOUS
<1>1. CASE Authorize
  BY <1>1, ResolveStep, InspectStep, InspectedStep, PresentStep, AuthorizedStep, ScanRuleStep,
     NextDeviceStep, NextNodeStep DEF Authorize
<1>2. CASE Select
  BY <1>2, ScanEntryStep, MatchIdStep, NextTokenStep, ListenedStep, CompareStep, SelectedStep DEF Select
<1>3. CASE UNCHANGED vars
  <2>1. UNCHANGED input /\ i' = i
        /\ UNCHANGED <<at, k, j, permissions, authorized, seen, selected, current, matched>>
    BY <1>3 DEF vars, position, lists
  <2>2. Types'
    BY <2>1 DEF LoopInv, Types, input
  <2>3. Passed' /\ Presenting'
    BY <2>1, InputStays DEF LoopInv, Passed, Presenting
  <2>4. Allocating'
    <3>1. Scanning /\ Listed => (Scanning /\ Listed)'
      BY <2>1, InputStays, ScanStays DEF Scanning, Listed
    <3> QED
      BY <2>1, <3>1, InputStays, ScanStays DEF LoopInv, Allocating
  <2>5. Accepting' /\ AtSelector'
    BY <2>1, InputStays, SelectStays DEF LoopInv, Accepting, AtSelector
  <2>6. Listing' /\ Comparing'
    BY <2>1, InputStays, SelectStays DEF LoopInv, Listing, Comparing
  <2>7. ResolvesAsDeclared'
    BY <2>1, InputStays DEF LoopInv, ResolvesAsDeclared
  <2> QED
    BY <2>2, <2>3, <2>4, <2>5, <2>6, <2>7 DEF LoopInv
<1> QED
  BY <1>1, <1>2, <1>3 DEF Next

LEMMA LoopInvariant == Spec => []LoopInv
BY InitLoop, LoopNext, PTL DEF Spec

\* Whatever the order of nodes, devices and rules, and however often a device
\* is listed: the loops of AllocatedDevices and DevicesIDs leave the
\* accelerators that the last rules allow, or that are present, each once.
THEOREM LastRuleAllocates == Spec => []AllocatesByLastRule
<1>1. LoopInv => AllocatesByLastRule
  BY AuthorizedAll DEF AllocatesByLastRule, ToSelectFrom
<1> QED
  BY <1>1, LoopInvariant, PTL

\* For every inventory, spec and policy, ResolveDevices refuses and selects
\* what Discover, and so every other module, says it does.
THEOREM ResolvesDeclaredDevices == Spec => []ResolvesAsDeclared
<1>1. LoopInv => ResolvesAsDeclared
  BY DEF LoopInv
<1> QED
  BY <1>1, LoopInvariant, PTL
=============================================================================
