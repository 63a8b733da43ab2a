---------------------------- MODULE CgroupProofs ----------------------------
(***************************************************************************)
(* Proofs about modules CgroupFilter and DeviceFilter.  For any hosts,     *)
(* calls, policies and bounds a container that starts has its devices and  *)
(* no more, although the programs of its cgroup are detached before new    *)
(* ones are attached; and for any rules and any program of the engine the  *)
(* kernel takes the program that is generated, and what it computes with   *)
(* it is what the rules and the engine's program say.                      *)
(***************************************************************************)
EXTENDS CgroupFilter, DeviceFilter, FiniteSetTheorems, SequenceTheorems, WellFoundedInduction, TLAPS

LEMMA LessThan ==
  \E R : IsWellFoundedOn(R, Nat) /\ \A x, y \in Nat : <<y, x>> \in R <=> y < x
<1>1. \A x, y \in Nat : <<y, x>> \in OpToRel(<, Nat) <=> y < x
  BY DEF OpToRel
<1> QED
  BY <1>1, NatLessThanWellFounded

\* The first of some programs is one of them.
LEMMA FirstIsOne ==
  ASSUME NEW progs, progs # {}, \A p \in progs : p.id \in Nat
  PROVE  First(progs) \in progs
<1>1. PICK R : IsWellFoundedOn(R, Nat) /\ \A x, y \in Nat : <<y, x>> \in R <=> y < x
  BY LessThan
<1> DEFINE numbers == {p.id : p \in progs}
<1>2. numbers # {} /\ numbers \in SUBSET Nat
  OBVIOUS
<1> HIDE DEF numbers
<1>3. PICK n \in numbers : \A m \in numbers : <<m, n>> \notin R
  BY <1>1, <1>2, WFMin
<1>4. ASSUME NEW m \in numbers PROVE n <= m
  <2>1. n \in Nat /\ m \in Nat
    BY <1>2
  <2>2. <<m, n>> \notin R /\ (<<m, n>> \in R <=> m < n)
    BY <1>1, <1>3, <2>1, Zenon
  <2> QED
    BY <2>1, <2>2
<1>5. PICK p \in progs : p.id = n
  BY DEF numbers
<1>6. \A q \in progs : p.id <= q.id
  BY <1>4, <1>5 DEF numbers
<1> QED
  BY <1>6 DEF First

(***************************************************************************)
(* The invariant.  While the programs are exchanged, one that keeps within *)
(* the policy and the devices asked for is either attached, and not about  *)
(* to be detached, or waits to be attached; a program of the agent is      *)
(* newer than any that is to be detached.                                  *)
(***************************************************************************)
Bounds(p) == p.base \subseteq policy /\ p.added \subseteq asked

Numbered ==
  /\ created \in Nat /\ IsFiniteSet(old)
  /\ \A p \in programs \cup old \cup new : p.id \in Nat /\ p.id <= created

Calling ==
  /\ calls \in Seq(Seq(Dev)) /\ rules \in Seq(Dev)
  /\ pc \in {"rule", "open", "query", "fetch", "generate"} => Range(rules) \subseteq asked

Kept == CASE pc = "detach" -> (programs \ old) \cup new
          [] pc = "attach" -> programs \cup new
          [] OTHER         -> programs

Bounded ==
  /\ "devices" \in host.subsystems => allowed \subseteq policy \cup asked
  /\ container # "failed" /\ "devices" \notin host.subsystems =>
       policy = Dev \/ \E p \in Kept : Bounds(p)

Ends == container \in {"created", "started", "failed"} /\ (container # "created" => pc = "done")

FilterInv == Numbered /\ Calling /\ Bounded /\ Ends

LEMMA RangeOf ==
  ASSUME NEW D, NEW s \in Seq(D)
  PROVE  /\ s # <<>> => Head(s) \in Range(s) /\ Head(s) \in D /\ Tail(s) \in Seq(D)
         /\ s # <<>> => Range(Tail(s)) \subseteq Range(s)
         /\ Range(<<>>) = {}
BY DEF Range

LEMMA FilterInit == Init => FilterInv
<1> SUFFICES ASSUME Init PROVE FilterInv
  OBVIOUS
<1>1. programs = {} \/ \E n \in 0 .. 2, hidden \in SUBSET {1, 2} :
                         programs = {Program(i, i = 1, i \notin hidden, policy) : i \in 1 .. n}
  BY DEF Init
<1>2. \A p \in programs : p.id \in 1 .. 2 /\ p.base = policy /\ p.added = {}
  BY <1>1 DEF Program
<1>3. Numbered
  BY <1>2, FS_EmptySet DEF Init, Numbered
<1>4. Calling
  <2>1. <<>> \in Seq(Dev)
    OBVIOUS
  <2> QED
    BY <2>1, CallsTyped DEF Init, Calling
<1>5. "devices" \notin host.subsystems => policy = Dev \/ programs # {}
  <2> SUFFICES ASSUME "devices" \notin host.subsystems, policy # Dev PROVE programs # {}
    OBVIOUS
  <2>1. PICK n \in 1 .. 2, hidden \in SUBSET {1, 2} :
               programs = {Program(i, i = 1, i \notin hidden, policy) : i \in 1 .. n}
    BY DEF Init
  <2>2. Program(1, 1 = 1, 1 \notin hidden, policy) \in programs
    BY <2>1
  <2> QED
    BY <2>2
<1>6. Bounded
  BY <1>2, <1>5 DEF Init, Bounded, Kept, Bounds
<1>7. Ends
  BY DEF Init, Ends
<1> QED
  BY <1>3, <1>4, <1>6, <1>7 DEF FilterInv

(***************************************************************************)
(* The steps.                                                              *)
(***************************************************************************)
\* A step that leaves the programs alone, and does not begin to exchange them.
LEMMA Leaves ==
  ASSUME FilterInv, UNCHANGED <<programs, allowed, policy, created, host>>,
         asked \subseteq asked', IsFiniteSet(old'), old' \subseteq programs \cup old, new' \subseteq new,
         Calling', Ends', pc \notin {"detach", "attach"}, pc' \notin {"detach", "attach"},
         container' # "failed" => container # "failed"
  PROVE  FilterInv'
<1>1. Numbered'
  BY DEF FilterInv, Numbered
<1>2. ASSUME NEW p, Bounds(p) PROVE Bounds(p)'
  BY <1>2 DEF Bounds
<1>3. Bounded'
  <2>1. "devices" \in host.subsystems => allowed \subseteq policy \cup asked'
    BY DEF FilterInv, Bounded
  <2>2. container' # "failed" /\ "devices" \notin host.subsystems =>
          policy = Dev \/ \E p \in programs : Bounds(p)
    BY DEF FilterInv, Bounded, Kept
  <2> QED
    BY <1>2, <2>1, <2>2 DEF Bounded, Kept
<1> QED
  BY <1>1, <1>3 DEF FilterInv

\* The hook fails: nothing is claimed any more.
LEMMA Fails ==
  ASSUME FilterInv, HookFails, UNCHANGED <<programs, allowed, policy, created, host>>,
         asked' = asked, old' \subseteq old, IsFiniteSet(old'), new' \subseteq new,
         calls' \in Seq(Seq(Dev)), rules' \in Seq(Dev)
  PROVE  FilterInv'
<1>1. pc' = "done" /\ container' = "failed"
  BY DEF HookFails, Goto
<1>2. Calling'
  BY <1>1 DEF Calling
<1>3. Numbered' /\ Bounded' /\ Ends'
  BY <1>1 DEF FilterInv, Numbered, Bounded, Ends
<1> QED
  BY <1>2, <1>3 DEF FilterInv

LEMMA PathKeeps == ASSUME FilterInv, DetectVersion \/ MountPath \/ RootPath PROVE FilterInv'
<1>1. /\ UNCHANGED <<kernel, calls, rules, old, new, host, asked>>
      /\ pc \in {"version", "mount", "root"}
      /\ \/ HookFails
         \/ pc' \in {"mount", "root", "call"} /\ UNCHANGED container
  BY DEF DetectVersion, MountPath, RootPath, At, Goto, env
<1>2. IsFiniteSet(old) /\ calls \in Seq(Seq(Dev)) /\ rules \in Seq(Dev) /\ container = "created"
  BY <1>1 DEF FilterInv, Numbered, Calling, Ends
<1>3. CASE HookFails
  BY <1>1, <1>2, <1>3, Fails DEF kernel
<1>4. CASE pc' \in {"mount", "root", "call"} /\ UNCHANGED container
  <2>1. Calling' /\ Ends'
    BY <1>1, <1>2, <1>4 DEF Calling, Ends
  <2> QED
    BY <1>1, <1>2, <1>4, <2>1, Leaves DEF kernel
<1> QED
  BY <1>1, <1>3, <1>4

LEMMA CallKeeps == ASSUME FilterInv, Call \/ Start PROVE FilterInv'
<1>0. IsFiniteSet(old) /\ calls \in Seq(Seq(Dev)) /\ rules \in Seq(Dev)
  BY DEF FilterInv, Numbered, Calling
<1>1. CASE Call
  <2>1. /\ pc = "call" /\ calls # <<>> /\ calls' = Tail(calls)
        /\ UNCHANGED <<programs, allowed, policy, created, host, old, new>>
        /\ \/ /\ rules' = Head(calls) /\ asked' = asked \cup Range(Head(calls))
              /\ pc' \in {"rule", "open"} /\ UNCHANGED container
           \/ HookFails /\ UNCHANGED <<rules, asked>>
    BY <1>1 DEF Call, At, Goto, Fault, kernel
  <2>2. Head(calls) \in Seq(Dev) /\ calls' \in Seq(Seq(Dev))
    BY <1>0, <2>1
  <2>3. CASE HookFails /\ UNCHANGED <<rules, asked>>
    BY <1>0, <2>1, <2>2, <2>3, Fails
  <2>4. CASE /\ rules' = Head(calls) /\ asked' = asked \cup Range(Head(calls))
             /\ pc' \in {"rule", "open"} /\ UNCHANGED container
    <3>1. Calling' /\ Ends' /\ container = "created"
      BY <2>1, <2>2, <2>4 DEF FilterInv, Calling, Ends
    <3> QED
      BY <1>0, <2>1, <2>4, <3>1, Leaves
  <2> QED
    BY <2>1, <2>3, <2>4
<1>2. CASE Start
  <2>1. /\ pc = "call" /\ pc' = "done" /\ container' = "started"
        /\ UNCHANGED <<programs, allowed, policy, created, host, old, new, calls, rules, asked>>
    BY <1>2 DEF Start, At, Goto, kernel, cli
  <2>2. Calling' /\ Ends' /\ container = "created"
    BY <1>0, <2>1 DEF FilterInv, Calling, Ends
  <2> QED
    BY <1>0, <2>1, <2>2, Leaves
<1> QED
  BY <1>1, <1>2

\* Version 1: the devices allowed are the agent's and those asked for.
LEMMA RuleKeeps == ASSUME FilterInv, AddDeviceRule PROVE FilterInv'
<1>1. /\ pc = "rule" /\ calls' = calls /\ rules' \in {rules, Tail(rules)}
      /\ UNCHANGED <<programs, policy, created, host, old, new, asked>>
      /\ \/ rules = <<>> /\ pc' = "call" /\ UNCHANGED <<allowed, rules, container>>
         \/ /\ rules # <<>> /\ allowed' = allowed \cup {Head(rules)} /\ rules' = Tail(rules)
            /\ UNCHANGED <<pc, container>>
         \/ HookFails /\ UNCHANGED <<allowed, rules>>
  BY DEF AddDeviceRule, At, Goto, Fault
<1>2. /\ IsFiniteSet(old) /\ calls \in Seq(Seq(Dev)) /\ rules \in Seq(Dev) /\ container = "created"
      /\ Range(rules) \subseteq asked
  BY <1>1 DEF FilterInv, Numbered, Calling, Ends
<1>3. CASE rules = <<>> /\ pc' = "call" /\ UNCHANGED <<allowed, rules, container>>
  <2>1. Calling' /\ Ends'
    BY <1>1, <1>2, <1>3 DEF Calling, Ends
  <2> QED
    BY <1>1, <1>2, <1>3, <2>1, Leaves
<1>4. CASE /\ rules # <<>> /\ allowed' = allowed \cup {Head(rules)} /\ rules' = Tail(rules)
           /\ UNCHANGED <<pc, container>>
  <2>1. Head(rules) \in asked /\ Tail(rules) \in Seq(Dev) /\ Range(Tail(rules)) \subseteq asked
    BY <1>2, <1>4, RangeOf
  <2>2. Calling' /\ Ends' /\ Numbered'
    BY <1>1, <1>2, <1>4, <2>1 DEF Calling, Ends, FilterInv, Numbered
  <2>3. Bounded'
    BY <1>1, <1>4, <2>1 DEF FilterInv, Bounded, Kept, Bounds
  <2> QED
    BY <2>2, <2>3 DEF FilterInv
<1>5. CASE HookFails /\ UNCHANGED <<allowed, rules>>
  BY <1>1, <1>2, <1>5, Fails
<1> QED
  BY <1>1, <1>3, <1>4, <1>5

LEMMA QueryKeeps == ASSUME FilterInv, Open \/ Query \/ Fetch PROVE FilterInv'
<1>1. /\ pc \in {"open", "query", "fetch"}
      /\ UNCHANGED <<programs, allowed, policy, created, host, calls, rules, asked>>
      /\ new' \subseteq new
      /\ old' \in {{}, old} \/ (\E p \in programs : old' = old \cup {p})
      /\ \/ pc' \in {"open", "query", "fetch", "generate"} /\ UNCHANGED container
         \/ HookFails /\ old' \subseteq old
  <2>1. CASE Open
    BY <2>1 DEF Open, At, Goto, Fault, kernel, HookFails
  <2>2. CASE Query
    BY <2>2 DEF Query, At, Goto, Fault, kernel, HookFails
  <2>3. CASE Fetch
    BY <2>3 DEF Fetch, At, Goto, kernel, HookFails
  <2> QED
    BY <2>1, <2>2, <2>3
<1>2. /\ calls \in Seq(Seq(Dev)) /\ rules \in Seq(Dev) /\ container = "created"
      /\ Range(rules) \subseteq asked /\ IsFiniteSet(old)
  BY <1>1 DEF FilterInv, Calling, Ends, Numbered
<1>3. IsFiniteSet(old') /\ old' \subseteq programs \cup old
  <2>1. ASSUME NEW p \in programs, old' = old \cup {p} PROVE IsFiniteSet(old')
    BY <1>2, <2>1, FS_AddElement
  <2>2. old' \in {{}, old} => IsFiniteSet(old')
    BY <1>2, FS_EmptySet
  <2> QED
    BY <1>1, <2>1, <2>2
<1>4. CASE pc' \in {"open", "query", "fetch", "generate"} /\ UNCHANGED container
  <2>1. Calling' /\ Ends'
    BY <1>1, <1>2, <1>4 DEF Calling, Ends
  <2> QED
    BY <1>1, <1>2, <1>3, <1>4, <2>1, Leaves
<1>5. CASE HookFails /\ old' \subseteq old
  BY <1>1, <1>2, <1>3, <1>5, Fails
<1> QED
  BY <1>1, <1>4, <1>5

\* Every program that will be detached has a successor with the same base.
LEMMA GenerateKeeps == ASSUME FilterInv, Generate PROVE FilterInv'
<1> DEFINE Next1(p) == [id    |-> created + Cardinality({q \in old : q.id <= p.id}),
                        own   |-> FALSE, readable |-> TRUE,
                        base  |-> p.base, added |-> Prepend(p, Range(rules))]
<1>1. /\ pc = "generate"
      /\ UNCHANGED <<programs, allowed, policy, host, calls, rules, old, asked>>
      /\ \/ /\ old # {} /\ new' = {Next1(p) : p \in old}
            /\ created' = created + Cardinality(old) /\ pc' = "detach" /\ UNCHANGED container
         \/ HookFails /\ UNCHANGED <<new, created>>
  BY DEF Generate, At, Goto, Fault
<1>2. /\ calls \in Seq(Seq(Dev)) /\ rules \in Seq(Dev) /\ container = "created"
      /\ Range(rules) \subseteq asked /\ IsFiniteSet(old) /\ created \in Nat
      /\ \A p \in programs \cup old : p.id \in Nat /\ p.id <= created
  BY <1>1 DEF FilterInv, Calling, Ends, Numbered
<1>3. CASE HookFails /\ UNCHANGED <<new, created>>
  BY <1>1, <1>2, <1>3, Fails
<1>4. CASE /\ old # {} /\ new' = {Next1(p) : p \in old}
           /\ created' = created + Cardinality(old) /\ pc' = "detach" /\ UNCHANGED container
  <2>1. Cardinality(old) \in Nat
    BY <1>2, FS_CardinalityType
  <2>2. ASSUME NEW p \in old
        PROVE  /\ Next1(p).id \in Nat /\ Next1(p).id <= created'
               /\ Next1(p).base = p.base /\ Next1(p).added = p.added \cup Range(rules)
    <3>1. {q \in old : q.id <= p.id} \in SUBSET old
      OBVIOUS
    <3>2. /\ Cardinality({q \in old : q.id <= p.id}) \in Nat
          /\ Cardinality({q \in old : q.id <= p.id}) <= Cardinality(old)
      BY <1>2, <3>1, FS_Subset, FS_CardinalityType
    <3> QED
      BY <1>2, <1>4, <2>1, <3>2 DEF Prepend
  <2> HIDE DEF Next1
  <2>3. Numbered'
    BY <1>1, <1>2, <1>4, <2>1, <2>2 DEF Numbered
  <2>4. Calling' /\ Ends'
    BY <1>1, <1>2, <1>4 DEF Calling, Ends
  <2>5. ASSUME NEW p \in programs, Bounds(p) PROVE \E q \in (programs \ old) \cup new' : Bounds(q)'
    <3>1. CASE p \in old
      BY <1>1, <1>2, <1>4, <2>2, <2>5, <3>1 DEF Bounds
    <3>2. CASE p \notin old
      BY <1>1, <2>5, <3>2 DEF Bounds
    <3> QED
      BY <3>1, <3>2
  <2>6. Bounded'
    BY <1>1, <1>2, <1>4, <2>5 DEF FilterInv, Bounded, Kept
  <2> QED
    BY <2>3, <2>4, <2>6 DEF FilterInv
<1> QED
  BY <1>1, <1>3, <1>4

\* Only programs with a successor, or another beside them, are detached.
LEMMA DetachKeeps == ASSUME FilterInv, Detach PROVE FilterInv'
<1>1. /\ pc = "detach" /\ UNCHANGED <<allowed, policy, created, host, calls, rules, new, asked>>
      /\ \/ old = {} /\ pc' = "attach" /\ UNCHANGED <<programs, old, container>>
         \/ /\ old # {} /\ programs' = programs \ {First(old)} /\ old' = old \ {First(old)}
            /\ UNCHANGED <<pc, container>>
         \/ HookFails /\ UNCHANGED <<programs, old>>
  BY DEF Detach, At, Goto, Fault
<1>2. /\ calls \in Seq(Seq(Dev)) /\ rules \in Seq(Dev) /\ container = "created"
      /\ IsFiniteSet(old) /\ \A p \in old : p.id \in Nat
  BY <1>1 DEF FilterInv, Calling, Ends, Numbered
<1>3. CASE old = {} /\ pc' = "attach" /\ UNCHANGED <<programs, old, container>>
  <2>1. Numbered' /\ Calling' /\ Ends'
    BY <1>1, <1>2, <1>3 DEF FilterInv, Numbered, Calling, Ends
  <2>2. Bounded'
    BY <1>1, <1>3 DEF FilterInv, Bounded, Kept, Bounds
  <2> QED
    BY <2>1, <2>2 DEF FilterInv
<1>4. CASE /\ old # {} /\ programs' = programs \ {First(old)} /\ old' = old \ {First(old)}
           /\ UNCHANGED <<pc, container>>
  <2>1. First(old) \in old
    BY <1>2, <1>4, FirstIsOne
  <2>2. IsFiniteSet(old')
    BY <1>2, <1>4, FS_RemoveElement
  <2>3. Numbered' /\ Calling' /\ Ends'
    BY <1>1, <1>2, <1>4, <2>2 DEF FilterInv, Numbered, Calling, Ends
  <2>4. programs' \ old' = programs \ old
    BY <1>4, <2>1
  <2>5. Bounded'
    BY <1>1, <1>4, <2>4 DEF FilterInv, Bounded, Kept, Bounds
  <2> QED
    BY <2>3, <2>5 DEF FilterInv
<1>5. CASE HookFails /\ UNCHANGED <<programs, old>>
  BY <1>1, <1>2, <1>5, Fails
<1> QED
  BY <1>1, <1>3, <1>4, <1>5

LEMMA AttachKeeps == ASSUME FilterInv, Attach PROVE FilterInv'
<1>1. /\ pc = "attach" /\ UNCHANGED <<allowed, policy, created, host, calls, rules, old, asked>>
      /\ \/ new = {} /\ pc' = "call" /\ UNCHANGED <<programs, new, container>>
         \/ /\ new # {} /\ programs' = programs \cup {First(new)} /\ new' = new \ {First(new)}
            /\ UNCHANGED <<pc, container>>
         \/ HookFails /\ UNCHANGED <<programs, new>>
  BY DEF Attach, AttachFails, At, Goto, Fault
<1>2. /\ calls \in Seq(Seq(Dev)) /\ rules \in Seq(Dev) /\ container = "created"
      /\ IsFiniteSet(old) /\ \A p \in new : p.id \in Nat
  BY <1>1 DEF FilterInv, Calling, Ends, Numbered
<1>3. CASE new = {} /\ pc' = "call" /\ UNCHANGED <<programs, new, container>>
  <2>1. Numbered' /\ Calling' /\ Ends'
    BY <1>1, <1>2, <1>3 DEF FilterInv, Numbered, Calling, Ends
  <2>2. Bounded'
    BY <1>1, <1>3 DEF FilterInv, Bounded, Kept, Bounds
  <2> QED
    BY <2>1, <2>2 DEF FilterInv
<1>4. CASE /\ new # {} /\ programs' = programs \cup {First(new)} /\ new' = new \ {First(new)}
           /\ UNCHANGED <<pc, container>>
  <2>1. First(new) \in new
    BY <1>2, <1>4, FirstIsOne
  <2>2. Numbered' /\ Calling' /\ Ends'
    BY <1>1, <1>2, <1>4, <2>1 DEF FilterInv, Numbered, Calling, Ends
  <2>3. programs' \cup new' = programs \cup new
    BY <1>4, <2>1
  <2>4. Bounded'
    BY <1>1, <1>4, <2>3 DEF FilterInv, Bounded, Kept, Bounds
  <2> QED
    BY <2>2, <2>4 DEF FilterInv
<1>5. CASE HookFails /\ UNCHANGED <<programs, new>>
  BY <1>1, <1>2, <1>5, Fails
<1> QED
  BY <1>1, <1>3, <1>4, <1>5

\* The agent's own program keeps to its policy, and is newer than those to be detached.
LEMMA ReloadKeeps == ASSUME FilterInv, Reload PROVE FilterInv'
<1>0. PICK mine : mine = Program(created + 1, TRUE, TRUE, policy')
  OBVIOUS
<1>1. /\ UNCHANGED <<pc, host, container, asked, calls, rules, old, new>>
      /\ \/ "devices" \in host.subsystems /\ allowed' = policy' /\ UNCHANGED <<programs, created>>
         \/ /\ "devices" \notin host.subsystems /\ created' = created + 1 /\ UNCHANGED allowed
            /\ \E others \in SUBSET programs : programs' = others \cup {mine}
  BY <1>0 DEF Reload, cli
<1>2. mine.id = created + 1 /\ mine.base = policy' /\ mine.added = {}
  BY <1>0 DEF Program
<1>3. Numbered'
  BY <1>1, <1>2 DEF FilterInv, Numbered
<1>4. Calling' /\ Ends'
  BY <1>1 DEF FilterInv, Calling, Ends
<1>5. Bounded'
  <2>1. CASE "devices" \in host.subsystems
    BY <1>1, <2>1 DEF Bounded
  <2>2. CASE "devices" \notin host.subsystems
    <3>1. mine \in programs' /\ mine \notin old
      BY <1>1, <1>2, <2>2 DEF FilterInv, Numbered
    <3>2. mine \in Kept'
      BY <1>1, <3>1 DEF Kept
    <3>3. Bounds(mine)'
      BY <1>2 DEF Bounds
    <3> QED
      BY <1>1, <2>2, <3>2, <3>3 DEF Bounded
  <2> QED
    BY <2>1, <2>2
<1> QED
  BY <1>3, <1>4, <1>5 DEF FilterInv

LEMMA FilterStep == FilterInv /\ [Next]_vars => FilterInv'
<1> SUFFICES ASSUME FilterInv, [Next]_vars PROVE FilterInv'
  OBVIOUS
<1>1. CASE Kill
  <2>1. HookFails /\ UNCHANGED <<kernel, cli, host, asked>>
    BY <1>1 DEF Kill
  <2> QED
    BY <2>1, Fails DEF kernel, cli, FilterInv, Numbered, Calling
<1>2. CASE UNCHANGED vars
  BY <1>2 DEF vars, kernel, cli, query, env, FilterInv, Numbered, Calling, Bounded, Kept, Bounds, Ends
<1> QED
  BY <1>1, <1>2, PathKeeps, CallKeeps, RuleKeeps, QueryKeeps, GenerateKeeps, DetachKeeps,
     AttachKeeps, ReloadKeeps
  DEF Next, CliStep

\* A container that starts may access no more than the agent's policy and the
\* devices of the calls, whatever fails, is killed or is changed by the agent
\* while programs are exchanged (AddDeviceRules), for any number of programs.
THEOREM NeverWiderThanAsked == Spec => []NeverWider
<1>1. FilterInv => NeverWider
  <2> SUFFICES ASSUME FilterInv, container = "started", NEW d \in Access
               PROVE  d \in policy \cup asked
    BY DEF NeverWider
  <2>1. pc = "done" /\ d \in Dev
    BY DEF FilterInv, Ends, Access
  <2>2. CASE "devices" \in host.subsystems
    BY <2>2 DEF Access, FilterInv, Bounded
  <2>3. CASE "devices" \notin host.subsystems
    BY <2>1, <2>3 DEF Access, FilterInv, Bounded, Kept, Bounds
  <2> QED
    BY <2>2, <2>3
<1> QED
  BY <1>1, FilterInit, FilterStep, PTL DEF Spec

(***************************************************************************)
(* Devices are not lost.  As long as the agent keeps away, what the cgroup *)
(* allowed before the first call and what was asked for before the present *)
(* one is allowed by everything the cli may read or has made; what it asks *)
(* for now comes with the programs it makes.                               *)
(***************************************************************************)
Version1  == "devices" \in host.subsystems
Exchange  == {"open", "query", "fetch", "generate", "detach", "attach"}
Allows(p) == p.base \cup p.added
Pending   == IF pc \in {"rule", "open", "query", "fetch", "generate"} THEN Range(rules) ELSE {}
Granted   == (asked \ Pending) \cup before

Versions ==
  /\ asked \cup before \subseteq Dev
  /\ pc \in {"version", "mount", "root"} => asked = {} /\ before = {}
  /\ pc \in {"rule", "call"} \cup Exchange => version = CGroupVersion(host.subsystems)
  /\ pc \in {"mount", "root"} => version = CGroupVersion(host.subsystems)
  /\ pc = "rule" => Version1
  /\ pc \in Exchange => ~Version1
  /\ Version1 => programs = {}

Collected ==
  /\ pc = "fetch" => \A p \in programs : p.readable => p \in ids \cup old
  /\ pc \in {"generate", "detach"} => \A p \in programs : p.readable => p \in old
  /\ pc \in {"query", "fetch", "generate"} => \A p \in old : p \in programs /\ p.readable

Allowed ==
  /\ Version1 => Granted \subseteq allowed
  /\ pc # "detach" => \A p \in programs : p.readable => Granted \subseteq Allows(p)
  /\ pc \in {"detach", "attach"} => \A p \in new : asked \cup before \subseteq Allows(p)

AllowInv == Versions /\ (container # "failed" /\ ~disturbed => Collected /\ Allowed)

LEMMA AllowInit == Init => AllowInv
<1> SUFFICES ASSUME Init PROVE AllowInv
  OBVIOUS
<1>1. asked = {} /\ before = {} /\ pc = "version" /\ (Version1 => programs = {})
  BY DEF Init, Version1
<1> QED
  BY <1>1 DEF AllowInv, Versions, Collected, Allowed, Granted, Exchange

\* The hook fails: only the versions are still claimed.
LEMMA AllowFails ==
  ASSUME AllowInv, HookFails, UNCHANGED <<programs, host, asked, before>>
  PROVE  AllowInv'
BY DEF AllowInv, HookFails, Goto, Versions, Version1, Exchange

LEMMA AllowPath == ASSUME AllowInv, DetectVersion \/ MountPath \/ RootPath PROVE AllowInv'
<1>1. /\ UNCHANGED <<programs, allowed, host, asked, disturbed, old, ids, new>>
      /\ pc \in {"version", "mount", "root"}
      /\ \/ HookFails /\ UNCHANGED before
         \/ /\ \/ pc' \in {"mount", "root"} /\ UNCHANGED before
               \/ pc' = "call" /\ before' = Access
            /\ UNCHANGED container
            /\ version' = CGroupVersion(host.subsystems)
  BY DEF DetectVersion, MountPath, RootPath, At, Goto, env, kernel, query, AllowInv, Versions
<1>2. CASE HookFails /\ UNCHANGED before
  BY <1>1, <1>2, AllowFails
<1>3. CASE /\ pc' \in {"mount", "root"} /\ UNCHANGED <<before, container>>
           /\ version' = CGroupVersion(host.subsystems)
  <2>1. asked = {} /\ before = {}
    BY <1>1 DEF AllowInv, Versions
  <2> QED
    BY <1>1, <1>3, <2>1 DEF AllowInv, Versions, Version1, Exchange, Collected, Allowed, Granted
<1>4. CASE /\ pc' = "call" /\ before' = Access /\ UNCHANGED container
           /\ version' = CGroupVersion(host.subsystems)
  <2>1. asked = {}
    BY <1>1 DEF AllowInv, Versions
  <2>2. /\ Access \subseteq Dev
        /\ Version1 => Access \subseteq allowed
        /\ \A p \in programs : Access \subseteq Allows(p)
    BY DEF Access, Version1, Allows
  <2>3. Granted' = Access
    BY <1>1, <1>4, <2>1 DEF Granted, Pending
  <2>4. Versions'
    BY <1>1, <1>4, <2>1, <2>2 DEF AllowInv, Versions, Version1, Exchange
  <2>5. Collected' /\ Allowed'
    BY <1>1, <1>4, <2>2, <2>3 DEF Collected, Allowed, Version1, Allows
  <2> QED
    BY <2>4, <2>5 DEF AllowInv
<1> QED
  BY <1>1, <1>2, <1>3, <1>4

LEMMA AllowCall == ASSUME FilterInv, AllowInv, Call \/ Start PROVE AllowInv'
<1>1. CASE Call
  <2>1. /\ pc = "call" /\ calls # <<>> /\ Head(calls) \in Seq(Dev)
        /\ UNCHANGED <<programs, allowed, host, disturbed, version, before>>
        /\ \/ /\ rules' = Head(calls) /\ asked' = asked \cup Range(Head(calls))
              /\ pc' = (IF version = 1 THEN "rule" ELSE "open") /\ UNCHANGED container
           \/ HookFails /\ UNCHANGED asked
    BY <1>1 DEF Call, At, Goto, Fault, kernel, FilterInv, Calling
  <2>2. CASE HookFails /\ UNCHANGED asked
    BY <2>1, <2>2, AllowFails
  <2>3. CASE /\ rules' = Head(calls) /\ asked' = asked \cup Range(Head(calls))
             /\ pc' = (IF version = 1 THEN "rule" ELSE "open") /\ UNCHANGED container
    <3>1. Range(Head(calls)) \subseteq Dev
      BY <2>1 DEF Range
    <3>2. version = 1 <=> Version1
      <4>1. version = CGroupVersion(host.subsystems)
        BY <2>1 DEF AllowInv, Versions
      <4>2. CASE "devices" \in host.subsystems
        BY <4>1, <4>2 DEF Version1, CGroupVersion
      <4>3. CASE "devices" \notin host.subsystems
        <5>1. version \in {0, 2}
          BY <4>1, <4>3 DEF CGroupVersion
        <5> QED
          BY <4>3, <5>1 DEF Version1
      <4> QED
        BY <4>2, <4>3
    <3>3. Versions'
      BY <2>1, <2>3, <3>1, <3>2 DEF AllowInv, Versions, Version1, Exchange
    <3>4. Granted' \subseteq Granted
      BY <2>1, <2>3 DEF Granted, Pending
    <3>5. Allowed => Allowed'
      BY <2>1, <2>3, <3>4 DEF Allowed, Version1, Allows
    <3> QED
      BY <2>1, <2>3, <3>3, <3>5 DEF AllowInv, Collected
  <2> QED
    BY <2>1, <2>2, <2>3
<1>2. CASE Start
  <2>1. /\ pc = "call" /\ pc' = "done" /\ container' = "started"
        /\ UNCHANGED <<programs, allowed, host, asked, before, disturbed>> /\ container = "created"
    BY <1>2 DEF Start, At, Goto, kernel, cli, FilterInv, Ends
  <2> QED
    BY <2>1 DEF AllowInv, Versions, Version1, Exchange, Collected, Allowed, Granted, Pending, Allows
<1> QED
  BY <1>1, <1>2

LEMMA AllowRule == ASSUME FilterInv, AllowInv, AddDeviceRule PROVE AllowInv'
<1>1. /\ pc = "rule" /\ rules \in Seq(Dev) /\ Version1 /\ programs = {}
      /\ UNCHANGED <<programs, version, host, asked, before, disturbed>>
      /\ \/ rules = <<>> /\ pc' = "call" /\ UNCHANGED <<allowed, container>>
         \/ /\ rules # <<>> /\ allowed' = allowed \cup {Head(rules)} /\ rules' = Tail(rules)
            /\ UNCHANGED <<pc, container>>
         \/ HookFails
  BY DEF AddDeviceRule, At, Goto, Fault, FilterInv, Calling, AllowInv, Versions
<1>2. CASE HookFails
  BY <1>1, <1>2, AllowFails
<1>3. CASE rules = <<>> /\ pc' = "call" /\ UNCHANGED <<allowed, container>>
  <2>1. Granted' = Granted
    BY <1>1, <1>3, RangeOf DEF Granted, Pending
  <2> QED
    BY <1>1, <1>3, <2>1 DEF AllowInv, Versions, Version1, Exchange, Collected, Allowed
<1>4. CASE /\ rules # <<>> /\ allowed' = allowed \cup {Head(rules)} /\ rules' = Tail(rules)
           /\ UNCHANGED <<pc, container>>
  <2>1. Range(rules) = {Head(rules)} \cup Range(Tail(rules))
    <3>1. ASSUME NEW i \in DOMAIN rules, i # 1 PROVE rules[i] \in Range(Tail(rules))
      <4>1. i - 1 \in DOMAIN Tail(rules) /\ Tail(rules)[i - 1] = rules[i]
        BY <1>1, <1>4, <3>1
      <4> QED
        BY <4>1 DEF Range
    <3>2. Head(rules) = rules[1] /\ 1 \in DOMAIN rules
      BY <1>1, <1>4
    <3> QED
      BY <1>1, <1>4, <3>1, <3>2, RangeOf DEF Range
  <2>2. Granted' \subseteq Granted \cup {Head(rules)}
    BY <1>1, <1>4, <2>1 DEF Granted, Pending
  <2> QED
    BY <1>1, <1>4, <2>2 DEF AllowInv, Versions, Version1, Exchange, Collected, Allowed
<1> QED
  BY <1>1, <1>2, <1>3, <1>4

LEMMA AllowQuery == ASSUME FilterInv, AllowInv, Open \/ Query \/ Fetch PROVE AllowInv'
<1>1. /\ pc \in {"open", "query", "fetch"} /\ container = "created"
      /\ UNCHANGED <<programs, allowed, version, host, asked, before, disturbed, rules>>
      /\ \/ pc = "open" /\ pc' = "query" /\ old' = {} /\ UNCHANGED container
         \/ pc = "query" /\ pc' = "query" /\ UNCHANGED <<old, container>>
         \/ /\ pc = "query" /\ pc' = "fetch" /\ UNCHANGED <<container, old>>
            /\ ids' = programs
         \/ pc = "fetch" /\ ids = {} /\ pc' = "generate" /\ UNCHANGED <<old, container>>
         \/ /\ pc = "fetch" /\ pc' = "fetch" /\ First(ids) \in programs
            /\ ids' = ids \ {First(ids)}
            /\ old' = (IF First(ids).readable THEN old \cup {First(ids)} ELSE old)
            /\ UNCHANGED container
         \/ HookFails
  <2>1. CASE Open
    BY <2>1 DEF Open, At, Goto, Fault, kernel, FilterInv, Ends
  <2>2. CASE Query
    BY <2>2 DEF Query, At, Goto, Fault, kernel, FilterInv, Ends
  <2>3. CASE Fetch
    BY <2>3 DEF Fetch, At, Goto, kernel, FilterInv, Ends
  <2> QED
    BY <2>1, <2>2, <2>3
<1>2. CASE HookFails
  BY <1>1, <1>2, AllowFails
<1>3. CASE pc' \in {"query", "fetch", "generate"} /\ UNCHANGED container
  <2>1. Versions'
    BY <1>1, <1>3 DEF AllowInv, Versions, Version1, Exchange
  <2>2. Allowed => Allowed'
    BY <1>1, <1>3 DEF Allowed, Version1, Granted, Pending, Allows
  <2>3. Collected => Collected'
    BY <1>1, <1>3 DEF Collected, HookFails, Goto
  <2> QED
    BY <1>1, <1>3, <2>1, <2>2, <2>3 DEF AllowInv
<1> QED
  BY <1>1, <1>2, <1>3

LEMMA AllowGenerate == ASSUME FilterInv, AllowInv, Generate PROVE AllowInv'
<1>1. /\ pc = "generate" /\ UNCHANGED <<programs, allowed, version, host, rules, old, asked, before, disturbed>>
      /\ \/ /\ \A q \in new' : \E p \in old : q.base = p.base /\ q.added = p.added \cup Range(rules)
            /\ pc' = "detach" /\ UNCHANGED container
         \/ HookFails
  <2> DEFINE Next1(p) == [id    |-> created + Cardinality({q \in old : q.id <= p.id}),
                          own   |-> FALSE, readable |-> TRUE,
                          base  |-> p.base, added |-> p.added \cup Range(rules)]
  <2>1. /\ pc = "generate"
        /\ UNCHANGED <<programs, allowed, version, host, rules, old, asked, before, disturbed>>
        /\ \/ new' = {Next1(p) : p \in old} /\ pc' = "detach" /\ UNCHANGED container
           \/ HookFails
    BY DEF Generate, Prepend, At, Goto, Fault
  <2>2. \A p \in old : Next1(p).base = p.base /\ Next1(p).added = p.added \cup Range(rules)
    OBVIOUS
  <2> HIDE DEF Next1
  <2> QED
    BY <2>1, <2>2
<1>2. CASE HookFails
  BY <1>1, <1>2, AllowFails
<1>3. CASE /\ \A q \in new' : \E p \in old : q.base = p.base /\ q.added = p.added \cup Range(rules)
           /\ pc' = "detach" /\ UNCHANGED container
  <2>1. Versions'
    BY <1>1, <1>3 DEF AllowInv, Versions, Version1, Exchange
  <2>2. ASSUME Collected, Allowed PROVE Collected' /\ Allowed'
    <3>1. \A p \in old : asked \cup before \subseteq Allows(p) \cup Range(rules)
      BY <1>1, <2>2 DEF Collected, Allowed, Granted, Pending
    <3>2. \A q \in new' : asked \cup before \subseteq Allows(q)
      BY <1>3, <3>1 DEF Allows
    <3>3. ~Version1
      BY <1>1 DEF AllowInv, Versions, Exchange
    <3> QED
      BY <1>1, <1>3, <2>2, <3>2, <3>3 DEF Collected, Allowed, Version1, Allows
  <2> QED
    BY <1>1, <1>3, <2>1, <2>2 DEF AllowInv
<1> QED
  BY <1>1, <1>2, <1>3

LEMMA AllowDetach == ASSUME FilterInv, AllowInv, Detach PROVE AllowInv'
<1>1. /\ pc = "detach" /\ UNCHANGED <<allowed, version, host, rules, new, asked, before, disturbed>>
      /\ \/ old = {} /\ pc' = "attach" /\ UNCHANGED <<programs, old, container>>
         \/ /\ programs' = programs \ {First(old)} /\ old' = old \ {First(old)}
            /\ UNCHANGED <<pc, container>>
         \/ HookFails /\ UNCHANGED programs
  BY DEF Detach, At, Goto, Fault
<1>2. CASE HookFails /\ UNCHANGED programs
  BY <1>1, <1>2, AllowFails
<1>3. CASE ~(HookFails /\ UNCHANGED programs)
  <2>1. ~Version1 /\ ~Version1'
    BY <1>1 DEF AllowInv, Versions, Exchange, Version1
  <2>2. Versions'
    BY <1>1, <1>3, <2>1 DEF AllowInv, Versions, Exchange
  <2>3. Collected /\ Allowed => Collected' /\ Allowed'
    BY <1>1, <1>3, <2>1 DEF Collected, Allowed, Allows
  <2> QED
    BY <1>1, <1>3, <2>2, <2>3 DEF AllowInv
<1> QED
  BY <1>2, <1>3

LEMMA AllowAttach == ASSUME FilterInv, AllowInv, Attach PROVE AllowInv'
<1>1. /\ pc = "attach" /\ UNCHANGED <<allowed, version, host, rules, old, asked, before, disturbed>>
      /\ \/ pc' = "call" /\ UNCHANGED <<programs, new, container>>
         \/ /\ new # {} /\ programs' = programs \cup {First(new)} /\ new' = new \ {First(new)}
            /\ UNCHANGED <<pc, container>>
         \/ HookFails /\ UNCHANGED programs
  BY DEF Attach, AttachFails, At, Goto, Fault
<1>2. new # {} => First(new) \in new
  BY FirstIsOne DEF FilterInv, Numbered
<1>3. CASE HookFails /\ UNCHANGED programs
  BY <1>1, <1>3, AllowFails
<1>4. CASE ~(HookFails /\ UNCHANGED programs)
  <2>1. ~Version1 /\ ~Version1'
    BY <1>1 DEF AllowInv, Versions, Exchange, Version1
  <2>2. Versions'
    BY <1>1, <1>4, <2>1 DEF AllowInv, Versions, Exchange
  <2>3. Granted' = asked \cup before /\ Granted = asked \cup before
    BY <1>1, <1>4 DEF Granted, Pending
  <2>4. Collected /\ Allowed => Collected' /\ Allowed'
    BY <1>1, <1>2, <1>4, <2>1, <2>3 DEF Collected, Allowed, Allows
  <2> QED
    BY <1>1, <1>4, <2>2, <2>4 DEF AllowInv
<1> QED
  BY <1>3, <1>4

\* A reload before the first look leaves nothing to be lost.
LEMMA AllowReload == ASSUME AllowInv, Reload PROVE AllowInv'
<1>1. /\ UNCHANGED <<pc, version, host, container, asked, before>>
      /\ disturbed' = (disturbed \/ pc \notin {"version", "mount", "root"})
      /\ Version1 => programs' = programs
  BY DEF Reload, cli, Version1
<1>2. Versions'
  BY <1>1 DEF AllowInv, Versions, Version1, Exchange
<1>3. ASSUME ~disturbed' PROVE Collected' /\ Allowed'
  <2>1. pc \in {"version", "mount", "root"} /\ asked' = {} /\ before' = {}
    BY <1>1, <1>3 DEF AllowInv, Versions
  <2> QED
    BY <1>1, <2>1 DEF Collected, Allowed, Granted
<1> QED
  BY <1>2, <1>3 DEF AllowInv

LEMMA AllowStep == FilterInv /\ AllowInv /\ [Next]_vars => AllowInv'
<1> SUFFICES ASSUME FilterInv, AllowInv, [Next]_vars PROVE AllowInv'
  OBVIOUS
<1>1. CASE Kill
  BY <1>1, AllowFails DEF Kill, kernel
<1>2. CASE UNCHANGED vars
  BY <1>2 DEF vars, kernel, cli, query, env, AllowInv, Versions, Version1, Exchange, Collected,
              Allowed, Granted, Pending, Allows
<1> QED
  BY <1>1, <1>2, AllowPath, AllowCall, AllowRule, AllowQuery, AllowGenerate, AllowDetach,
     AllowAttach, AllowReload
  DEF Next, CliStep

\* A container that starts may use every device of all calls and every device it
\* could use before them, in whichever version of cgroups controls devices and
\* however many programs there were, if the cli could read them and the agent
\* kept away meanwhile (AddDeviceRules).
THEOREM DevicesAreAllowed == Spec => []DevicesAllowed
<1>1. FilterInv /\ AllowInv => DevicesAllowed
  <2> SUFFICES ASSUME FilterInv, AllowInv, container = "started", ~disturbed,
                      \A p \in programs : p.readable, NEW d \in asked \cup before
               PROVE  d \in Access
    BY DEF DevicesAllowed
  <2>1. pc = "done" /\ d \in Dev /\ Granted = asked \cup before
    BY DEF FilterInv, Ends, AllowInv, Versions, Granted, Pending
  <2>2. /\ Version1 => d \in allowed
        /\ \A p \in programs : d \in Allows(p)
    BY <2>1 DEF AllowInv, Allowed
  <2> QED
    BY <2>1, <2>2 DEF Access, Version1, Allows
<1>2. FilterInv /\ AllowInv /\ [Next]_vars => AllowInv'
  BY AllowStep
<1> QED
  BY <1>1, <1>2, FilterInit, FilterStep, AllowInit, PTL DEF Spec

----------------------------------------------------------------------------
(* The generated program.  In front of a program stand sections of five    *)
(* instructions, those of init and those of each rule.                     *)

LEMMA LeastNumber ==
  ASSUME NEW S \in SUBSET Nat, S # {}
  PROVE  \E x \in S : \A y \in S : x <= y
<1>1. PICK R : IsWellFoundedOn(R, Nat) /\ \A x, y \in Nat : <<y, x>> \in R <=> y < x
  BY LessThan
<1>2. PICK x \in S : \A y \in S : <<y, x>> \notin R
  BY <1>1, WFMin
<1>3. ASSUME NEW y \in S PROVE x <= y
  <2>1. ~(y < x)
    BY <1>1, <1>2, Zenon
  <2> QED
    BY <2>1
<1> QED
  BY <1>3

\* Induction for a set of numbers.
LEMMA EveryNumber ==
  ASSUME NEW S, 0 \in S, \A n \in Nat : n \in S => n + 1 \in S
  PROVE  \A n \in Nat : n \in S
<1> SUFFICES ASSUME NEW m \in Nat, m \notin S PROVE FALSE
  OBVIOUS
<1> DEFINE out == {n \in Nat : n \notin S}
<1>1. out \in SUBSET Nat /\ out # {}
  OBVIOUS
<1> HIDE DEF out
<1>2. PICK x \in out : \A y \in out : x <= y
  BY <1>1, LeastNumber
<1>3. x \in Nat /\ x \notin S
  BY DEF out
<1>4. x - 1 \in Nat /\ ~(x <= x - 1)
  BY <1>3
<1>5. x - 1 \in S
  BY <1>2, <1>4 DEF out
<1>6. x - 1 + 1 = x
  BY <1>3
<1> QED
  BY <1>3, <1>4, <1>5, <1>6

(***************************************************************************)
(* The execution of a program as a function, and what it has written.      *)
(***************************************************************************)
Trace(insts, c) ==
  CHOOSE s : s = [n \in 0 .. Len(insts) |-> IF n = 0 THEN Begin ELSE Advance(insts, c, s[n - 1])]

LEMMA TraceDefined ==
  ASSUME NEW insts, NEW c, Len(insts) \in Nat
  PROVE  /\ Trace(insts, c)[0] = Begin
         /\ \A n \in 1 .. Len(insts) : Trace(insts, c)[n] = Advance(insts, c, Trace(insts, c)[n - 1])
         /\ Decides(insts, c) <=> Trace(insts, c)[Len(insts)].reg[0] = 1
<1> DEFINE Upto(s, m) == s = [n \in 0 .. m |-> IF n = 0 THEN Begin ELSE Advance(insts, c, s[n - 1])]
           S == {m \in Nat : \E s : Upto(s, m)}
<1>1. 0 \in S
  <2> DEFINE s == [n \in 0 .. 0 |-> Begin]
  <2>1. Upto(s, 0)
    OBVIOUS
  <2> QED
    BY <2>1
<1>2. ASSUME NEW m \in Nat, m \in S PROVE m + 1 \in S
  <2>1. PICK s : Upto(s, m)
    BY <1>2
  <2> DEFINE t == [n \in 0 .. m + 1 |-> IF n <= m THEN s[n] ELSE Advance(insts, c, s[m])]
  <2>2. ASSUME NEW n \in 0 .. m + 1
        PROVE  t[n] = IF n = 0 THEN Begin ELSE Advance(insts, c, t[n - 1])
    <3>1. CASE n = 0
      BY <2>1, <3>1
    <3>2. CASE n \in 1 .. m
      <4>1. t[n] = s[n] /\ t[n - 1] = s[n - 1] /\ n # 0
        BY <3>2
      <4>2. s[n] = Advance(insts, c, s[n - 1])
        BY <2>1, <3>2
      <4> QED
        BY <4>1, <4>2
    <3>3. CASE n = m + 1
      <4>1. t[n] = Advance(insts, c, s[m]) /\ t[n - 1] = s[m] /\ n # 0
        BY <3>3
      <4> QED
        BY <4>1
    <3> QED
      BY <3>1, <3>2, <3>3
  <2>3. t = [n \in 0 .. m + 1 |-> t[n]]
    OBVIOUS
  <2> HIDE DEF t
  <2>4. Upto(t, m + 1)
    BY <2>2, <2>3
  <2> QED
    BY <2>4
<1> HIDE DEF S
<1>3. Len(insts) \in S
  BY <1>1, <1>2, EveryNumber
<1>4. PICK s : Upto(s, Len(insts))
  BY <1>3 DEF S
<1>5. Upto(Trace(insts, c), Len(insts))
  BY <1>4 DEF Trace
<1>6. Decides(insts, c) <=> Trace(insts, c)[Len(insts)].reg[0] = 1
  BY DEF Decides, Trace
<1>7. \A n \in 0 .. Len(insts) : Trace(insts, c)[n] = IF n = 0 THEN Begin ELSE Advance(insts, c, Trace(insts, c)[n - 1])
  BY <1>5
<1> HIDE DEF Upto
<1> QED
  BY <1>6, <1>7

Sealed(insts) ==
  /\ insts[Len(insts)].op = "exit"
  /\ \A n \in DOMAIN insts : insts[n].op \in Jumps => insts[n].to.by \in 1 .. Len(insts) - n

\* Registers that every way to an instruction has written, and that are enough.
Annotated(insts, w) ==
  \A n \in 1 .. Len(insts) : w[n] \subseteq OnEveryWay(insts, n, w) /\ Reads(insts[n]) \subseteq w[n]

LEMMA BeforeIsLess ==
  ASSUME NEW insts, NEW n \in Nat, NEW j \in Before(insts, n)
  PROVE  j \in 1 .. n - 1
BY DEF Before

\* Only what was found of the instructions before counts.
LEMMA SameWays ==
  ASSUME NEW insts, NEW n \in Nat, NEW w, NEW v, \A j \in 1 .. n - 1 : w[j] = v[j]
  PROVE  OnEveryWay(insts, n, w) = OnEveryWay(insts, n, v)
<1>1. \A j \in Before(insts, n) : w[j] = v[j]
  BY BeforeIsLess
<1> QED
  BY <1>1 DEF OnEveryWay

LEMMA WrittenDefined ==
  ASSUME NEW insts, Len(insts) \in Nat
  PROVE  \A n \in 1 .. Len(insts) : Written(insts)[n] = OnEveryWay(insts, n, Written(insts))
<1> DEFINE Regs == SUBSET (0 .. 5)
           Upto(f, m) == f = [n \in 0 .. m |-> IF n = 0 THEN <<>> ELSE Extend(insts, n, f[n - 1])]
           S == {m \in Nat : \E f : Upto(f, m)}
           g == CHOOSE f : Upto(f, Len(insts))
           Good(m) == /\ g[m] \in Seq(Regs) /\ Len(g[m]) = m
                      /\ \A i \in 1 .. m : g[m][i] = OnEveryWay(insts, i, g[m])
           G == {m \in Nat : m <= Len(insts) => Good(m)}
<1>1. 0 \in S
  <2> DEFINE s == [n \in 0 .. 0 |-> <<>>]
  <2>1. Upto(s, 0)
    OBVIOUS
  <2> QED
    BY <2>1
<1>2. ASSUME NEW m \in Nat, m \in S PROVE m + 1 \in S
  <2>1. PICK s : Upto(s, m)
    BY <1>2
  <2> DEFINE t == [n \in 0 .. m + 1 |-> IF n <= m THEN s[n] ELSE Extend(insts, n, s[m])]
  <2>2. ASSUME NEW n \in 0 .. m + 1
        PROVE  t[n] = IF n = 0 THEN <<>> ELSE Extend(insts, n, t[n - 1])
    <3>1. CASE n = 0
      BY <2>1, <3>1
    <3>2. CASE n \in 1 .. m
      <4>1. t[n] = s[n] /\ t[n - 1] = s[n - 1] /\ n # 0
        BY <3>2
      <4>2. s[n] = Extend(insts, n, s[n - 1])
        BY <2>1, <3>2
      <4> QED
        BY <4>1, <4>2
    <3>3. CASE n = m + 1
      <4>1. t[n] = Extend(insts, n, s[m]) /\ t[n - 1] = s[m] /\ n # 0
        BY <3>3
      <4> QED
        BY <4>1
    <3> QED
      BY <3>1, <3>2, <3>3
  <2>3. t = [n \in 0 .. m + 1 |-> t[n]]
    OBVIOUS
  <2> HIDE DEF t
  <2>4. Upto(t, m + 1)
    BY <2>2, <2>3
  <2> QED
    BY <2>4
<1>3. Len(insts) \in S
  <2> HIDE DEF S
  <2> QED
    BY <1>1, <1>2, EveryNumber
<1>4. PICK s : Upto(s, Len(insts))
  BY <1>3
<1>5. Upto(g, Len(insts))
  <2> HIDE DEF Upto
  <2> QED
    BY <1>4
<1>6. Written(insts) = g[Len(insts)]
  BY DEF Written
<1>7. g[0] = <<>> /\ \A n \in 1 .. Len(insts) : g[n] = Extend(insts, n, g[n - 1])
  <2>1. \A n \in 0 .. Len(insts) : g[n] = IF n = 0 THEN <<>> ELSE Extend(insts, n, g[n - 1])
    BY <1>5
  <2> HIDE DEF g
  <2> QED
    BY <2>1
<1> HIDE DEF g, Upto, S
<1>8. 0 \in G
  <2>1. g[0] \in Seq(Regs) /\ Len(g[0]) = 0
    BY <1>7
  <2> QED
    BY <2>1
<1>9. ASSUME NEW m \in Nat, m \in G PROVE m + 1 \in G
  <2> SUFFICES ASSUME m + 1 <= Len(insts) PROVE Good(m + 1)
    OBVIOUS
  <2>1. Good(m) /\ m + 1 \in 1 .. Len(insts) /\ m + 1 - 1 = m
    BY <1>9
  <2> DEFINE x == OnEveryWay(insts, m + 1, g[m])
  <2>2. g[m + 1] = Append(g[m], x)
    BY <2>1, <1>7 DEF Extend
  <2>3. x \in Regs
    BY DEF OnEveryWay
  <2> HIDE DEF x
  <2>4. /\ g[m + 1] \in Seq(Regs) /\ Len(g[m + 1]) = m + 1
        /\ g[m + 1][m + 1] = x /\ \A i \in 1 .. m : g[m + 1][i] = g[m][i]
    <3> HIDE DEF Regs
    <3> QED
      BY <2>1, <2>2, <2>3
  <2>5. ASSUME NEW i \in 1 .. m + 1 PROVE OnEveryWay(insts, i, g[m + 1]) = OnEveryWay(insts, i, g[m])
    <3>1. i \in Nat /\ \A j \in 1 .. i - 1 : g[m + 1][j] = g[m][j]
      BY <2>4
    <3> QED
      BY <3>1, SameWays
  <2>6. ASSUME NEW i \in 1 .. m + 1 PROVE g[m + 1][i] = OnEveryWay(insts, i, g[m + 1])
    <3>1. CASE i = m + 1
      BY <3>1, <2>4, <2>5 DEF x
    <3>2. CASE i \in 1 .. m
      BY <3>2, <2>1, <2>4, <2>5
    <3> QED
      BY <3>1, <3>2
  <2> HIDE DEF Regs
  <2> QED
    BY <2>4, <2>6
<1>10. Len(insts) \in G
  <2> HIDE DEF G
  <2> QED
    BY <1>8, <1>9, EveryNumber
<1> QED
  BY <1>6, <1>10

LEMMA VerifiedAnnotates ==
  ASSUME NEW insts, Len(insts) \in Nat, DOMAIN insts = 1 .. Len(insts), Verified(insts)
  PROVE  Sealed(insts) /\ Annotated(insts, Written(insts))
<1>1. \A n \in 1 .. Len(insts) : Written(insts)[n] = OnEveryWay(insts, n, Written(insts))
  BY WrittenDefined
<1>2. \A n \in 1 .. Len(insts) : Reads(insts[n]) \subseteq Written(insts)[n]
  BY DEF Verified
<1> QED
  BY <1>1, <1>2 DEF Verified, Sealed, Annotated

LEMMA AnnotatedVerifies ==
  ASSUME NEW insts, Len(insts) \in Nat, DOMAIN insts = 1 .. Len(insts), Sealed(insts),
         NEW w, Annotated(insts, w)
  PROVE  Verified(insts)
<1> DEFINE W == Written(insts)
           bad == {n \in 1 .. Len(insts) : ~(w[n] \subseteq W[n])}
<1>1. \A n \in 1 .. Len(insts) : W[n] = OnEveryWay(insts, n, W)
  BY WrittenDefined
<1>2. bad = {}
  <2> SUFFICES ASSUME bad # {} PROVE FALSE
    OBVIOUS
  <2>1. PICK n \in bad : \A j \in bad : n <= j
    <3>1. bad \in SUBSET Nat
      OBVIOUS
    <3> HIDE DEF bad
    <3> QED
      BY <3>1, LeastNumber
  <2>2. n \in 1 .. Len(insts) /\ w[n] \subseteq OnEveryWay(insts, n, w)
    BY DEF Annotated
  <2>3. ASSUME NEW j \in Before(insts, n) PROVE w[j] \subseteq W[j]
    <3>1. j \in 1 .. n - 1
      BY <2>2, BeforeIsLess
    <3>2. j \in 1 .. Len(insts) /\ ~(n <= j)
      BY <3>1, <2>2
    <3> QED
      BY <3>2, <2>1
  <2>4. OnEveryWay(insts, n, w) \subseteq OnEveryWay(insts, n, W)
    <3> HIDE DEF W
    <3> QED
      BY <2>3 DEF OnEveryWay
  <2> QED
    BY <2>2, <2>4, <1>1
<1>3. \A n \in 1 .. Len(insts) : Reads(insts[n]) \subseteq W[n]
  BY <1>2 DEF Annotated
<1> QED
  BY <1>3 DEF Verified, Sealed

(***************************************************************************)
(* The program for the rules d, while it is built and when it is loaded.   *)
(***************************************************************************)
RuleInst(dev, j, to) == CASE j = 1 -> JNE(2, DevChar, to)
                          [] j = 2 -> JNE(4, dev.major, to)
                          [] j = 3 -> JNE(5, dev.minor, to)
                          [] j = 4 -> Mov(0, 1)
                          [] j = 5 -> Return

Labelled(i, label) == [i EXCEPT !.sym = label]

Built(d) ==
  [i \in 1 .. 5 * Len(d) + 5 |->
     LET s == (i - 1) \div 5
         j == ((i - 1) % 5) + 1
     IN  IF s = 0 THEN InitProgram[j]
         ELSE IF j = 1 THEN Labelled(RuleInst(d[s], j, Block(s)), Block(s - 1))
         ELSE RuleInst(d[s], j, Block(s))]

ProgramOf(d) == [insts |-> Built(d), hasWildCard |-> FALSE, blockID |-> Len(d)]

Joined(d, insts) ==
  [i \in 1 .. 5 * Len(d) + 5 + Len(insts) |->
     LET s == (i - 1) \div 5
         j == ((i - 1) % 5) + 1
     IN  IF i > 5 * Len(d) + 5 THEN insts[i - (5 * Len(d) + 5)]
         ELSE IF s = 0 THEN InitProgram[j]
         ELSE RuleInst(d[s], j, Offset(6 - j))]

LEMMA Section ==
  ASSUME NEW s \in Nat, NEW j \in 1 .. 5
  PROVE  (5 * s + j - 1) \div 5 = s /\ ((5 * s + j - 1) % 5) + 1 = j
OBVIOUS

LEMMA Sections ==
  ASSUME NEW k \in Nat, NEW i \in 1 .. 5 * k + 5
  PROVE  \E s \in 0 .. k, j \in 1 .. 5 : i = 5 * s + j
<1> DEFINE s == (i - 1) \div 5
           j == ((i - 1) % 5) + 1
<1>1. s \in 0 .. k /\ j \in 1 .. 5 /\ i = 5 * s + j
  OBVIOUS
<1> HIDE DEF s, j
<1> QED
  BY <1>1

LEMMA RuleInstIs ==
  ASSUME NEW dev, NEW to
  PROVE  /\ RuleInst(dev, 1, to) = JNE(2, DevChar, to)
         /\ RuleInst(dev, 2, to) = JNE(4, dev.major, to)
         /\ RuleInst(dev, 3, to) = JNE(5, dev.minor, to)
         /\ RuleInst(dev, 4, to) = Mov(0, 1)
         /\ RuleInst(dev, 5, to) = Return
BY DEF RuleInst

LEMMA BuiltAt ==
  ASSUME NEW d \in Seq(DeviceRule), NEW s \in 0 .. Len(d), NEW j \in 1 .. 5
  PROVE  Built(d)[5 * s + j] = IF s = 0 THEN InitProgram[j]
                               ELSE IF j = 1 THEN Labelled(RuleInst(d[s], j, Block(s)), Block(s - 1))
                               ELSE RuleInst(d[s], j, Block(s))
<1>1. Len(d) \in Nat
  OBVIOUS
<1>2. 5 * s + j \in 1 .. 5 * Len(d) + 5
  BY <1>1
<1>3. (5 * s + j - 1) \div 5 = s /\ ((5 * s + j - 1) % 5) + 1 = j
  BY Section
<1> QED
  BY <1>2, <1>3 DEF Built

LEMMA JoinedAt ==
  ASSUME NEW d \in Seq(DeviceRule), NEW insts, Len(insts) \in Nat,
         NEW s \in 0 .. Len(d), NEW j \in 1 .. 5
  PROVE  Joined(d, insts)[5 * s + j] = IF s = 0 THEN InitProgram[j] ELSE RuleInst(d[s], j, Offset(6 - j))
<1>1. Len(d) \in Nat
  OBVIOUS
<1>2. 5 * s + j \in 1 .. 5 * Len(d) + 5 + Len(insts) /\ ~(5 * s + j > 5 * Len(d) + 5)
  BY <1>1
<1>3. (5 * s + j - 1) \div 5 = s /\ ((5 * s + j - 1) % 5) + 1 = j
  BY Section
<1> QED
  BY <1>2, <1>3 DEF Joined

LEMMA JoinedTail ==
  ASSUME NEW d \in Seq(DeviceRule), NEW insts, Len(insts) \in Nat, NEW i \in 1 .. Len(insts)
  PROVE  Joined(d, insts)[5 * Len(d) + 5 + i] = insts[i]
<1>1. Len(d) \in Nat
  OBVIOUS
<1> DEFINE n == 5 * Len(d) + 5 + i
<1>2. n \in 1 .. 5 * Len(d) + 5 + Len(insts) /\ n > 5 * Len(d) + 5 /\ n - (5 * Len(d) + 5) = i
  BY <1>1
<1> HIDE DEF n
<1>3. Joined(d, insts)[n] = insts[i]
  BY <1>2 DEF Joined
<1> QED
  BY <1>3 DEF n

LEMMA InitInstIs ==
  /\ InitProgram[1] = LoadHalf(2, 0) /\ InitProgram[2] = LoadWord(3, 0)
  /\ InitProgram[3] = RSh(3, 16) /\ InitProgram[4] = LoadWord(4, 4)
  /\ InitProgram[5] = LoadWord(5, 8) /\ DOMAIN InitProgram = 1 .. 5 /\ Len(InitProgram) = 5
BY DEF InitProgram

LEMMA InstructionsTyped ==
  /\ \A j \in 1 .. 5 : InitProgram[j] \in Instruction /\ InitProgram[j].sym = Nowhere /\ InitProgram[j].to.block = -1
  /\ \A dev \in DeviceRule, j \in 1 .. 5, to \in Target :
       /\ RuleInst(dev, j, to) \in Instruction /\ RuleInst(dev, j, to).sym = Nowhere
       /\ RuleInst(dev, j, to).to = IF j \in 1 .. 3 THEN to ELSE Nowhere
<1> USE DEF Instruction, Target, Nowhere, Ins, Jumps, Sets, LoadHalf, LoadWord, RSh, JNE, Mov, Return, DevChar
<1>1. ASSUME NEW j \in 1 .. 5
      PROVE  InitProgram[j] \in Instruction /\ InitProgram[j].sym = Nowhere /\ InitProgram[j].to.block = -1
  <2>1. CASE j = 1
    BY <2>1, InitInstIs
  <2>2. CASE j = 2
    BY <2>2, InitInstIs
  <2>3. CASE j = 3
    BY <2>3, InitInstIs
  <2>4. CASE j = 4
    BY <2>4, InitInstIs
  <2>5. CASE j = 5
    BY <2>5, InitInstIs
  <2> QED
    BY <2>1, <2>2, <2>3, <2>4, <2>5
<1>2. ASSUME NEW dev \in DeviceRule, NEW j \in 1 .. 5, NEW to \in Target
      PROVE  /\ RuleInst(dev, j, to) \in Instruction /\ RuleInst(dev, j, to).sym = Nowhere
             /\ RuleInst(dev, j, to).to = IF j \in 1 .. 3 THEN to ELSE Nowhere
  <2>0. dev.major \in Nat /\ dev.minor \in Nat
    BY DEF DeviceRule
  <2>1. CASE j = 1
    BY <2>1, RuleInstIs
  <2>2. CASE j = 2
    BY <2>0, <2>2, RuleInstIs
  <2>3. CASE j = 3
    BY <2>0, <2>3, RuleInstIs
  <2>4. CASE j = 4
    BY <2>4, RuleInstIs
  <2>5. CASE j = 5
    BY <2>5, RuleInstIs
  <2> QED
    BY <2>1, <2>2, <2>3, <2>4, <2>5
<1> QED
  BY <1>1, <1>2

LEMMA LabelledTyped ==
  ASSUME NEW i \in Instruction, NEW label \in Target
  PROVE  Labelled(i, label) \in Instruction
BY DEF Labelled, Instruction

LEMMA BuiltTyped ==
  ASSUME NEW d \in Seq(DeviceRule)
  PROVE  Built(d) \in Seq(Instruction) /\ Len(Built(d)) = 5 * Len(d) + 5
<1>1. Len(d) \in Nat /\ \A s \in 1 .. Len(d) : d[s] \in DeviceRule
  OBVIOUS
<1>2. ASSUME NEW i \in 1 .. 5 * Len(d) + 5 PROVE Built(d)[i] \in Instruction
  <2>1. PICK s \in 0 .. Len(d), j \in 1 .. 5 : i = 5 * s + j
    BY <1>1, Sections
  <2>2. CASE s = 0
    BY <2>1, <2>2, BuiltAt, InstructionsTyped
  <2>3. CASE s # 0
    <3>1. d[s] \in DeviceRule /\ s \in Nat /\ s - 1 \in Nat
      BY <1>1, <2>3
    <3>2. Block(s) \in Target /\ Block(s - 1) \in Target
      BY <3>1 DEF Block, Target
    <3>3. RuleInst(d[s], j, Block(s)) \in Instruction
      BY <3>1, <3>2, InstructionsTyped
    <3>4. Labelled(RuleInst(d[s], j, Block(s)), Block(s - 1)) \in Instruction
      BY <3>2, <3>3, LabelledTyped
    <3> QED
      BY <2>1, <2>3, <3>3, <3>4, BuiltAt
  <2> QED
    BY <2>2, <2>3
<1>3. DOMAIN Built(d) = 1 .. 5 * Len(d) + 5 /\ 5 * Len(d) + 5 \in Nat
  BY <1>1 DEF Built
<1>4. Built(d) = [i \in 1 .. 5 * Len(d) + 5 |-> Built(d)[i]]
  BY DEF Built
<1> QED
  BY <1>2, <1>3, <1>4

LEMMA TuplesJoin ==
  ASSUME NEW S, NEW a \in S, NEW b \in S, NEW e \in S, NEW f \in S, NEW g \in S
  PROVE  /\ <<a>> \o <<>> \o <<b>> \o <<e>> = <<a, b, e>>
         /\ <<a, b, e>> \o <<f, g>> = <<a, b, e, f, g>>
<1>1. <<a>> \o <<>> = <<a>>
  <2>1. <<a>> \in Seq(S)
    OBVIOUS
  <2> QED
    BY <2>1, ConcatEmptySeq
<1>2. <<a>> \o <<b>> = <<a, b>>
  <2>1. <<a>> \in Seq(S) /\ <<b>> \in Seq(S) /\ <<a, b>> \in Seq(S) /\ Len(<<a>>) = 1 /\ Len(<<b>>) = 1
        /\ Len(<<a, b>>) = 2
    OBVIOUS
  <2> DEFINE s == <<a>> \o <<b>>
  <2>2. s \in Seq(S) /\ Len(s) = 2 /\ \A i \in 1 .. 2 : s[i] = IF i <= 1 THEN <<a>>[i] ELSE <<b>>[i - 1]
    BY <2>1, ConcatProperties
  <2> HIDE DEF s
  <2>3. \A i \in 1 .. 2 : s[i] = <<a, b>>[i]
    BY <2>2
  <2> QED
    BY <2>1, <2>2, <2>3, SeqEqual DEF s
<1>3. <<a, b>> \o <<e>> = <<a, b, e>>
  <2>1. <<a, b>> \in Seq(S) /\ <<e>> \in Seq(S) /\ <<a, b, e>> \in Seq(S) /\ Len(<<a, b>>) = 2 /\ Len(<<e>>) = 1
        /\ Len(<<a, b, e>>) = 3
    OBVIOUS
  <2> DEFINE s == <<a, b>> \o <<e>>
  <2>2. s \in Seq(S) /\ Len(s) = 3 /\ \A i \in 1 .. 3 : s[i] = IF i <= 2 THEN <<a, b>>[i] ELSE <<e>>[i - 2]
    BY <2>1, ConcatProperties
  <2> HIDE DEF s
  <2>3. \A i \in 1 .. 3 : s[i] = <<a, b, e>>[i]
    BY <2>2
  <2> QED
    BY <2>1, <2>2, <2>3, SeqEqual DEF s
<1>4. <<a, b, e>> \o <<f, g>> = <<a, b, e, f, g>>
  <2>1. <<a, b, e>> \in Seq(S) /\ <<f, g>> \in Seq(S) /\ <<a, b, e, f, g>> \in Seq(S)
        /\ Len(<<a, b, e>>) = 3 /\ Len(<<f, g>>) = 2 /\ Len(<<a, b, e, f, g>>) = 5
    OBVIOUS
  <2> DEFINE s == <<a, b, e>> \o <<f, g>>
  <2>2. s \in Seq(S) /\ Len(s) = 5 /\ \A i \in 1 .. 5 : s[i] = IF i <= 3 THEN <<a, b, e>>[i] ELSE <<f, g>>[i - 3]
    BY <2>1, ConcatProperties
  <2> HIDE DEF s
  <2>3. \A i \in 1 .. 5 : s[i] = <<a, b, e, f, g>>[i]
    BY <2>2
  <2> QED
    BY <2>1, <2>2, <2>3, SeqEqual DEF s
<1> QED
  BY <1>1, <1>2, <1>3, <1>4

\* What a rule of the cli appends.
LEMMA RuleBlock ==
  ASSUME NEW dev \in DeviceRule, NEW to \in Target
  PROVE  Tests(dev, to) \o AcceptBlock(dev.allow) =
           <<RuleInst(dev, 1, to), RuleInst(dev, 2, to), RuleInst(dev, 3, to),
             RuleInst(dev, 4, to), RuleInst(dev, 5, to)>>
         /\ Tests(dev, to) # <<>>
<1>1. /\ dev.allow = TRUE /\ dev.type = "c" /\ dev.access = {"r", "w", "m"}
      /\ dev.major >= 0 /\ dev.minor >= 0 /\ dev.major \in Nat /\ dev.minor \in Nat
  <2>1. dev.major \in Nat /\ dev.minor \in Nat
    BY DEF DeviceRule
  <2>2. dev.allow = TRUE /\ dev.type = "c" /\ dev.access = {"r", "w", "m"}
    BY Zenon DEF DeviceRule
  <2> QED
    BY <2>1, <2>2
<1>2. BpfAccess(dev.access) = AccAll
  BY <1>1 DEF BpfAccess, AccAll, AccRead, AccWrite, AccMknod
<1> DEFINE a == JNE(2, DevChar, to)
           b == JNE(4, dev.major, to)
           e == JNE(5, dev.minor, to)
           f == Mov(0, 1)
           g == Return
<1>3. a \in Instruction /\ b \in Instruction /\ e \in Instruction /\ f \in Instruction /\ g \in Instruction
  BY RuleInstIs, InstructionsTyped
<1>4. Tests(dev, to) = <<a>> \o <<>> \o <<b>> \o <<e>>
  BY <1>1, <1>2 DEF Tests
<1>5. AcceptBlock(dev.allow) = <<f, g>>
  BY <1>1 DEF AcceptBlock
<1>6. /\ RuleInst(dev, 1, to) = a /\ RuleInst(dev, 2, to) = b /\ RuleInst(dev, 3, to) = e
      /\ RuleInst(dev, 4, to) = f /\ RuleInst(dev, 5, to) = g
  BY RuleInstIs
<1> HIDE DEF a, b, e, f, g
<1>7. <<a>> \o <<>> \o <<b>> \o <<e>> = <<a, b, e>> /\ <<a, b, e>> \o <<f, g>> = <<a, b, e, f, g>>
  BY <1>3, TuplesJoin
<1>9. <<a, b, e>> # <<>>
  OBVIOUS
<1> QED
  BY <1>4, <1>5, <1>6, <1>7, <1>9

LEMMA AppendBuilt ==
  ASSUME NEW d \in Seq(DeviceRule), NEW dev \in DeviceRule
  PROVE  AppendDevice(ProgramOf(d), dev) = ProgramOf(Append(d, dev))
<1> DEFINE k == Len(d)
           e == Append(d, dev)
           to == Block(k + 1)
           five == <<RuleInst(dev, 1, to), RuleInst(dev, 2, to), RuleInst(dev, 3, to),
                     RuleInst(dev, 4, to), RuleInst(dev, 5, to)>>
           block == WithSymbol(five, Block(k))
<1>1. k \in Nat /\ e \in Seq(DeviceRule) /\ Len(e) = k + 1 /\ e[k + 1] = dev
      /\ \A s \in 1 .. k : e[s] = d[s]
  OBVIOUS
<1>2. to \in Target /\ Block(k) \in Target
  BY <1>1 DEF Block, Target
<1>3. \A j \in 1 .. 5 : RuleInst(dev, j, to) \in Instruction
  BY <1>2, InstructionsTyped
<1>4. AppendDevice(ProgramOf(d), dev) =
        [insts |-> Built(d) \o block, hasWildCard |-> FALSE, blockID |-> k + 1]
  BY <1>2, RuleBlock DEF AppendDevice, ProgramOf
<1>5. block \in Seq(Instruction) /\ Len(block) = 5
      /\ \A j \in 1 .. 5 : block[j] = IF j = 1 THEN Labelled(RuleInst(dev, j, to), Block(k)) ELSE RuleInst(dev, j, to)
  <2>1. five \in Seq(Instruction) /\ Len(five) = 5 /\ \A j \in 1 .. 5 : five[j] = RuleInst(dev, j, to)
    <3>1. ASSUME NEW j \in 1 .. 5 PROVE five[j] = RuleInst(dev, j, to)
      OBVIOUS
    <3> QED
      BY <1>3, <3>1
  <2> HIDE DEF five
  <2>2. block = [five EXCEPT ![1] = Labelled(five[1], Block(k))]
    BY DEF WithSymbol, Labelled
  <2>3. five[1] = RuleInst(dev, 1, to) /\ five[1] \in Instruction
    BY <2>1, <1>3
  <2>4. Labelled(five[1], Block(k)) \in Instruction
    BY <2>3, <1>2, LabelledTyped
  <2> HIDE DEF block
  <2> DEFINE x == Labelled(five[1], Block(k))
  <2>5. block = [five EXCEPT ![1] = x] /\ x \in Instruction
    BY <2>2, <2>4
  <2>6. x = Labelled(RuleInst(dev, 1, to), Block(k))
    BY <2>3
  <2> HIDE DEF x
  <2>7. block \in Seq(Instruction) /\ Len(block) = 5 /\ block[1] = x
        /\ \A j \in 2 .. 5 : block[j] = five[j]
    <3>1. 1 \in 1 .. Len(five)
      BY <2>1
    <3>2. /\ block \in Seq(Instruction) /\ Len(block) = Len(five)
          /\ \A j \in 1 .. Len(five) : block[j] = IF j = 1 THEN x ELSE five[j]
      BY <2>1, <2>5, <3>1, ExceptSeq
    <3> QED
      BY <2>1, <3>1, <3>2
  <2>8. ASSUME NEW j \in 1 .. 5
        PROVE  block[j] = IF j = 1 THEN Labelled(RuleInst(dev, j, to), Block(k)) ELSE RuleInst(dev, j, to)
    BY <2>1, <2>6, <2>7
  <2> QED
    BY <2>7, <2>8
<1> HIDE DEF block, five
<1>6. Built(d) \in Seq(Instruction) /\ Len(Built(d)) = 5 * k + 5
      /\ Built(e) \in Seq(Instruction) /\ Len(Built(e)) = 5 * (k + 1) + 5
  BY <1>1, BuiltTyped
<1> DEFINE both == Built(d) \o block
<1>7. /\ both \in Seq(Instruction) /\ Len(both) = 5 * (k + 1) + 5
      /\ \A i \in 1 .. 5 * (k + 1) + 5 : both[i] = IF i <= 5 * k + 5 THEN Built(d)[i] ELSE block[i - (5 * k + 5)]
  <2> HIDE DEF k
  <2>1. Len(Built(d)) + Len(block) = 5 * (k + 1) + 5
    BY <1>1, <1>5, <1>6
  <2> QED
    <3>1. /\ Built(d) \o block \in Seq(Instruction)
          /\ Len(Built(d) \o block) = Len(Built(d)) + Len(block)
          /\ \A i \in 1 .. Len(Built(d)) + Len(block) : (Built(d) \o block)[i] =
               IF i <= Len(Built(d)) THEN Built(d)[i] ELSE block[i - Len(Built(d))]
      BY <1>5, <1>6, ConcatProperties
    <3> QED
      BY <1>6, <2>1, <3>1
<1> HIDE DEF both
<1>8. ASSUME NEW i \in 1 .. 5 * (k + 1) + 5 PROVE both[i] = Built(e)[i]
  <2>1. PICK s \in 0 .. k + 1, j \in 1 .. 5 : i = 5 * s + j
    <3>1. k + 1 \in Nat
      BY <1>1
    <3> QED
      BY <3>1, Sections
  <2>2. Built(e)[5 * s + j] = IF s = 0 THEN InitProgram[j]
                              ELSE IF j = 1 THEN Labelled(RuleInst(e[s], j, Block(s)), Block(s - 1))
                              ELSE RuleInst(e[s], j, Block(s))
    BY <1>1, BuiltAt
  <2>3. CASE s <= k
    <3>1. s \in 0 .. Len(d) /\ i <= 5 * k + 5 /\ (s = 0 \/ e[s] = d[s])
      BY <1>1, <2>1, <2>3
    <3>2. Built(d)[5 * s + j] = IF s = 0 THEN InitProgram[j]
                                ELSE IF j = 1 THEN Labelled(RuleInst(d[s], j, Block(s)), Block(s - 1))
                                ELSE RuleInst(d[s], j, Block(s))
      BY <3>1, BuiltAt
    <3>3. both[i] = Built(d)[i]
      BY <3>1, <1>7
    <3> QED
      BY <2>1, <2>2, <3>1, <3>2, <3>3
  <2>4. CASE s = k + 1
    <3>1. ~(i <= 5 * k + 5) /\ i - (5 * k + 5) = j /\ s # 0 /\ s - 1 = k
      BY <1>1, <2>1, <2>4
    <3>2. both[i] = block[j]
      BY <3>1, <1>7
    <3> QED
      BY <2>1, <2>2, <2>4, <3>1, <3>2, <1>1, <1>5
  <2> QED
    BY <2>1, <2>3, <2>4, <1>1
<1>9. both = Built(e)
  <2>1. Len(both) = Len(Built(e)) /\ \A i \in 1 .. Len(both) : both[i] = Built(e)[i]
    BY <1>6, <1>7, <1>8
  <2> QED
    BY <2>1, <1>6, <1>7, SeqEqual
<1> QED
  BY <1>1, <1>4, <1>9 DEF ProgramOf, both

\* What loading makes of an instruction.
Fixed(i, to) == [op |-> i.op, r |-> i.r, arg |-> i.arg, to |-> to, sym |-> Nowhere]

LEMMA FixedIns ==
  ASSUME NEW op, NEW r, NEW arg, NEW from, NEW to, NEW label
  PROVE  /\ Fixed(Ins(op, r, arg, from), to) = Ins(op, r, arg, to)
         /\ Fixed(Labelled(Ins(op, r, arg, from), label), to) = Ins(op, r, arg, to)
BY DEF Fixed, Labelled, Ins

LEMMA FixedRule ==
  ASSUME NEW dev \in DeviceRule, NEW j \in 1 .. 5, NEW from, NEW to, NEW label
  PROVE  /\ j \in 1 .. 3 => /\ Fixed(RuleInst(dev, j, from), to) = RuleInst(dev, j, to)
                            /\ Fixed(Labelled(RuleInst(dev, j, from), label), to) = RuleInst(dev, j, to)
         /\ j \in 4 .. 5 => Fixed(RuleInst(dev, j, from), Nowhere) = RuleInst(dev, j, to)
<1> USE DEF JNE, Mov, Return
<1>1. CASE j = 1
  BY <1>1, RuleInstIs, FixedIns
<1>2. CASE j = 2
  BY <1>2, RuleInstIs, FixedIns
<1>3. CASE j = 3
  BY <1>3, RuleInstIs, FixedIns
<1>4. CASE j = 4
  <2>1. Fixed(Mov(0, 1), Nowhere) = Mov(0, 1)
    BY FixedIns
  <2> HIDE DEF Mov
  <2> QED
    BY <2>1, <1>4, RuleInstIs
<1>5. CASE j = 5
  BY <1>5, RuleInstIs, FixedIns
<1> QED
  BY <1>1, <1>2, <1>3, <1>4, <1>5

LEMMA FixedLoaded ==
  ASSUME NEW i \in Instruction, i.sym = Nowhere, NEW label
  PROVE  Fixed(i, i.to) = i /\ Fixed(Labelled(i, label), i.to) = i
         /\ Labelled(i, label).to = i.to /\ Labelled(i, label).sym = label
BY DEF Fixed, Labelled, Instruction

LEMMA FixedExcept ==
  ASSUME NEW i \in Instruction, NEW to
  PROVE  [i EXCEPT !.sym = Nowhere, !.to = to] = Fixed(i, to)
<1> DEFINE s == [i EXCEPT !.sym = Nowhere]
           f == [s EXCEPT !.to = to]
<1>1. s = [op |-> i.op, r |-> i.r, arg |-> i.arg, to |-> i.to, sym |-> Nowhere]
  BY DEF Instruction
<1>2. f = [op |-> i.op, r |-> i.r, arg |-> i.arg, to |-> to, sym |-> Nowhere]
  <2> HIDE DEF s
  <2> QED
    BY <1>1
<1>3. [i EXCEPT !.sym = Nowhere, !.to = to] = f
  OBVIOUS
<1> QED
  BY <1>2, <1>3 DEF Fixed

\* A label is where it was put; at is of no interest for an instruction without.
LEMMA ResolveFixes ==
  ASSUME NEW insts \in Seq(Instruction), NEW i \in DOMAIN insts, NEW at,
         insts[i].to.block < 0 \/ \A j \in DOMAIN insts : insts[j].sym = insts[i].to <=> j = at,
         insts[i].to.block < 0 \/ at \in DOMAIN insts
  PROVE  Resolve(insts)[i] =
           Fixed(insts[i], IF insts[i].to.block < 0 THEN insts[i].to ELSE Offset(at - i))
<1> DEFINE found == CHOOSE j \in DOMAIN insts : insts[j].sym = insts[i].to
<1>1. Resolve(insts)[i] = Fixed(insts[i], IF insts[i].to.block < 0 THEN insts[i].to ELSE Offset(found - i))
  <2>1. insts[i] \in Instruction
    OBVIOUS
  <2>2. Resolve(insts)[i] = [insts[i] EXCEPT !.sym = Nowhere,
          !.to = IF insts[i].to.block < 0 THEN insts[i].to ELSE Offset(found - i)]
    BY DEF Resolve
  <2> DEFINE to == IF insts[i].to.block < 0 THEN insts[i].to ELSE Offset(found - i)
  <2> HIDE DEF to
  <2>3. [insts[i] EXCEPT !.sym = Nowhere, !.to = to] = Fixed(insts[i], to)
    BY <2>1, FixedExcept
  <2> QED
    BY <2>2, <2>3 DEF to
<1>2. ~(insts[i].to.block < 0) => found = at
  <2> SUFFICES ASSUME ~(insts[i].to.block < 0) PROVE found = at
    OBVIOUS
  <2>1. found \in DOMAIN insts /\ insts[found].sym = insts[i].to
    OBVIOUS
  <2> QED
    BY <2>1
<1> HIDE DEF found
<1> QED
  BY <1>1, <1>2

LEMMA BlocksDiffer ==
  /\ \A m, n \in Int : Block(m) = Block(n) <=> m = n
  /\ \A n \in Nat : Block(n) # Nowhere /\ Block(n).block = n /\ ~(Block(n).block < 0)
  /\ Nowhere.block = -1 /\ Nowhere \in Target
  /\ \A n \in Nat : Block(n) \in Target /\ Offset(n) \in Target /\ Offset(n).block = -1 /\ Offset(n).by = n
BY DEF Block, Nowhere, Offset, Target

\* The instructions that are loaded, with their labels.
LEMMA FinalizedAt ==
  ASSUME NEW d \in Seq(DeviceRule), NEW insts, Loaded(insts)
  PROVE  LET all == Finalize(ProgramOf(d), insts)
             m == 5 * Len(d) + 5
         IN  /\ all \in Seq(Instruction) /\ Len(all) = m + Len(insts)
             /\ \A i \in 1 .. m : all[i] = Built(d)[i]
             /\ all[m + 1] = Labelled(insts[1], Block(Len(d)))
             /\ \A i \in 2 .. Len(insts) : all[m + i] = insts[i]
<1> DEFINE all == Finalize(ProgramOf(d), insts)
           m == 5 * Len(d) + 5
           last == WithSymbol(insts, Block(Len(d)))
           x == Labelled(insts[1], Block(Len(d)))
<1>1. insts \in Seq(Instruction) /\ Len(insts) \in Nat /\ Len(insts) >= 1 /\ Len(d) \in Nat
  BY DEF Loaded
<1>2. 1 \in 1 .. Len(insts) /\ insts[1] \in Instruction
  BY <1>1
<1>3. x \in Instruction
  BY <1>1, <1>2, BlocksDiffer, LabelledTyped
<1>4. last = [insts EXCEPT ![1] = x]
  BY DEF WithSymbol, Labelled
<1> HIDE DEF x, last
<1>5. /\ last \in Seq(Instruction) /\ Len(last) = Len(insts)
      /\ \A j \in 1 .. Len(insts) : last[j] = IF j = 1 THEN x ELSE insts[j]
  BY <1>1, <1>2, <1>3, <1>4, ExceptSeq
<1>6. all = Built(d) \o last
  BY DEF Finalize, ProgramOf, last
<1>7. Built(d) \in Seq(Instruction) /\ Len(Built(d)) = m
  BY BuiltTyped
<1> HIDE DEF all
<1>8. /\ all \in Seq(Instruction) /\ Len(all) = m + Len(insts)
      /\ \A i \in 1 .. m + Len(insts) : all[i] = IF i <= m THEN Built(d)[i] ELSE last[i - m]
  <2> HIDE DEF m
  <2>1. /\ Built(d) \o last \in Seq(Instruction)
        /\ Len(Built(d) \o last) = Len(Built(d)) + Len(last)
        /\ \A i \in 1 .. Len(Built(d)) + Len(last) : (Built(d) \o last)[i] =
             IF i <= Len(Built(d)) THEN Built(d)[i] ELSE last[i - Len(Built(d))]
    <3>1. Built(d) \in Seq(Instruction) /\ last \in Seq(Instruction)
      BY <1>5, <1>7
    <3> QED
      BY <3>1, ConcatProperties
  <2> QED
    BY <1>5, <1>6, <1>7, <2>1
<1>9. m \in Nat
  BY <1>1
<1> HIDE DEF m
<1>10. all[m + 1] = x
  <2> DEFINE p == m + 1
  <2>1. p \in 1 .. m + Len(insts) /\ ~(p <= m) /\ p - m = 1
    BY <1>1, <1>9
  <2> HIDE DEF p
  <2>2. all[p] = last[1]
    BY <2>1, <1>8
  <2> QED
    BY <2>2, <1>2, <1>5 DEF p
<1>11. ASSUME NEW i \in 2 .. Len(insts) PROVE all[m + i] = insts[i]
  <2> DEFINE p == m + i
  <2>1. p \in 1 .. m + Len(insts) /\ ~(p <= m) /\ p - m = i /\ i \in 1 .. Len(insts) /\ i # 1
    BY <1>1, <1>9
  <2> HIDE DEF p
  <2>2. all[p] = last[i]
    BY <2>1, <1>8
  <2> QED
    BY <2>1, <2>2, <1>5 DEF p
<1>12. \A i \in 1 .. m : all[i] = Built(d)[i]
  BY <1>1, <1>8, <1>9
<1> QED
  BY <1>8, <1>10, <1>11, <1>12 DEF all, m, x

LEMMA ResolveJoins ==
  ASSUME NEW d \in Seq(DeviceRule), NEW insts, Loaded(insts)
  PROVE  Resolve(Finalize(ProgramOf(d), insts)) = Joined(d, insts)
<1> DEFINE k == Len(d)
           m == 5 * k + 5
           all == Finalize(ProgramOf(d), insts)
<1>1. insts \in Seq(Instruction) /\ Len(insts) \in Nat /\ Len(insts) >= 1 /\ k \in Nat /\ m \in Nat /\ m = 5 * k + 5
      /\ \A n \in 1 .. Len(insts) : insts[n] \in Instruction /\ insts[n].sym = Nowhere /\ insts[n].to.block = -1
  BY DEF Loaded
<1>2. /\ all \in Seq(Instruction) /\ Len(all) = m + Len(insts)
      /\ \A i \in 1 .. m : all[i] = Built(d)[i]
      /\ all[m + 1] = Labelled(insts[1], Block(k))
      /\ \A i \in 2 .. Len(insts) : all[m + i] = insts[i]
  BY FinalizedAt
<1>3. \A s \in 1 .. k : d[s] \in DeviceRule
  OBVIOUS
<1> HIDE DEF all, m
\* Where the label of block s is.
<1>4. ASSUME NEW s \in 1 .. k, NEW j \in 1 .. 5
      PROVE  /\ all[5 * s + j] = IF j = 1 THEN Labelled(RuleInst(d[s], j, Block(s)), Block(s - 1))
                                 ELSE RuleInst(d[s], j, Block(s))
             /\ all[5 * s + j].sym = IF j = 1 THEN Block(s - 1) ELSE Nowhere
             /\ all[5 * s + j].to  = IF j \in 1 .. 3 THEN Block(s) ELSE Nowhere
  <2>1. 5 * s + j \in 1 .. m /\ s \in 0 .. Len(d) /\ s # 0
    BY <1>1
  <2>2. all[5 * s + j] = IF j = 1 THEN Labelled(RuleInst(d[s], j, Block(s)), Block(s - 1))
                         ELSE RuleInst(d[s], j, Block(s))
    <3>1. all[5 * s + j] = Built(d)[5 * s + j]
      BY <2>1, <1>2
    <3> QED
      BY <2>1, <3>1, BuiltAt
  <2>3. Block(s) \in Target /\ s - 1 \in Nat
    BY BlocksDiffer
  <2>4. /\ RuleInst(d[s], j, Block(s)) \in Instruction /\ RuleInst(d[s], j, Block(s)).sym = Nowhere
        /\ RuleInst(d[s], j, Block(s)).to = IF j \in 1 .. 3 THEN Block(s) ELSE Nowhere
    BY <2>3, <1>3, InstructionsTyped
  <2>5. /\ Labelled(RuleInst(d[s], j, Block(s)), Block(s - 1)).to = RuleInst(d[s], j, Block(s)).to
        /\ Labelled(RuleInst(d[s], j, Block(s)), Block(s - 1)).sym = Block(s - 1)
    BY <2>4, FixedLoaded
  <2> QED
    BY <2>2, <2>4, <2>5
<1>5. ASSUME NEW j \in 1 .. 5
      PROVE  all[j] = InitProgram[j] /\ all[j].sym = Nowhere /\ all[j].to.block = -1
  <2>1. Built(d)[5 * 0 + j] = InitProgram[j]
    BY <1>1, BuiltAt
  <2>2. 5 * 0 + j = j /\ j \in 1 .. m
    BY <1>1
  <2> QED
    BY <2>1, <2>2, <1>2, InstructionsTyped
<1>6. all[m + 1].sym = Block(k) /\ all[m + 1].to = insts[1].to /\ all[m + 1].to.block = -1
  <2>1. 1 \in 1 .. Len(insts)
    BY <1>1
  <2> QED
    BY <2>1, <1>1, <1>2, FixedLoaded
<1>7. ASSUME NEW i \in DOMAIN all
      PROVE  \/ \E j \in 1 .. 5 : i = j
             \/ \E s \in 1 .. k, j \in 1 .. 5 : i = 5 * s + j
             \/ i = m + 1
             \/ \E j \in 2 .. Len(insts) : i = m + j
  <2>1. i \in 1 .. m + Len(insts)
    BY <1>2
  <2>2. CASE i \in 1 .. m
    <3>1. PICK s \in 0 .. k, j \in 1 .. 5 : i = 5 * s + j
      BY <1>1, <2>2, Sections
    <3> QED
      BY <3>1, <1>1
  <2>3. CASE i = m + 1
    BY <2>3
  <2>4. CASE i > m + 1
    <3>1. i - m \in 2 .. Len(insts) /\ i = m + (i - m)
      BY <1>1, <2>1, <2>4
    <3> QED
      BY <3>1
  <2>5. i \in 1 .. m \/ i = m + 1 \/ i > m + 1
    <3>1. i \in Int /\ i >= 1 /\ m \in Int
      BY <2>1, <1>1
    <3> QED
      BY <3>1
  <2> QED
    BY <2>2, <2>3, <2>4, <2>5
<1>8. ASSUME NEW s \in 1 .. k, NEW i \in DOMAIN all
      PROVE  all[i].sym = Block(s) <=> i = 5 * s + 6
  <2>0. s \in Nat /\ s + 1 - 1 = s
    OBVIOUS
  <2>1. CASE \E j \in 1 .. 5 : i = j
    BY <2>0, <2>1, <1>5, BlocksDiffer
  <2>2. ASSUME NEW t \in 1 .. k, NEW j \in 1 .. 5, i = 5 * t + j
        PROVE  all[i].sym = Block(s) <=> i = 5 * s + 6
    <3>1. all[i].sym = IF j = 1 THEN Block(t - 1) ELSE Nowhere
      BY <1>4, <2>2
    <3>2. CASE j = 1
      BY <3>1, <3>2, <2>0, <2>2, BlocksDiffer
    <3>3. CASE j # 1
      BY <3>1, <3>3, <2>0, <2>2, BlocksDiffer
    <3> QED
      BY <3>2, <3>3
  <2>3. CASE i = m + 1
    BY <2>0, <2>3, <1>1, <1>6, BlocksDiffer
  <2>4. ASSUME NEW j \in 2 .. Len(insts), i = m + j
        PROVE  all[i].sym = Block(s) <=> i = 5 * s + 6
    <3>1. all[i].sym = Nowhere
      <4>1. j \in 1 .. Len(insts) /\ all[i] = insts[j]
        BY <2>4, <1>1, <1>2
      <4> QED
        BY <4>1, <1>1
    <3> QED
      BY <3>1, <2>0, <2>4, <1>1, BlocksDiffer
  <2> QED
    BY <2>1, <2>2, <2>3, <2>4, <1>7
<1> DEFINE R == Resolve(all)
           N == Joined(d, insts)
<1>9. ASSUME NEW i \in DOMAIN all PROVE R[i] = N[i]
  <2>0. DOMAIN all = 1 .. m + Len(insts)
    BY <1>2
  <2>1. ASSUME NEW j \in 1 .. 5, i = j PROVE R[i] = N[i]
    <3>1. R[i] = Fixed(all[i], all[i].to)
      <4>1. all[i].to.block < 0 /\ all[i].to.block \in Int
        BY <2>1, <1>5
      <4> QED
        BY <4>1, <1>2, ResolveFixes
    <3>2. Fixed(all[i], all[i].to) = all[i]
      <4>1. all[i] \in Instruction
        BY <1>2
      <4> QED
        BY <4>1, <2>1, <1>5, FixedLoaded
    <3>3. N[5 * 0 + j] = InitProgram[j] /\ 5 * 0 + j = j
      <4>1. \A s \in 0 .. k : s = 0 => N[5 * s + j] = InitProgram[j]
        <5>1. Len(insts) \in Nat
          BY <1>1
        <5> QED
          BY <5>1, JoinedAt
      <4>2. 0 \in 0 .. k
        BY <1>1
      <4>3. N[5 * 0 + j] = InitProgram[j]
        <5> HIDE DEF N, k
        <5> QED
          BY <4>1, <4>2
      <4> QED
        BY <4>3
    <3> QED
      BY <3>1, <3>2, <3>3, <2>1, <1>5
  <2>2. ASSUME NEW s \in 1 .. k, NEW j \in 1 .. 5, i = 5 * s + j PROVE R[i] = N[i]
    <3>0. s # 0 /\ s \in 0 .. Len(d) /\ d[s] \in DeviceRule /\ s \in Nat
      BY <1>1, <1>3
    <3>1. N[i] = RuleInst(d[s], j, Offset(6 - j))
      BY <3>0, <2>2, <1>1, JoinedAt
    <3>2. CASE j \in 1 .. 3
      <4>1. all[i].to = Block(s)
        BY <2>2, <3>2, <1>4
      <4>2. 5 * s + 6 \in DOMAIN all /\ (5 * s + 6) - i = 6 - j
        <5>1. 5 * s + 6 >= 1 /\ 5 * s + 6 <= m + Len(insts) /\ 5 * s + 6 \in Int
          BY <1>1
        <5> QED
          BY <5>1, <2>0, <2>2
      <4>3. \A n \in DOMAIN all : all[n].sym = all[i].to <=> n = 5 * s + 6
        BY <4>1, <1>8
      <4>4. R[i] = Fixed(all[i], Offset(6 - j))
        <5>1. all[i].to.block \in Int /\ ~(all[i].to.block < 0)
          BY <4>1, <3>0, BlocksDiffer
        <5> QED
          <6> DEFINE at == 5 * s + 6
          <6>1. at \in DOMAIN all /\ at - i = 6 - j
            BY <4>2
          <6>3. \A n \in DOMAIN all : all[n].sym = all[i].to <=> n = at
            BY <4>3
          <6> HIDE DEF at
          <6>2. Resolve(all)[i] =
                  Fixed(all[i], IF all[i].to.block < 0 THEN all[i].to ELSE Offset(at - i))
            BY <6>1, <6>3, <1>2, ResolveFixes
          <6> QED
            BY <5>1, <6>1, <6>2
      <4>5. \/ all[i] = Labelled(RuleInst(d[s], j, Block(s)), Block(s - 1))
            \/ all[i] = RuleInst(d[s], j, Block(s))
        BY <2>2, <1>4
      <4>6. /\ Fixed(RuleInst(d[s], j, Block(s)), Offset(6 - j)) = RuleInst(d[s], j, Offset(6 - j))
            /\ Fixed(Labelled(RuleInst(d[s], j, Block(s)), Block(s - 1)), Offset(6 - j)) = RuleInst(d[s], j, Offset(6 - j))
        BY <3>0, <3>2, FixedRule
      <4> QED
        BY <4>4, <4>5, <4>6, <3>1
    <3>3. CASE j \in 4 .. 5
      <4>1. all[i].to = Nowhere /\ all[i] = RuleInst(d[s], j, Block(s))
        BY <2>2, <3>3, <1>4
      <4>2. R[i] = Fixed(all[i], Nowhere)
        <5>1. all[i].to.block < 0 /\ all[i].to.block \in Int
          BY <4>1, BlocksDiffer
        <5> QED
          BY <4>1, <5>1, <1>2, ResolveFixes
      <4> QED
        BY <4>1, <4>2, <3>0, <3>1, <3>3, FixedRule
    <3> QED
      BY <3>2, <3>3
  <2>3. CASE i = m + 1
    <3>1. R[i] = Fixed(all[i], all[i].to)
      <4>1. all[i].to.block < 0 /\ all[i].to.block \in Int
        BY <2>3, <1>6
      <4> QED
        BY <4>1, <1>2, ResolveFixes
    <3>2. 1 \in 1 .. Len(insts)
      BY <1>1
    <3>3. Fixed(all[i], all[i].to) = insts[1]
      BY <2>3, <3>2, <1>1, <1>2, <1>6, FixedLoaded
    <3>4. N[m + 1] = insts[1]
      BY <3>2, <1>1, JoinedTail
    <3> QED
      BY <2>3, <3>1, <3>3, <3>4
  <2>4. ASSUME NEW j \in 2 .. Len(insts), i = m + j PROVE R[i] = N[i]
    <3>0. j \in 1 .. Len(insts)
      BY <1>1
    <3>1. all[i] = insts[j] /\ insts[j] \in Instruction /\ insts[j].sym = Nowhere /\ insts[j].to.block = -1
      BY <2>4, <3>0, <1>1, <1>2
    <3>2. R[i] = Fixed(all[i], all[i].to)
      <4>1. all[i].to.block < 0 /\ all[i].to.block \in Int
        BY <3>1
      <4> QED
        BY <4>1, <1>2, ResolveFixes
    <3>3. N[m + j] = insts[j]
      BY <3>0, <1>1, JoinedTail
    <3> QED
      BY <2>4, <3>1, <3>2, <3>3, FixedLoaded
  <2> QED
    BY <2>1, <2>2, <2>3, <2>4, <1>7
<1>10. DOMAIN R = DOMAIN all /\ DOMAIN N = DOMAIN all
  <2>1. DOMAIN N = 1 .. m + Len(insts)
    BY DEF Joined, m
  <2>2. DOMAIN R = DOMAIN all
    BY DEF Resolve
  <2> QED
    BY <2>1, <2>2, <1>2
<1>11. R = [i \in DOMAIN R |-> R[i]] /\ N = [i \in DOMAIN N |-> N[i]]
  BY DEF Resolve, Joined
<1> HIDE DEF R, N
<1>12. R = N
  BY <1>9, <1>10, <1>11
<1> QED
  BY <1>12 DEF R, N, all

LEMMA JoinedLoaded ==
  ASSUME NEW d \in Seq(DeviceRule), NEW insts, Loaded(insts)
  PROVE  /\ Loaded(Joined(d, insts)) /\ Len(Joined(d, insts)) = 5 * Len(d) + 5 + Len(insts)
         /\ DOMAIN Joined(d, insts) = 1 .. 5 * Len(d) + 5 + Len(insts)
<1> DEFINE k == Len(d)
           m == 5 * k + 5
           N == Joined(d, insts)
<1>1. insts \in Seq(Instruction) /\ Len(insts) \in Nat /\ Len(insts) >= 1 /\ k \in Nat /\ m \in Nat
      /\ \A n \in 1 .. Len(insts) : insts[n] \in Instruction /\ insts[n].sym = Nowhere /\ insts[n].to.block = -1
  BY DEF Loaded
<1>2. DOMAIN N = 1 .. m + Len(insts) /\ N = [i \in 1 .. m + Len(insts) |-> N[i]]
  BY DEF Joined
<1> HIDE DEF N
<1>3. ASSUME NEW i \in 1 .. m + Len(insts)
      PROVE  N[i] \in Instruction /\ N[i].sym = Nowhere /\ N[i].to.block = -1
  <2>1. CASE i \in 1 .. m
    <3>1. PICK s \in 0 .. k, j \in 1 .. 5 : i = 5 * s + j
      BY <1>1, <2>1, Sections
    <3>2. N[i] = IF s = 0 THEN InitProgram[j] ELSE RuleInst(d[s], j, Offset(6 - j))
      BY <3>1, <1>1, JoinedAt DEF N
    <3>3. CASE s = 0
      BY <3>2, <3>3, InstructionsTyped
    <3>4. CASE s # 0
      <4>1. d[s] \in DeviceRule /\ 6 - j \in Nat
        BY <3>4, <1>1
      <4>2. Offset(6 - j) \in Target /\ Offset(6 - j).block = -1 /\ Nowhere.block = -1
        BY <4>1, BlocksDiffer
      <4> QED
        BY <3>2, <3>4, <4>1, <4>2, InstructionsTyped
    <3> QED
      BY <3>3, <3>4
  <2>2. CASE i > m
    <3>1. i - m \in 1 .. Len(insts) /\ m + (i - m) = i
      BY <2>2, <1>1
    <3>2. N[m + (i - m)] = insts[i - m]
      BY <3>1, <1>1, JoinedTail DEF N
    <3> QED
      BY <3>1, <3>2, <1>1
  <2> QED
    BY <2>1, <2>2, <1>1
<1>4. m + Len(insts) \in Nat /\ m + Len(insts) > 0
  BY <1>1
<1>5. N \in Seq(Instruction) /\ Len(N) = m + Len(insts)
  <2> HIDE DEF m
  <2> QED
    BY <1>2, <1>3, <1>4
<1>6. N # <<>>
  BY <1>4, <1>5
<1>7. Loaded(N)
  BY <1>2, <1>3, <1>5, <1>6 DEF Loaded
<1> QED
  BY <1>2, <1>5, <1>7 DEF N

\* What the instructions in front of a program read and write.
LEMMA InitReads ==
  /\ Reads(InitProgram[1]) = {1} /\ Writes(InitProgram[1]) = {2}
  /\ Reads(InitProgram[2]) = {1} /\ Writes(InitProgram[2]) = {3}
  /\ Reads(InitProgram[3]) = {3} /\ Writes(InitProgram[3]) = {3}
  /\ Reads(InitProgram[4]) = {1} /\ Writes(InitProgram[4]) = {4}
  /\ Reads(InitProgram[5]) = {1} /\ Writes(InitProgram[5]) = {5}
  /\ \A j \in 1 .. 5 : InitProgram[j].op \in Sets /\ InitProgram[j].op \notin Jumps \cup {"exit"}
<1> USE InitInstIs DEF Reads, Writes, Ins, Sets, Jumps, LoadHalf, LoadWord, RSh
<1>1. /\ InitProgram[1].op = "ldh" /\ InitProgram[1].r = 2
      /\ InitProgram[2].op = "ldw" /\ InitProgram[2].r = 3
      /\ InitProgram[3].op = "rsh" /\ InitProgram[3].r = 3
      /\ InitProgram[4].op = "ldw" /\ InitProgram[4].r = 4
      /\ InitProgram[5].op = "ldw" /\ InitProgram[5].r = 5
  OBVIOUS
<1>2. \A j \in 1 .. 5 : InitProgram[j].op \in {"ldh", "ldw", "rsh"}
  BY <1>1
<1> QED
  BY <1>1, <1>2

LEMMA RuleReads ==
  ASSUME NEW dev, NEW to
  PROVE  /\ Reads(RuleInst(dev, 1, to)) = {2} /\ Reads(RuleInst(dev, 2, to)) = {4}
         /\ Reads(RuleInst(dev, 3, to)) = {5} /\ Reads(RuleInst(dev, 4, to)) = {}
         /\ Reads(RuleInst(dev, 5, to)) = {0}
         /\ Writes(RuleInst(dev, 4, to)) = {0}
         /\ \A j \in 1 .. 3 : RuleInst(dev, j, to).op = "jne" /\ RuleInst(dev, j, to).to = to
                              /\ Writes(RuleInst(dev, j, to)) = {}
         /\ RuleInst(dev, 4, to).op = "mov" /\ RuleInst(dev, 5, to).op = "exit"
<1> USE RuleInstIs DEF Reads, Writes, Ins, Sets, Jumps, JNE, Mov, Return
<1>1. /\ RuleInst(dev, 1, to).op = "jne" /\ RuleInst(dev, 1, to).r = 2 /\ RuleInst(dev, 1, to).to = to
      /\ RuleInst(dev, 2, to).op = "jne" /\ RuleInst(dev, 2, to).r = 4 /\ RuleInst(dev, 2, to).to = to
      /\ RuleInst(dev, 3, to).op = "jne" /\ RuleInst(dev, 3, to).r = 5 /\ RuleInst(dev, 3, to).to = to
      /\ RuleInst(dev, 4, to).op = "mov" /\ RuleInst(dev, 4, to).r = 0
      /\ RuleInst(dev, 5, to).op = "exit" /\ RuleInst(dev, 5, to).r = 0
  OBVIOUS
<1>2. \A j \in 1 .. 3 : RuleInst(dev, j, to).op = "jne" /\ RuleInst(dev, j, to).to = to
  BY <1>1
<1> QED
  BY <1>1, <1>2

LEMMA LoadedIs ==
  ASSUME NEW insts, Loaded(insts)
  PROVE  /\ Len(insts) \in Nat /\ Len(insts) >= 1 /\ DOMAIN insts = 1 .. Len(insts)
         /\ \A n \in 1 .. Len(insts) : insts[n] \in Instruction
BY DEF Loaded

\* Where control goes from the instructions in front of a program.
LEMMA FrontLeads ==
  ASSUME NEW d \in Seq(DeviceRule), NEW insts, Loaded(insts),
         NEW s \in 0 .. Len(d), NEW j \in 1 .. 5, NEW n \in Nat, 5 * s + j \in Before(Joined(d, insts), n)
  PROVE  /\ n = 5 * s + j + 1 \/ (s # 0 /\ j \in 1 .. 3 /\ n = 5 * s + 6)
         /\ s = 0 \/ j # 5
<1> DEFINE p == 5 * s + j
           i == Joined(d, insts)[p]
<1>1. i = IF s = 0 THEN InitProgram[j] ELSE RuleInst(d[s], j, Offset(6 - j))
  BY LoadedIs, JoinedAt
<1>2. (n - 1 = p /\ i.op # "exit") \/ (i.op \in Jumps /\ i.to.by = n - p)
  BY DEF Before
<1>3. p \in Nat /\ Len(d) \in Nat
  OBVIOUS
<1> HIDE DEF i
<1>4. CASE s = 0
  BY <1>1, <1>2, <1>3, <1>4, InitReads
<1>5. CASE s # 0 /\ j \in 1 .. 3
  <2>1. i.to = Offset(6 - j) /\ 6 - j \in Nat
    BY <1>1, <1>5, RuleReads
  <2>2. i.to.by = 6 - j
    BY <2>1, BlocksDiffer
  <2> QED
    BY <1>2, <1>3, <1>5, <2>2
<1>6. CASE s # 0 /\ j = 4
  <2>1. i.op \notin Jumps
    BY <1>1, <1>6, RuleReads DEF Jumps
  <2> QED
    BY <2>1, <1>2, <1>3, <1>6
<1>7. CASE s # 0 /\ j = 5
  <2>1. i.op \notin Jumps /\ i.op = "exit"
    BY <1>1, <1>7, RuleReads DEF Jumps
  <2> QED
    BY <2>1, <1>2
<1> QED
  BY <1>4, <1>5, <1>6, <1>7

\* In a program behind others control goes as in the program alone.
LEMMA TailLeads ==
  ASSUME NEW d \in Seq(DeviceRule), NEW insts, Loaded(insts), NEW i \in 1 .. Len(insts),
         NEW n \in Nat, 5 * Len(d) + 5 + i \in Before(Joined(d, insts), n)
  PROVE  i \in Before(insts, n - (5 * Len(d) + 5)) /\ n > 5 * Len(d) + 5
<1> DEFINE m == 5 * Len(d) + 5
           p == m + i
<1>1. Joined(d, insts)[p] = insts[i]
  BY LoadedIs, JoinedTail
<1>2. p \in 1 .. n - 1 /\ ((p = n - 1 /\ insts[i].op \notin {"exit", "ja"}) \/ (insts[i].op \in Jumps /\ insts[i].to.by = n - p))
  BY <1>1 DEF Before
<1>3. m \in Nat /\ i \in Nat /\ i >= 1
  BY LoadedIs
<1> HIDE DEF m
<1>4. n > m /\ i \in 1 .. (n - m) - 1 /\ n - p = (n - m) - i /\ (p = n - 1 <=> i = (n - m) - 1)
  BY <1>2, <1>3
<1>5. i \in Before(insts, n - m)
  BY <1>2, <1>4 DEF Before
<1> QED
  BY <1>4, <1>5 DEF m

\* What is written in front of a program.
Early(s, j) == IF s = 0 THEN CASE j = 1 -> {1} [] j = 2 -> {1, 2} [] j = 3 -> {1, 2, 3}
                               [] j = 4 -> {1, 2, 3} [] j = 5 -> {1, 2, 3, 4}
               ELSE IF j = 5 THEN 0 .. 5 ELSE 1 .. 5

\* The kernel takes the program put in front of one that it took.
LEMMA JoinedVerifies ==
  ASSUME NEW d \in Seq(DeviceRule), NEW insts, Loaded(insts), Verified(insts)
  PROVE  Verified(Joined(d, insts))
<1> DEFINE k == Len(d)
           m == 5 * k + 5
           N == Joined(d, insts)
           T == Written(insts)
           w == [i \in 1 .. m + Len(insts) |-> IF i > m THEN T[i - m] ELSE Early((i - 1) \div 5, ((i - 1) % 5) + 1)]
<1>1. Len(insts) \in Nat /\ Len(insts) >= 1 /\ DOMAIN insts = 1 .. Len(insts) /\ k \in Nat /\ m \in Nat
      /\ m = 5 * k + 5
  BY LoadedIs
<1>2. Sealed(insts) /\ Annotated(insts, T)
  BY <1>1, VerifiedAnnotates
<1>3. DOMAIN N = 1 .. m + Len(insts) /\ Len(N) = m + Len(insts) /\ m + Len(insts) \in Nat
  BY <1>1, JoinedLoaded
<1>4. ASSUME NEW i \in 1 .. Len(insts) PROVE w[m + i] = T[i] /\ N[m + i] = insts[i]
  <2> DEFINE p == m + i
  <2>1. p \in 1 .. m + Len(insts) /\ p > m /\ p - m = i
    BY <1>1
  <2> HIDE DEF p, T
  <2>2. w[p] = T[i]
    BY <2>1
  <2>3. N[m + i] = insts[i]
    BY <1>1, JoinedTail
  <2> QED
    BY <2>2, <2>3 DEF p
<1>5. ASSUME NEW s \in 0 .. k, NEW j \in 1 .. 5
      PROVE  /\ w[5 * s + j] = Early(s, j)
             /\ N[5 * s + j] = IF s = 0 THEN InitProgram[j] ELSE RuleInst(d[s], j, Offset(6 - j))
  <2> DEFINE p == 5 * s + j
  <2>1. p \in 1 .. m + Len(insts) /\ ~(p > m) /\ (p - 1) \div 5 = s /\ ((p - 1) % 5) + 1 = j
    BY <1>1, Section
  <2> HIDE DEF p, T
  <2>2. w[p] = Early(s, j)
    BY <2>1
  <2>3. N[5 * s + j] = IF s = 0 THEN InitProgram[j] ELSE RuleInst(d[s], j, Offset(6 - j))
    BY <1>1, JoinedAt
  <2> QED
    BY <2>2, <2>3 DEF p
<1> HIDE DEF w, N, T, m
<1>6. ASSUME NEW p \in 1 .. m + Len(insts)
      PROVE  \/ \E s \in 0 .. k, j \in 1 .. 5 : p = 5 * s + j
             \/ \E i \in 1 .. Len(insts) : p = m + i
  <2>1. CASE p \in 1 .. m
    BY <2>1, <1>1, Sections
  <2>2. CASE p > m
    <3>1. p - m \in 1 .. Len(insts) /\ m + (p - m) = p
      BY <2>2, <1>1
    <3> QED
      BY <3>1
  <2> QED
    BY <2>1, <2>2, <1>1
\* Where a block, or the program behind, begins, R0 is not needed.
<1>7. ASSUME NEW s \in 0 .. k PROVE w[5 * s + 6] \subseteq 1 .. 5
  <2>1. CASE s < k
    <3>1. s + 1 \in 0 .. k /\ 5 * (s + 1) + 1 = 5 * s + 6 /\ s + 1 # 0
      BY <2>1, <1>1
    <3>2. w[5 * (s + 1) + 1] = Early(s + 1, 1)
      BY <3>1, <1>5
    <3> QED
      BY <3>1, <3>2 DEF Early
  <2>2. CASE s = k
    <3>1. 1 \in 1 .. Len(insts) /\ 5 * s + 6 = m + 1
      BY <2>2, <1>1
    <3>2. w[m + 1] = T[1]
      BY <3>1, <1>4
    <3>3. T[1] \subseteq OnEveryWay(insts, 1, T)
      BY <3>1, <1>2 DEF Annotated
    <3> QED
      BY <3>1, <3>2, <3>3 DEF OnEveryWay
  <2> QED
    BY <2>1, <2>2, <1>1
<1>8. ASSUME NEW n \in 1 .. m + Len(insts), NEW p \in Before(N, n)
      PROVE  w[n] \subseteq Writes(N[p]) \cup w[p]
  <2>1. p \in 1 .. m + Len(insts) /\ n \in Nat
    BY <1>1, BeforeIsLess
  <2>2. ASSUME NEW s \in 0 .. k, NEW j \in 1 .. 5, p = 5 * s + j
        PROVE  w[n] \subseteq Writes(N[p]) \cup w[p]
    <3>1. (n = 5 * s + j + 1 \/ (s # 0 /\ j \in 1 .. 3 /\ n = 5 * s + 6)) /\ (s = 0 \/ j # 5)
      BY <2>1, <2>2, FrontLeads DEF N
    <3>2. w[p] = Early(s, j) /\ N[p] = IF s = 0 THEN InitProgram[j] ELSE RuleInst(d[s], j, Offset(6 - j))
      BY <2>2, <1>5
    <3>3. CASE j = 5
      <4>1. s = 0 /\ n = 5 * s + 6
        BY <3>1, <3>3
      <4>2. w[n] \subseteq 1 .. 5
        BY <4>1, <1>7
      <4>3. Writes(N[p]) = {5} /\ w[p] = {1, 2, 3, 4}
        BY <4>1, <3>2, <3>3, InitReads DEF Early
      <4> QED
        BY <4>2, <4>3
    <3>4. CASE j # 5 /\ n = 5 * s + j + 1
      <4>1. j + 1 \in 1 .. 5 /\ n = 5 * s + (j + 1)
        BY <3>4
      <4>2. w[n] = Early(s, j + 1)
        BY <4>1, <1>5
      <4>3. CASE s = 0
        <5>1. N[p] = InitProgram[j] /\ j \in {1, 2, 3, 4}
          BY <3>2, <3>4, <4>3
        <5> QED
          BY <5>1, <4>2, <4>3, <3>2, InitReads DEF Early
      <4>4. CASE s # 0
        <5>1. N[p] = RuleInst(d[s], j, Offset(6 - j)) /\ j \in {1, 2, 3, 4}
          BY <3>2, <3>4, <4>4
        <5>2. j = 4 => Writes(N[p]) = {0}
          BY <5>1, RuleReads
        <5>3. w[p] = 1 .. 5 /\ w[n] = IF j = 4 THEN 0 .. 5 ELSE 1 .. 5
          BY <5>1, <4>2, <4>4, <3>2 DEF Early
        <5> QED
          BY <5>1, <5>2, <5>3
      <4> QED
        BY <4>3, <4>4
    <3>5. CASE s # 0 /\ j \in 1 .. 3 /\ n = 5 * s + 6
      <4>1. w[n] \subseteq 1 .. 5
        BY <3>5, <1>7
      <4>2. w[p] = 1 .. 5
        BY <3>2, <3>5 DEF Early
      <4> QED
        BY <4>1, <4>2
    <3> QED
      BY <3>1, <3>3, <3>4, <3>5
  <2>3. ASSUME NEW i \in 1 .. Len(insts), p = m + i
        PROVE  w[n] \subseteq Writes(N[p]) \cup w[p]
    <3>1. i \in Before(insts, n - m) /\ n > m
      BY <2>1, <2>3, TailLeads DEF N, m
    <3>2. n - m \in 1 .. Len(insts) /\ n - m \in Nat /\ m + (n - m) = n /\ n - m # 1
      <4>1. n - m \in 1 .. Len(insts) /\ n - m \in Nat /\ m + (n - m) = n
        BY <3>1, <1>1
      <4>2. i \in 1 .. (n - m) - 1
        BY <3>1, <4>1, BeforeIsLess
      <4> QED
        BY <4>1, <4>2
    <3>3. w[n] = T[n - m] /\ w[p] = T[i] /\ N[p] = insts[i]
      BY <3>2, <2>3, <1>4
    <3>4. T[n - m] \subseteq OnEveryWay(insts, n - m, T)
      BY <3>2, <1>2 DEF Annotated
    <3>5. T[n - m] \subseteq Writes(insts[i]) \cup T[i]
      BY <3>1, <3>2, <3>4 DEF OnEveryWay
    <3> QED
      BY <3>3, <3>5
  <2> QED
    BY <2>1, <2>2, <2>3, <1>6
<1>9. ASSUME NEW n \in 1 .. m + Len(insts) PROVE w[n] \subseteq 0 .. 5 /\ Reads(N[n]) \subseteq w[n]
  <2>1. ASSUME NEW s \in 0 .. k, NEW j \in 1 .. 5, n = 5 * s + j
        PROVE  w[n] \subseteq 0 .. 5 /\ Reads(N[n]) \subseteq w[n]
    <3>1. w[n] = Early(s, j) /\ N[n] = IF s = 0 THEN InitProgram[j] ELSE RuleInst(d[s], j, Offset(6 - j))
      BY <2>1, <1>5
    <3>2. CASE s = 0
      <4>1. N[n] = InitProgram[j] /\ j \in {1, 2, 3, 4, 5}
        BY <3>1, <3>2
      <4> QED
        BY <4>1, <3>1, <3>2, InitReads DEF Early
    <3>3. CASE s # 0
      <4>1. N[n] = RuleInst(d[s], j, Offset(6 - j)) /\ j \in {1, 2, 3, 4, 5}
        BY <3>1, <3>3
      <4>2. w[n] = IF j = 5 THEN 0 .. 5 ELSE 1 .. 5
        BY <3>1, <3>3 DEF Early
      <4> QED
        BY <4>1, <4>2, RuleReads
    <3> QED
      BY <3>2, <3>3
  <2>2. ASSUME NEW i \in 1 .. Len(insts), n = m + i
        PROVE  w[n] \subseteq 0 .. 5 /\ Reads(N[n]) \subseteq w[n]
    <3>1. w[n] = T[i] /\ N[n] = insts[i]
      BY <2>2, <1>4
    <3>2. T[i] \subseteq OnEveryWay(insts, i, T) /\ Reads(insts[i]) \subseteq T[i]
      BY <1>2 DEF Annotated
    <3> QED
      BY <3>1, <3>2 DEF OnEveryWay
  <2> QED
    BY <2>1, <2>2, <1>6
<1>10. Annotated(N, w)
  <2>1. w[1] = {1}
    <3>1. 0 \in 0 .. k /\ 5 * 0 + 1 = 1
      BY <1>1
    <3>2. w[5 * 0 + 1] = Early(0, 1)
      BY <3>1, <1>5
    <3> QED
      BY <3>1, <3>2 DEF Early
  <2>2. ASSUME NEW n \in 1 .. m + Len(insts) PROVE w[n] \subseteq OnEveryWay(N, n, w)
    <3>1. CASE n = 1
      BY <2>1, <3>1 DEF OnEveryWay
    <3>2. CASE n # 1
      BY <1>8, <1>9, <3>2 DEF OnEveryWay
    <3> QED
      BY <3>1, <3>2
  <2> QED
    BY <2>2, <1>3, <1>9 DEF Annotated
<1>11. Sealed(N)
  <2>1. N[Len(N)].op = "exit"
    <3>1. Len(insts) \in 1 .. Len(insts)
      BY <1>1
    <3>2. N[m + Len(insts)] = insts[Len(insts)]
      BY <3>1, <1>4
    <3> QED
      BY <3>2, <1>2, <1>3 DEF Sealed
  <2>2. ASSUME NEW n \in 1 .. m + Len(insts), N[n].op \in Jumps
        PROVE  N[n].to.by \in 1 .. (m + Len(insts)) - n
    <3>1. ASSUME NEW s \in 0 .. k, NEW j \in 1 .. 5, n = 5 * s + j
          PROVE  N[n].to.by \in 1 .. (m + Len(insts)) - n
      <4>1. N[n] = IF s = 0 THEN InitProgram[j] ELSE RuleInst(d[s], j, Offset(6 - j))
        BY <3>1, <1>5
      <4>2. s # 0
        BY <4>1, <2>2, InitReads
      <4>3. j \in 1 .. 3
        <5>1. j = 4 => N[n].op = "mov"
          BY <4>1, <4>2, RuleReads
        <5>2. j = 5 => N[n].op = "exit"
          BY <4>1, <4>2, RuleReads
        <5> QED
          BY <5>1, <5>2, <2>2 DEF Jumps
      <4>4. N[n].to = Offset(6 - j) /\ 6 - j \in Nat
        BY <4>1, <4>2, <4>3, RuleReads
      <4>5. N[n].to.by = 6 - j
        BY <4>4, BlocksDiffer
      <4>6. n + (6 - j) <= m + 1
        BY <3>1, <1>1
      <4> QED
        BY <4>3, <4>5, <4>6, <1>1
    <3>2. ASSUME NEW i \in 1 .. Len(insts), n = m + i
          PROVE  N[n].to.by \in 1 .. (m + Len(insts)) - n
      <4>1. N[n] = insts[i]
        BY <3>2, <1>4
      <4>2. insts[i].to.by \in 1 .. Len(insts) - i
        BY <4>1, <2>2, <1>1, <1>2 DEF Sealed
      <4>3. (m + Len(insts)) - n = Len(insts) - i
        BY <3>2, <1>1
      <4> QED
        BY <4>1, <4>2, <4>3
    <3> QED
      BY <3>1, <3>2, <1>6
  <2> QED
    BY <2>1, <2>2, <1>3 DEF Sealed
<1> QED
  BY <1>3, <1>10, <1>11, AnnotatedVerifies DEF N

LEMMA NoProgramLoaded == Loaded(NoProgram) /\ Len(NoProgram) = 1 /\ NoProgram[1] = Return
<1>1. Return \in Instruction /\ Return.sym = Nowhere /\ Return.to.block = -1
  BY DEF Instruction, Target, Nowhere, Ins, Jumps, Sets, Return
<1> HIDE DEF Return
<1>2. NoProgram \in Seq(Instruction) /\ Len(NoProgram) = 1 /\ NoProgram[1] = Return /\ NoProgram # <<>>
  BY <1>1 DEF NoProgram
<1>3. DOMAIN NoProgram = 1 .. 1
  BY <1>2
<1> QED
  BY <1>1, <1>2, <1>3 DEF Loaded

\* The kernel does not take what is made where no program is attached: no test
\* of a rule writes R0, and the exit behind the last one reads it.
LEMMA NoneRefused ==
  ASSUME NEW d \in Seq(DeviceRule)
  PROVE  ~Verified(Joined(d, NoProgram))
<1> DEFINE k == Len(d)
           N == Joined(d, NoProgram)
           W == Written(N)
           S == {s \in Nat : s <= k => 0 \notin W[5 * s + 6]}
<1>1. k \in Nat /\ Loaded(NoProgram) /\ Len(NoProgram) = 1 /\ NoProgram[1] = Return
      /\ Len(NoProgram) \in Nat
  BY NoProgramLoaded
<1>2. DOMAIN N = 1 .. 5 * k + 6 /\ Len(N) = 5 * k + 6 /\ 5 * k + 6 \in Nat
  <2>1. DOMAIN N = 1 .. 5 * Len(d) + 5 + Len(NoProgram) /\ Len(N) = 5 * Len(d) + 5 + Len(NoProgram)
    BY <1>1, JoinedLoaded
  <2> HIDE DEF N
  <2> QED
    BY <2>1, <1>1
<1>3. ASSUME NEW s \in 0 .. k, NEW j \in 1 .. 5
      PROVE  N[5 * s + j] = IF s = 0 THEN InitProgram[j] ELSE RuleInst(d[s], j, Offset(6 - j))
  <2>1. Len(NoProgram) \in Nat
    BY <1>1
  <2> QED
    BY <2>1, JoinedAt
<1> HIDE DEF N
<1>4. \A n \in 1 .. 5 * k + 6 : W[n] = OnEveryWay(N, n, W)
  BY <1>2, WrittenDefined
<1> HIDE DEF W
\* Along the instructions at the beginning, and from one block to the next.
<1>5. ASSUME NEW n \in 1 .. 5 * k + 6, NEW p \in Before(N, n), n # 1, 0 \notin W[p], 0 \notin Writes(N[p])
      PROVE  0 \notin W[n]
  BY <1>4, <1>5 DEF OnEveryWay
<1>6. 0 \in S
  <2>1. ASSUME NEW j \in 1 .. 5
        PROVE  /\ N[j] = InitProgram[j] /\ N[j].op # "exit" /\ 0 \notin Writes(N[j])
               /\ j \in Before(N, j + 1) /\ j \in 1 .. 5 * k + 6 /\ j + 1 \in 1 .. 5 * k + 6 /\ j + 1 # 1
    <3>1. 0 \in 0 .. k /\ 5 * 0 + j = j
      BY <1>1
    <3>2. N[5 * 0 + j] = InitProgram[j]
      BY <3>1, <1>3
    <3>3. N[j] = InitProgram[j] /\ N[j].op \notin {"exit", "ja"} /\ 0 \notin Writes(N[j])
      <4>1. j \in {1, 2, 3, 4, 5}
        OBVIOUS
      <4> QED
        BY <3>1, <3>2, <4>1, InitReads DEF Jumps
    <3>4. j \in Before(N, j + 1)
      BY <3>3 DEF Before
    <3> QED
      BY <3>3, <3>4, <1>1
  <2>2. 0 \notin W[1]
    <3>1. 1 \in 1 .. 5 * k + 6
      BY <1>1
    <3> QED
      BY <3>1, <1>4 DEF OnEveryWay
  <2>3. 1 \in 1 .. 5 /\ 0 \notin W[1 + 1]
    BY <2>1, <2>2, <1>5
  <2>4. 2 \in 1 .. 5 /\ 0 \notin W[2 + 1]
    BY <2>1, <2>3, <1>5
  <2>5. 3 \in 1 .. 5 /\ 0 \notin W[3 + 1]
    BY <2>1, <2>4, <1>5
  <2>6. 4 \in 1 .. 5 /\ 0 \notin W[4 + 1]
    BY <2>1, <2>5, <1>5
  <2>7. 5 \in 1 .. 5 /\ 0 \notin W[5 + 1]
    BY <2>1, <2>6, <1>5
  <2> QED
    BY <2>7
<1>7. ASSUME NEW s \in Nat, s \in S PROVE s + 1 \in S
  <2> SUFFICES ASSUME s + 1 <= k PROVE 0 \notin W[5 * (s + 1) + 6]
    OBVIOUS
  <2> DEFINE t == s + 1
             p == 5 * t + 1
             n == 5 * t + 6
  <2>1. t \in 0 .. k /\ t # 0 /\ 5 * s + 6 = p
    BY <1>1
  <2>2. N[p] = RuleInst(d[t], 1, Offset(5))
    <3>1. N[5 * t + 1] = RuleInst(d[t], 1, Offset(6 - 1))
      BY <2>1, <1>3
    <3> QED
      BY <3>1
  <2>3. N[p].op = "jne" /\ N[p].to.by = 5 /\ Writes(N[p]) = {}
    <3>1. N[p].op = "jne" /\ N[p].to = Offset(5) /\ Writes(N[p]) = {}
      BY <2>2, RuleReads
    <3> QED
      BY <3>1, BlocksDiffer
  <2>4. p \in Before(N, n)
    <3>1. p \in 1 .. n - 1 /\ n - p = 5
      BY <2>1
    <3> HIDE DEF p, n
    <3> QED
      BY <3>1, <2>3 DEF Before, Jumps
  <2>5. 0 \notin W[p]
    BY <1>7, <2>1, <1>1
  <2>6. n \in 1 .. 5 * k + 6 /\ n # 1
    BY <2>1, <1>1
  <2> HIDE DEF p, n, t
  <2>7. 0 \notin W[n]
    BY <2>3, <2>4, <2>5, <2>6, <1>5
  <2> QED
    BY <2>7 DEF n, t
<1>8. k \in S
  <2> HIDE DEF S
  <2> QED
    BY <1>1, <1>6, <1>7, EveryNumber
<1>9. 0 \notin W[5 * k + 6]
  BY <1>1, <1>8
<1>10. Reads(N[5 * k + 6]) = {0}
  <2>1. 1 \in 1 .. Len(NoProgram) /\ (5 * k + 5) + 1 = 5 * k + 6
    BY <1>1
  <2>2. N[(5 * k + 5) + 1] = NoProgram[1]
    <3>1. N[5 * Len(d) + 5 + 1] = NoProgram[1]
      <4>1. Len(NoProgram) \in Nat /\ 1 \in 1 .. Len(NoProgram)
        BY <2>1, <1>1
      <4> QED
        BY <4>1, JoinedTail DEF N
    <3> QED
      BY <3>1, <1>1
  <2>3. N[5 * k + 6] = Return
    BY <2>1, <2>2, <1>1
  <2> QED
    BY <2>3 DEF Reads, Return, Ins
<1>11. Verified(N) => Reads(N[5 * k + 6]) \subseteq W[5 * k + 6]
  <2>1. 5 * k + 6 \in DOMAIN N
    BY <1>2
  <2> QED
    BY <2>1 DEF Verified, W
<1> QED
  BY <1>9, <1>10, <1>11 DEF N

(***************************************************************************)
(* Execution                                                               *)
(***************************************************************************)
\* How far a program that was taken has come after n steps.
Underway(insts, s, n) ==
  /\ s.pc \in 1 .. Len(insts)
  /\ Written(insts)[s.pc] \subseteq DOMAIN s.reg
  /\ s.pc > n \/ insts[s.pc].op = "exit"

LEMMA OneKind ==
  ASSUME NEW i \in Instruction
  PROVE  /\ i.op = "exit" \/ i.op \in Jumps \/ i.op \in Sets
         /\ i.op = "exit" => i.op \notin Jumps /\ i.op \notin Sets
         /\ i.op \in Jumps => i.op \notin Sets /\ i.op # "exit"
         /\ i.op \in Sets => i.op \notin Jumps /\ i.op # "exit"
BY DEF Instruction, Jumps, Sets

LEMMA JumpAdvances ==
  ASSUME NEW insts, NEW c, NEW s, insts[s.pc].op \in Jumps
  PROVE  /\ Advance(insts, c, s).pc = s.pc + (IF Taken(insts[s.pc], s.reg) THEN insts[s.pc].to.by ELSE 1)
         /\ Advance(insts, c, s).reg = s.reg
<1> DEFINE by == IF Taken(insts[s.pc], s.reg) THEN insts[s.pc].to.by ELSE 1
<1>1. insts[s.pc].op # "exit" /\ insts[s.pc].op \notin Sets
  BY DEF Jumps, Sets
<1>2. Advance(insts, c, s) = [pc |-> s.pc + by, reg |-> s.reg]
  BY <1>1 DEF Advance
<1> HIDE DEF by
<1>3. Advance(insts, c, s).pc = s.pc + by /\ Advance(insts, c, s).reg = s.reg
  BY <1>2
<1> QED
  BY <1>3 DEF by

LEMMA SetAdvances ==
  ASSUME NEW insts, NEW c, NEW s, insts[s.pc].op \in Sets
  PROVE  /\ Advance(insts, c, s).pc = s.pc + 1
         /\ Advance(insts, c, s).reg =
              [x \in DOMAIN s.reg \cup {insts[s.pc].r} |->
                 IF x = insts[s.pc].r THEN Value(insts[s.pc], c, s.reg) ELSE s.reg[x]]
<1> DEFINE r == [x \in DOMAIN s.reg \cup {insts[s.pc].r} |->
                   IF x = insts[s.pc].r THEN Value(insts[s.pc], c, s.reg) ELSE s.reg[x]]
<1>1. insts[s.pc].op # "exit" /\ insts[s.pc].op \notin Jumps
  BY DEF Jumps, Sets
<1>2. Advance(insts, c, s) = [pc |-> s.pc + 1, reg |-> r]
  BY <1>1 DEF Advance
<1> HIDE DEF r
<1>3. Advance(insts, c, s).pc = s.pc + 1 /\ Advance(insts, c, s).reg = r
  BY <1>2
<1> QED
  BY <1>3 DEF r

LEMMA ExitStays ==
  ASSUME NEW insts, NEW c, NEW s, insts[s.pc].op = "exit"
  PROVE  Advance(insts, c, s) = s
<1>1. insts[s.pc].op \notin Jumps /\ insts[s.pc].op \notin Sets
  BY DEF Jumps, Sets
<1> QED
  BY <1>1 DEF Advance

LEMMA StepsOn ==
  ASSUME NEW insts, Loaded(insts), Verified(insts), NEW c, NEW s, NEW n \in Nat, Underway(insts, s, n)
  PROVE  Underway(insts, Advance(insts, c, s), n + 1)
<1> DEFINE L == Len(insts)
           W == Written(insts)
           i == insts[s.pc]
           t == Advance(insts, c, s)
<1>1. L \in Nat /\ DOMAIN insts = 1 .. L /\ s.pc \in 1 .. L /\ i \in Instruction
  BY LoadedIs DEF Underway
<1>2. Sealed(insts) /\ Annotated(insts, W)
  BY <1>1, VerifiedAnnotates
<1>3. CASE i.op = "exit"
  BY <1>1, <1>3, ExitStays DEF Underway
<1>4. CASE i.op # "exit"
  <2>0. i.op \in Sets =>
          /\ t.pc = s.pc + 1
          /\ t.reg = [x \in DOMAIN s.reg \cup {i.r} |-> IF x = i.r THEN Value(i, c, s.reg) ELSE s.reg[x]]
    <3> SUFFICES ASSUME i.op \in Sets
                 PROVE  /\ t.pc = s.pc + 1
                        /\ t.reg = [x \in DOMAIN s.reg \cup {i.r} |-> IF x = i.r THEN Value(i, c, s.reg) ELSE s.reg[x]]
      OBVIOUS
    <3> QED
      BY SetAdvances
  <2>1. s.pc # L /\ s.pc > n
    BY <1>2, <1>4 DEF Sealed, Underway
  <2>2. /\ t.pc \in s.pc + 1 .. L
        /\ (t.pc = s.pc + 1 /\ i.op # "ja") \/ (i.op \in Jumps /\ i.to.by = t.pc - s.pc)
    <3>1. CASE i.op \in Jumps
      <4>1. i.to.by \in 1 .. L - s.pc
        BY <1>1, <1>2, <3>1 DEF Sealed
      <4>2. t.pc = s.pc + (IF Taken(i, s.reg) THEN i.to.by ELSE 1)
        BY <3>1, JumpAdvances
      <4>3. i.op = "ja" => Taken(i, s.reg)
        BY DEF Taken
      <4> QED
        BY <4>1, <4>2, <4>3, <3>1, <2>1, <1>1
    <3>2. CASE i.op \in Sets
      <4>1. t.pc = s.pc + 1 /\ i.op # "ja"
        BY <3>2, <2>0 DEF Sets
      <4> QED
        BY <4>1, <2>1, <1>1
    <3> QED
      BY <1>1, <1>4, <3>1, <3>2, OneKind
  <2>3. t.pc \in 1 .. L /\ t.pc # 1 /\ s.pc \in Before(insts, t.pc)
    BY <2>2, <1>1, <1>4 DEF Before
  <2>4. W[t.pc] \subseteq Writes(i) \cup W[s.pc]
    <3>1. W[t.pc] \subseteq OnEveryWay(insts, t.pc, W)
      BY <2>3, <1>2 DEF Annotated
    <3> QED
      BY <2>3, <3>1 DEF OnEveryWay
  <2>5. Writes(i) \cup DOMAIN s.reg \subseteq DOMAIN t.reg
    <3>1. CASE i.op \in Jumps
      <4>1. t.reg = s.reg /\ i.op \notin Sets
        BY <3>1, <1>1, JumpAdvances, OneKind
      <4> QED
        BY <4>1 DEF Writes
    <3>2. CASE i.op \in Sets
      <4>1. DOMAIN t.reg = DOMAIN s.reg \cup {i.r}
        BY <3>2, <2>0
      <4> QED
        BY <4>1, <3>2 DEF Writes
    <3> QED
      BY <1>1, <1>4, <3>1, <3>2, OneKind
  <2>6. t.pc > n + 1
    BY <2>1, <2>2, <1>1
  <2>7. W[t.pc] \subseteq DOMAIN t.reg
    BY <2>4, <2>5 DEF Underway
  <2> QED
    BY <2>3, <2>6, <2>7 DEF Underway
<1> QED
  BY <1>3, <1>4

\* A program that was taken has left a register for each way, and is at an exit
\* when it has taken as many steps as it is long.
LEMMA TraceUnderway ==
  ASSUME NEW insts, Loaded(insts), Verified(insts), NEW c
  PROVE  /\ \A n \in 0 .. Len(insts) : Underway(insts, Trace(insts, c)[n], n)
         /\ insts[Trace(insts, c)[Len(insts)].pc].op = "exit"
<1> DEFINE L == Len(insts)
           s == Trace(insts, c)
           S == {n \in Nat : n <= L => Underway(insts, s[n], n)}
<1>1. L \in Nat /\ L >= 1 /\ DOMAIN insts = 1 .. L
  BY LoadedIs
<1>2. s[0] = Begin /\ \A n \in 1 .. L : s[n] = Advance(insts, c, s[n - 1])
  BY <1>1, TraceDefined
<1> HIDE DEF s
<1>3. 0 \in S
  <2>1. Annotated(insts, Written(insts)) /\ 1 \in 1 .. L
    BY <1>1, VerifiedAnnotates
  <2>2. Written(insts)[1] \subseteq {1}
    BY <2>1 DEF Annotated, OnEveryWay
  <2>3. Begin.pc = 1 /\ DOMAIN Begin.reg = {1}
    BY DEF Begin
  <2> QED
    BY <2>1, <2>2, <2>3, <1>2 DEF Underway
<1>4. ASSUME NEW n \in Nat, n \in S PROVE n + 1 \in S
  <2> SUFFICES ASSUME n + 1 <= L PROVE Underway(insts, s[n + 1], n + 1)
    OBVIOUS
  <2>1. n + 1 \in 1 .. L /\ n + 1 - 1 = n /\ Underway(insts, s[n], n)
    BY <1>1, <1>4
  <2>2. s[n + 1] = Advance(insts, c, s[n])
    BY <2>1, <1>2
  <2> QED
    BY <2>1, <2>2, StepsOn
<1>5. \A n \in Nat : n \in S
  <2> HIDE DEF S
  <2> QED
    BY <1>3, <1>4, EveryNumber
<1>6. \A n \in 0 .. L : Underway(insts, s[n], n)
  BY <1>5
<1>7. insts[s[L].pc].op = "exit"
  <2>1. Underway(insts, s[L], L)
    BY <1>1, <1>6
  <2> QED
    BY <2>1, <1>1 DEF Underway
<1> QED
  BY <1>6, <1>7 DEF s

\* After an exit nothing changes.
LEMMA TraceEnds ==
  ASSUME NEW insts, Loaded(insts), NEW c, NEW n \in 0 .. Len(insts),
         insts[Trace(insts, c)[n].pc].op = "exit"
  PROVE  Trace(insts, c)[Len(insts)] = Trace(insts, c)[n]
<1> DEFINE L == Len(insts)
           s == Trace(insts, c)
           S == {e \in Nat : n + e <= L => s[n + e] = s[n]}
<1>1. L \in Nat
  BY LoadedIs
<1>2. \A m \in 1 .. L : s[m] = Advance(insts, c, s[m - 1])
  BY <1>1, TraceDefined
<1>3. Advance(insts, c, s[n]) = s[n]
  <2> DEFINE u == Trace(insts, c)[n]
  <2>1. insts[u.pc].op = "exit"
    OBVIOUS
  <2> HIDE DEF u
  <2>2. Advance(insts, c, u) = u
    BY <2>1, ExitStays
  <2> QED
    BY <2>2 DEF u
<1> HIDE DEF s
<1>4. 0 \in S
  OBVIOUS
<1>5. ASSUME NEW e \in Nat, e \in S PROVE e + 1 \in S
  <2> SUFFICES ASSUME n + (e + 1) <= L PROVE s[n + (e + 1)] = s[n]
    OBVIOUS
  <2> DEFINE m == n + (e + 1)
  <2>1. m \in 1 .. L /\ m - 1 = n + e /\ s[n + e] = s[n]
    BY <1>1, <1>5
  <2> HIDE DEF m
  <2>2. s[m] = Advance(insts, c, s[m - 1])
    BY <2>1, <1>2
  <2> QED
    BY <2>1, <2>2, <1>3 DEF m
<1>6. \A e \in Nat : e \in S
  <2> HIDE DEF S
  <2> QED
    BY <1>4, <1>5, EveryNumber
<1>7. L - n \in Nat /\ n + (L - n) = L
  BY <1>1
<1>8. s[n + (L - n)] = s[n]
  BY <1>6, <1>7
<1> QED
  BY <1>7, <1>8 DEF s

LEMMA SameValue ==
  ASSUME NEW i \in Instruction, NEW c, NEW a, NEW b, \A x \in Reads(i) : a[x] = b[x]
  PROVE  /\ i.op \in Sets => Value(i, c, a) = Value(i, c, b)
         /\ i.op \in Jumps => (Taken(i, a) <=> Taken(i, b))
<1>1. CASE i.op = "ldh"
  BY <1>1 DEF Value, Jumps
<1>2. CASE i.op = "ldw"
  BY <1>2 DEF Value, Jumps
<1>3. CASE i.op = "mov"
  BY <1>3 DEF Value, Jumps
<1>4. CASE i.op = "rsh"
  <2>1. a[i.r] = b[i.r]
    BY <1>4 DEF Reads
  <2> QED
    BY <1>4, <2>1 DEF Value, Jumps
<1>5. CASE i.op = "movreg"
  <2>1. a[i.arg] = b[i.arg]
    BY <1>5 DEF Reads
  <2> QED
    BY <1>5, <2>1 DEF Value, Jumps
<1>6. CASE i.op = "and"
  <2>1. a[i.r] = b[i.r]
    BY <1>6 DEF Reads
  <2> QED
    BY <1>6, <2>1 DEF Value, Jumps
<1>7. CASE i.op = "jne"
  <2>1. a[i.r] = b[i.r]
    BY <1>7 DEF Reads
  <2> QED
    BY <1>7, <2>1 DEF Taken, Sets
<1>8. CASE i.op = "jeq"
  <2>1. a[i.r] = b[i.r]
    BY <1>8 DEF Reads
  <2> QED
    BY <1>8, <2>1 DEF Taken, Sets
<1>9. CASE i.op = "jnereg"
  <2>1. a[i.r] = b[i.r] /\ a[i.arg] = b[i.arg]
    BY <1>9 DEF Reads
  <2> QED
    BY <1>9, <2>1 DEF Taken, Sets
<1>10. CASE i.op = "ja"
  BY <1>10 DEF Taken, Sets
<1>11. CASE i.op = "exit"
  BY <1>11 DEF Jumps, Sets
<1> QED
  BY <1>1, <1>2, <1>3, <1>4, <1>5, <1>6, <1>7, <1>8, <1>9, <1>10, <1>11 DEF Instruction, Jumps, Sets

\* Behind m instructions, with every register that the program alone has.
Agrees(s, u, m) ==
  /\ u.pc = m + s.pc
  /\ \A r \in DOMAIN s.reg : r \in DOMAIN u.reg /\ u.reg[r] = s.reg[r]

LEMMA AgreesOn ==
  ASSUME NEW insts, Loaded(insts), Verified(insts), NEW c, NEW n \in Nat, NEW m \in Nat,
         NEW s, Underway(insts, s, n), NEW all, NEW u, Agrees(s, u, m), all[u.pc] = insts[s.pc]
  PROVE  Agrees(Advance(insts, c, s), Advance(all, c, u), m)
<1> DEFINE i == insts[s.pc]
           t == Advance(insts, c, s)
           v == Advance(all, c, u)
<1>1. s.pc \in 1 .. Len(insts) /\ Len(insts) \in Nat /\ i \in Instruction /\ DOMAIN insts = 1 .. Len(insts)
  BY LoadedIs DEF Underway
<1>2. Reads(i) \subseteq DOMAIN s.reg
  <2>1. Annotated(insts, Written(insts))
    BY <1>1, VerifiedAnnotates
  <2> QED
    BY <1>1, <2>1 DEF Annotated, Underway
<1>3. \A x \in Reads(i) : s.reg[x] = u.reg[x]
  BY <1>2 DEF Agrees
<1>4. /\ i.op \in Sets => Value(i, c, s.reg) = Value(i, c, u.reg)
      /\ i.op \in Jumps => (Taken(i, s.reg) <=> Taken(i, u.reg))
  <2> DEFINE a == s.reg
             b == u.reg
  <2>1. i \in Instruction /\ \A x \in Reads(i) : a[x] = b[x]
    BY <1>1, <1>3
  <2> HIDE DEF a, b, i
  <2>2. /\ i.op \in Sets => Value(i, c, a) = Value(i, c, b)
        /\ i.op \in Jumps => (Taken(i, a) <=> Taken(i, b))
    BY <2>1, SameValue
  <2> QED
    BY <2>2 DEF a, b
<1>5. CASE i.op = "exit"
  <2>1. t = s /\ v = u
    BY <1>5, ExitStays
  <2> QED
    BY <2>1
<1>6. CASE i.op \in Jumps
  <2>1. /\ t.pc = s.pc + (IF Taken(i, s.reg) THEN i.to.by ELSE 1) /\ t.reg = s.reg
        /\ v.pc = u.pc + (IF Taken(i, u.reg) THEN i.to.by ELSE 1) /\ v.reg = u.reg
    BY <1>6, JumpAdvances
  <2>2. i.to.by \in Int
    BY <1>1 DEF Instruction, Target
  <2>3. v.pc = m + t.pc
    BY <2>1, <2>2, <1>1, <1>4, <1>6 DEF Agrees
  <2> QED
    BY <2>1, <2>3 DEF Agrees
<1>7. CASE i.op \in Sets
  <2>1. /\ t.pc = s.pc + 1 /\ v.pc = u.pc + 1
        /\ t.reg = [x \in DOMAIN s.reg \cup {i.r} |-> IF x = i.r THEN Value(i, c, s.reg) ELSE s.reg[x]]
        /\ v.reg = [x \in DOMAIN u.reg \cup {i.r} |-> IF x = i.r THEN Value(i, c, u.reg) ELSE u.reg[x]]
    BY <1>7, SetAdvances
  <2>2. v.pc = m + t.pc
    BY <2>1, <1>1 DEF Agrees
  <2> HIDE DEF t, v, i
  <2>3. \A r \in DOMAIN t.reg : r \in DOMAIN v.reg /\ v.reg[r] = t.reg[r]
    BY <2>1, <1>4, <1>7 DEF Agrees
  <2>4. Agrees(t, v, m)
    BY <2>2, <2>3 DEF Agrees
  <2> QED
    BY <2>4 DEF t, v
<1> QED
  BY <1>1, <1>5, <1>6, <1>7 DEF Instruction

\* A rule of the cli is about reading, writing and making one character device.
LEMMA ConcernsIs ==
  ASSUME NEW dev \in DeviceRule, NEW c \in Context
  PROVE  Concerns(dev, c) <=> c.type = DevChar /\ c.major = dev.major /\ c.minor = dev.minor
<1>1. dev.type = "c" /\ dev.access = {"r", "w", "m"}
  BY Zenon DEF DeviceRule
<1>2. dev.major \in Nat /\ dev.minor \in Nat /\ c.major \in Nat /\ c.minor \in Nat
  BY DEF DeviceRule, Context
<1>3. BpfAccess(dev.access) = 7
  BY <1>1 DEF BpfAccess, AccRead, AccWrite, AccMknod
<1>4. \A x \in 1 .. 7 : And(x, 7) # 0
  <2> SUFFICES ASSUME NEW x \in 1 .. 7 PROVE And(x, 7) # 0
    OBVIOUS
  <2>1. And(x, 7) = ((x \div 1) % 2) + 2 * ((x \div 2) % 2) + 4 * ((x \div 4) % 2)
    <3>1. (7 \div 1) % 2 = 1 /\ (7 \div 2) % 2 = 1 /\ (7 \div 4) % 2 = 1
      OBVIOUS
    <3> QED
      BY <3>1 DEF And, AccMknod, AccRead, AccWrite
  <2>2. ((x \div 1) % 2) + 2 * ((x \div 2) % 2) + 4 * ((x \div 4) % 2) # 0
    OBVIOUS
  <2> QED
    BY <2>1, <2>2
<1>5. c.access \in 1 .. 7
  BY DEF Context, AccAll, AccRead, AccWrite, AccMknod
<1>6. And(c.access, BpfAccess(dev.access)) # 0
  BY <1>3, <1>4, <1>5
<1>7. dev.major \in {-1, c.major} <=> c.major = dev.major
  BY <1>2
<1>8. dev.minor \in {-1, c.minor} <=> c.minor = dev.minor
  BY <1>2
<1> QED
  BY <1>1, <1>6, <1>7, <1>8 DEF Concerns

\* The instructions in front of a program, when the rules of the first s blocks
\* are not about the access and j - 1 instructions of block s have been passed.
Holds(reg, r, value) == r \in DOMAIN reg /\ reg[r] = value

Passed(d, c, s) == \A q \in 1 .. s : ~Concerns(d[q], c)

InFront(d, c, u, s, j) ==
  /\ u.pc = 5 * s + j
  /\ Holds(u.reg, 1, 0)
  /\ s # 0 \/ j # 1 => Holds(u.reg, 2, c.type)
  /\ s # 0 \/ j = 5 => Holds(u.reg, 4, c.major)
  /\ s # 0 => /\ Holds(u.reg, 5, c.minor)
              /\ Passed(d, c, s - 1)
              /\ j # 1 => c.type = DevChar
              /\ j \in 3 .. 5 => c.major = d[s].major
              /\ j \in 4 .. 5 => c.minor = d[s].minor
              /\ j = 5 => Holds(u.reg, 0, 1)

\* The first block after s, or the program behind.
AtBlock(d, c, u, s) ==
  /\ u.pc = 5 * s + 6
  /\ Holds(u.reg, 1, 0) /\ Holds(u.reg, 2, c.type)
  /\ Holds(u.reg, 4, c.major) /\ Holds(u.reg, 5, c.minor)
  /\ Passed(d, c, s)

LEMMA LowHalf ==
  ASSUME NEW a \in Nat, NEW k \in Nat, k > 0, NEW t \in 0 .. k - 1
  PROVE  (a * k + t) % k = t
OBVIOUS

LEMMA WordIs ==
  ASSUME NEW c \in Context
  PROVE  Word(c, 0) % HalfWord = c.type /\ Word(c, 4) = c.major /\ Word(c, 8) = c.minor
<1>1. HalfWord \in Nat /\ HalfWord > 0 /\ AccAll \in Nat
  BY DEF HalfWord, AccAll, AccRead, AccWrite, AccMknod
<1>2. c.type \in 0 .. HalfWord - 1 /\ c.access \in 1 .. AccAll
  BY DEF Context
<1>3. c.access \in Nat
  BY <1>1, <1>2
<1>4. (c.access * HalfWord + c.type) % HalfWord = c.type
  BY <1>1, <1>2, <1>3, LowHalf
<1> QED
  BY <1>4 DEF Word

\* Only one register changes.
LEMMA OneRegister ==
  ASSUME NEW insts, NEW c, NEW s, NEW i, insts[s.pc] = i, i.op \in Sets
  PROVE  /\ Advance(insts, c, s).pc = s.pc + 1
         /\ Holds(Advance(insts, c, s).reg, i.r, Value(i, c, s.reg))
         /\ \A x, y : x # i.r /\ Holds(s.reg, x, y) => Holds(Advance(insts, c, s).reg, x, y)
<1> DEFINE at == insts[s.pc]
           t == Advance(insts, c, s)
<1>1. /\ t.pc = s.pc + 1
      /\ t.reg = [x \in DOMAIN s.reg \cup {at.r} |-> IF x = at.r THEN Value(at, c, s.reg) ELSE s.reg[x]]
  BY SetAdvances
<1>2. at = i
  OBVIOUS
<1> HIDE DEF t, at
<1>3. Holds(t.reg, at.r, Value(at, c, s.reg)) /\ \A x, y : x # at.r /\ Holds(s.reg, x, y) => Holds(t.reg, x, y)
  BY <1>1 DEF Holds
<1> QED
  BY <1>1, <1>2, <1>3 DEF t

\* The context is loaded.
LEMMA InitAdvances ==
  ASSUME NEW d \in Seq(DeviceRule), NEW c \in Context, NEW all, NEW u, NEW j \in 1 .. 5,
         InFront(d, c, u, 0, j), all[u.pc] = InitProgram[j]
  PROVE  LET v == Advance(all, c, u)
         IN  IF j = 5 THEN AtBlock(d, c, v, 0) ELSE InFront(d, c, v, 0, j + 1)
<1> DEFINE v == Advance(all, c, u)
           i == InitProgram[j]
           val == Value(i, c, u.reg)
<1>1. i.op \in Sets
  BY InitReads
<1>2. /\ v.pc = u.pc + 1 /\ Holds(v.reg, i.r, val)
      /\ \A x, y : x # i.r /\ Holds(u.reg, x, y) => Holds(v.reg, x, y)
  <2>1. i.op \in Sets /\ all[u.pc] = i
    BY <1>1
  <2> HIDE DEF i
  <2> QED
    BY <2>1, OneRegister
<1>3. /\ j = 1 => i.r = 2 /\ val = c.type
      /\ j = 2 => i.r = 3
      /\ j = 3 => i.r = 3
      /\ j = 4 => i.r = 4 /\ val = c.major
      /\ j = 5 => i.r = 5 /\ val = c.minor
  <2>1. CASE j = 1
    <3>1. i.op = "ldh" /\ i.r = 2 /\ i.arg = 0
      BY <2>1, InitInstIs DEF LoadHalf, Ins
    <3>2. val = Word(c, 0) % HalfWord
      BY <3>1 DEF Value
    <3> QED
      BY <2>1, <3>1, <3>2, WordIs
  <2>2. CASE j = 2
    BY <2>2, InitInstIs DEF LoadWord, Ins
  <2>3. CASE j = 3
    BY <2>3, InitInstIs DEF RSh, Ins
  <2>4. CASE j = 4
    <3>1. i.op = "ldw" /\ i.r = 4 /\ i.arg = 4
      BY <2>4, InitInstIs DEF LoadWord, Ins
    <3>2. val = Word(c, 4)
      BY <3>1 DEF Value
    <3> QED
      BY <2>4, <3>1, <3>2, WordIs
  <2>5. CASE j = 5
    <3>1. i.op = "ldw" /\ i.r = 5 /\ i.arg = 8
      BY <2>5, InitInstIs DEF LoadWord, Ins
    <3>2. val = Word(c, 8)
      BY <3>1 DEF Value
    <3> QED
      BY <2>5, <3>1, <3>2, WordIs
  <2> QED
    BY <2>1, <2>2, <2>3, <2>4, <2>5
<1>4. /\ u.pc = j /\ Holds(u.reg, 1, 0)
      /\ j # 1 => Holds(u.reg, 2, c.type)
      /\ j = 5 => Holds(u.reg, 4, c.major)
  BY DEF InFront
<1> HIDE DEF v, i, val
<1>5. i.r \in 2 .. 5 /\ Holds(v.reg, i.r, val)
      /\ \A x, y : x # i.r /\ Holds(u.reg, x, y) => Holds(v.reg, x, y)
  <2>1. i.r \in 2 .. 5
    BY <1>3
  <2> QED
    BY <1>2, <2>1
<1>6. Holds(v.reg, 1, 0) /\ v.pc = j + 1
  <2>1. 1 # i.r
    BY <1>5
  <2>2. Holds(v.reg, 1, 0)
    BY <2>1, <1>4, <1>5
  <2> QED
    BY <2>2, <1>2, <1>4
<1>7. Holds(v.reg, 2, c.type)
  BY <1>3, <1>4, <1>5
<1>8. j \in {4, 5} => Holds(v.reg, 4, c.major)
  BY <1>3, <1>4, <1>5
<1>9. j = 5 => Holds(v.reg, 5, c.minor)
  BY <1>3, <1>5
<1>10. CASE j = 5
  <2>1. Passed(d, c, 0)
    BY DEF Passed
  <2> QED
    BY <1>6, <1>7, <1>8, <1>9, <1>10, <2>1 DEF AtBlock, v
<1>11. CASE j # 5
  <2>1. j + 1 = 5 => j \in {4, 5}
    OBVIOUS
  <2> QED
    BY <1>6, <1>7, <1>8, <1>11, <2>1 DEF InFront, v
<1> QED
  BY <1>10, <1>11

\* A rule is tested.
LEMMA RuleAdvances ==
  ASSUME NEW d \in Seq(DeviceRule), NEW c \in Context, NEW all, NEW u,
         NEW s \in 1 .. Len(d), NEW j \in 1 .. 5,
         InFront(d, c, u, s, j), all[u.pc] = RuleInst(d[s], j, Offset(6 - j))
  PROVE  \/ j # 5 /\ InFront(d, c, Advance(all, c, u), s, j + 1)
         \/ AtBlock(d, c, Advance(all, c, u), s)
         \/ j = 5 /\ Advance(all, c, u) = u
<1> DEFINE v == Advance(all, c, u)
           i == RuleInst(d[s], j, Offset(6 - j))
<1>1. d[s] \in DeviceRule /\ s \in Nat /\ s # 0 /\ s - 1 \in Nat
  OBVIOUS
<1>2. Concerns(d[s], c) <=> c.type = DevChar /\ c.major = d[s].major /\ c.minor = d[s].minor
  BY <1>1, ConcernsIs
<1>3. /\ u.pc = 5 * s + j
      /\ Holds(u.reg, 1, 0) /\ Holds(u.reg, 2, c.type) /\ Holds(u.reg, 4, c.major) /\ Holds(u.reg, 5, c.minor)
      /\ Passed(d, c, s - 1)
      /\ j # 1 => c.type = DevChar
      /\ j \in 3 .. 5 => c.major = d[s].major
      /\ j \in 4 .. 5 => c.minor = d[s].minor
  BY <1>1 DEF InFront
<1>4. CASE j = 5
  <2>1. i.op = "exit"
    BY <1>4, RuleReads
  <2>2. v = u
    BY <2>1, ExitStays
  <2> QED
    BY <1>4, <2>2
<1>5. CASE j = 4
  <2>1. i.op = "mov" /\ i.r = 0 /\ i.arg = 1
    BY <1>5, RuleInstIs DEF Mov, Ins
  <2>2. i.op \in Sets /\ Value(i, c, u.reg) = 1
    BY <2>1 DEF Sets, Value
  <2>3. /\ v.pc = u.pc + 1 /\ Holds(v.reg, i.r, Value(i, c, u.reg))
        /\ \A x, y : x # i.r /\ Holds(u.reg, x, y) => Holds(v.reg, x, y)
    <3>1. i.op \in Sets /\ all[u.pc] = i
      BY <2>2
    <3> HIDE DEF i
    <3> QED
      BY <3>1, OneRegister
  <2> HIDE DEF v, i
  <2>4. v.pc = 5 * s + 5 /\ Holds(v.reg, 0, 1) /\ \A x, y : x # 0 /\ Holds(u.reg, x, y) => Holds(v.reg, x, y)
    BY <1>1, <1>3, <1>5, <2>1, <2>2, <2>3
  <2>5. InFront(d, c, v, s, 5)
    BY <1>1, <1>3, <1>5, <2>4 DEF InFront
  <2> QED
    BY <1>5, <2>5 DEF v
<1>6. CASE j \in 1 .. 3
  <2>1. i.op = "jne" /\ i.to = Offset(6 - j) /\ 6 - j \in Nat
    BY <1>6, RuleReads
  <2>2. i.op \in Jumps /\ i.to.by = 6 - j
    BY <2>1, BlocksDiffer DEF Jumps
  <2>3. Taken(i, u.reg) <=> u.reg[i.r] # i.arg
    BY <2>1 DEF Taken
  <2>4. /\ v.pc = u.pc + (IF Taken(i, u.reg) THEN i.to.by ELSE 1)
        /\ v.reg = u.reg
    BY <2>2, JumpAdvances
  <2>5. /\ j = 1 => i.r = 2 /\ i.arg = DevChar
        /\ j = 2 => i.r = 4 /\ i.arg = d[s].major
        /\ j = 3 => i.r = 5 /\ i.arg = d[s].minor
    BY RuleInstIs DEF JNE, Ins
  <2> HIDE DEF v, i
  <2>6. CASE Taken(i, u.reg)
    <3>1. ~Concerns(d[s], c)
      BY <1>2, <1>3, <1>6, <2>3, <2>5, <2>6 DEF Holds
    <3>2. Passed(d, c, s)
      <4>1. \A q \in 1 .. s : q \in 1 .. s - 1 \/ q = s
        BY <1>1
      <4> QED
        BY <4>1, <1>3, <3>1 DEF Passed
    <3>3. v.pc = 5 * s + 6
      BY <1>1, <1>3, <2>2, <2>4, <2>6
    <3> QED
      BY <1>3, <2>4, <3>2, <3>3 DEF AtBlock, v
  <2>7. CASE ~Taken(i, u.reg)
    <3>1. /\ j = 1 => c.type = DevChar
          /\ j = 2 => c.major = d[s].major
          /\ j = 3 => c.minor = d[s].minor
      BY <1>3, <2>3, <2>5, <2>7 DEF Holds
    <3>2. v.pc = 5 * s + (j + 1)
      BY <1>1, <1>3, <2>4, <2>7
    <3>3. InFront(d, c, v, s, j + 1)
      BY <1>1, <1>3, <1>6, <2>4, <3>1, <3>2 DEF InFront
    <3> QED
      BY <1>6, <3>3 DEF v
  <2> QED
    BY <2>6, <2>7
<1> QED
  BY <1>4, <1>5, <1>6

\* Either the instructions in front run, or the program behind as if alone.
Where(d, insts, c, u) ==
  \/ \E s \in 0 .. Len(d), j \in 1 .. 5 : InFront(d, c, u, s, j)
  \/ /\ Passed(d, c, Len(d))
     /\ \E n \in 0 .. Len(insts) : Agrees(Trace(insts, c)[n], u, 5 * Len(d) + 5)

LEMMA AtBlockIsWhere ==
  ASSUME NEW d \in Seq(DeviceRule), NEW insts, Loaded(insts), NEW c, NEW u,
         NEW s \in 0 .. Len(d), AtBlock(d, c, u, s)
  PROVE  Where(d, insts, c, u)
<1>1. Len(d) \in Nat /\ Len(insts) \in Nat /\ s \in Nat
  BY LoadedIs
<1>2. CASE s < Len(d)
  <2> DEFINE t == s + 1
  <2>1. t \in 0 .. Len(d) /\ t # 0 /\ 5 * s + 6 = 5 * t + 1 /\ t - 1 = s /\ 1 \in 1 .. 5
    BY <1>1, <1>2
  <2> HIDE DEF t
  <2>2. InFront(d, c, u, t, 1)
    BY <2>1 DEF AtBlock, InFront
  <2> QED
    BY <2>1, <2>2 DEF Where
<1>3. CASE s = Len(d)
  <2>1. u.pc = (5 * Len(d) + 5) + 1 /\ Holds(u.reg, 1, 0) /\ Passed(d, c, Len(d))
    BY <1>1, <1>3 DEF AtBlock
  <2>2. Trace(insts, c)[0] = Begin /\ 0 \in 0 .. Len(insts)
    BY <1>1, TraceDefined
  <2>3. Agrees(Begin, u, 5 * Len(d) + 5)
    BY <2>1 DEF Agrees, Begin, Holds
  <2> QED
    BY <2>1, <2>2, <2>3 DEF Where
<1> QED
  BY <1>1, <1>2, <1>3

LEMMA WhereOn ==
  ASSUME NEW d \in Seq(DeviceRule), NEW insts, Loaded(insts), Verified(insts), NEW c \in Context,
         NEW u, Where(d, insts, c, u)
  PROVE  Where(d, insts, c, Advance(Joined(d, insts), c, u))
<1> DEFINE k == Len(d)
           m == 5 * k + 5
           all == Joined(d, insts)
           v == Advance(all, c, u)
           L == Len(insts)
           t == Trace(insts, c)
<1>1. k \in Nat /\ L \in Nat /\ m \in Nat /\ m = 5 * k + 5 /\ DOMAIN insts = 1 .. L
  BY LoadedIs
<1>2. ASSUME NEW s \in 0 .. k, NEW j \in 1 .. 5, InFront(d, c, u, s, j)
      PROVE  Where(d, insts, c, v)
  <2>1. all[u.pc] = IF s = 0 THEN InitProgram[j] ELSE RuleInst(d[s], j, Offset(6 - j))
    <3>1. u.pc = 5 * s + j
      BY <1>2 DEF InFront
    <3>2. Len(insts) \in Nat /\ s \in 0 .. Len(d)
      BY <1>1
    <3>3. Joined(d, insts)[5 * s + j] = IF s = 0 THEN InitProgram[j] ELSE RuleInst(d[s], j, Offset(6 - j))
      BY <3>2, JoinedAt
    <3> QED
      BY <3>1, <3>3
  <2> HIDE DEF all
  <2>2. CASE s = 0 /\ j = 5
    <3>1. AtBlock(d, c, v, 0)
      BY <2>1, <2>2, <1>2, InitAdvances
    <3>2. 0 \in 0 .. Len(d)
      BY <1>1
    <3> HIDE DEF v
    <3> QED
      BY <3>1, <3>2, AtBlockIsWhere
  <2>3. CASE s = 0 /\ j # 5
    <3>1. InFront(d, c, v, 0, j + 1) /\ j + 1 \in 1 .. 5 /\ 0 \in 0 .. Len(d)
      BY <2>1, <2>3, <1>1, <1>2, InitAdvances
    <3> HIDE DEF v
    <3> QED
      BY <3>1 DEF Where
  <2>4. CASE s # 0
    <3>1. s \in 1 .. Len(d) /\ s \in 0 .. Len(d)
      BY <2>4, <1>1
    <3>2. \/ j # 5 /\ InFront(d, c, v, s, j + 1)
          \/ AtBlock(d, c, v, s)
          \/ j = 5 /\ v = u
      BY <2>1, <2>4, <3>1, <1>2, RuleAdvances
    <3> HIDE DEF v
    <3>3. CASE j # 5 /\ InFront(d, c, v, s, j + 1)
      <4>1. j + 1 \in 1 .. 5
        BY <3>3
      <4> QED
        BY <3>1, <3>3, <4>1 DEF Where
    <3>4. CASE AtBlock(d, c, v, s)
      BY <3>1, <3>4, AtBlockIsWhere
    <3>5. CASE v = u
      BY <3>5
    <3> QED
      BY <3>2, <3>3, <3>4, <3>5
  <2> QED
    BY <2>2, <2>3, <2>4
<1>3. ASSUME Passed(d, c, k), NEW n \in 0 .. L, Agrees(t[n], u, m)
      PROVE  Where(d, insts, c, v)
  <2>1. Underway(insts, t[n], n) /\ n \in Nat
    BY TraceUnderway
  <2>2. t[n].pc \in 1 .. L /\ u.pc = m + t[n].pc
    BY <2>1, <1>3 DEF Underway, Agrees
  <2>3. all[u.pc] = insts[t[n].pc]
    BY <2>2, <1>1, JoinedTail
  <2>4. Agrees(Advance(insts, c, t[n]), v, m)
    <3> HIDE DEF all, m, t
    <3> QED
      BY <2>1, <2>3, <1>1, <1>3, AgreesOn
  <2>5. \E e \in 0 .. L : Advance(insts, c, t[n]) = t[e]
    <3>1. CASE n < L
      <4>1. n + 1 \in 1 .. L /\ n + 1 - 1 = n /\ n + 1 \in 0 .. L
        BY <1>1, <3>1
      <4>2. \A e \in 1 .. L : t[e] = Advance(insts, c, t[e - 1])
        BY <1>1, TraceDefined
      <4>3. t[n + 1] = Advance(insts, c, t[n])
        <5> HIDE DEF t
        <5> QED
          BY <4>1, <4>2
      <4> QED
        BY <4>1, <4>3
    <3>2. CASE n = L
      <4>1. insts[t[n].pc].op = "exit"
        BY <3>2, TraceUnderway
      <4>2. Advance(insts, c, t[n]) = t[n]
        BY <4>1, ExitStays
      <4> QED
        BY <4>2
    <3>3. n < L \/ n = L
      <4>1. n \in 0 .. L /\ L \in Nat
        BY <1>1, <1>3
      <4> HIDE DEF L
      <4> QED
        BY <4>1
    <3> QED
      BY <3>1, <3>2, <3>3
  <2> HIDE DEF v
  <2> QED
    BY <2>4, <2>5, <1>3 DEF Where
<1> QED
  BY <1>2, <1>3 DEF Where

\* What is put in front of a program adds its rules and nothing else.
LEMMA JoinedDecides ==
  ASSUME NEW d \in Seq(DeviceRule), NEW insts, Loaded(insts), Verified(insts), NEW c \in Context
  PROVE  Decides(Joined(d, insts), c) <=> Decides(insts, c) \/ \E q \in 1 .. Len(d) : Concerns(d[q], c)
<1> DEFINE k == Len(d)
           m == 5 * k + 5
           all == Joined(d, insts)
           L == Len(insts)
           N == Len(all)
           s == Trace(all, c)
           t == Trace(insts, c)
           u == s[N]
           S == {n \in Nat : n <= N => Where(d, insts, c, s[n])}
<1>1. k \in Nat /\ L \in Nat /\ m \in Nat /\ m = 5 * k + 5 /\ DOMAIN insts = 1 .. L /\ N \in Nat /\ Loaded(all)
  BY LoadedIs, JoinedLoaded
<1>2. Verified(all)
  BY JoinedVerifies
<1>3. s[0] = Begin /\ \A n \in 1 .. N : s[n] = Advance(all, c, s[n - 1])
  BY <1>1, TraceDefined
<1>4. all[u.pc].op = "exit"
  BY <1>1, <1>2, TraceUnderway
<1>5. Decides(all, c) <=> u.reg[0] = 1
  BY <1>1, TraceDefined
<1>6. Decides(insts, c) <=> t[L].reg[0] = 1
  BY <1>1, TraceDefined
<1>7. 0 \in S
  <2>1. InFront(d, c, Begin, 0, 1)
    BY DEF InFront, Begin, Holds
  <2>2. 0 \in 0 .. Len(d) /\ 1 \in 1 .. 5
    BY <1>1
  <2>3. Where(d, insts, c, Begin)
    BY <2>1, <2>2 DEF Where
  <2> HIDE DEF s, N
  <2> QED
    BY <2>3, <1>3
<1>8. ASSUME NEW n \in Nat, n \in S PROVE n + 1 \in S
  <2> SUFFICES ASSUME n + 1 <= N PROVE Where(d, insts, c, s[n + 1])
    OBVIOUS
  <2>1. n + 1 \in 1 .. N /\ n + 1 - 1 = n /\ Where(d, insts, c, s[n])
    <3> HIDE DEF s, N
    <3> QED
      BY <1>1, <1>8
  <2>2. s[n + 1] = Advance(all, c, s[n])
    <3> HIDE DEF s, N, all
    <3> QED
      BY <2>1, <1>3
  <2> HIDE DEF s
  <2> QED
    BY <2>1, <2>2, WhereOn
<1>9. N \in S
  <2> HIDE DEF S
  <2> QED
    BY <1>1, <1>7, <1>8, EveryNumber
<1>10. Where(d, insts, c, u)
  <2> HIDE DEF s, N
  <2> QED
    BY <1>1, <1>9
<1> HIDE DEF u
<1>11. ASSUME NEW b \in 0 .. k, NEW j \in 1 .. 5, InFront(d, c, u, b, j)
       PROVE  u.reg[0] = 1 /\ \E q \in 1 .. Len(d) : Concerns(d[q], c)
  <2>1. all[u.pc] = IF b = 0 THEN InitProgram[j] ELSE RuleInst(d[b], j, Offset(6 - j))
    <3>1. u.pc = 5 * b + j
      BY <1>11 DEF InFront
    <3>2. Len(insts) \in Nat /\ b \in 0 .. Len(d)
      BY <1>1
    <3>3. Joined(d, insts)[5 * b + j] = IF b = 0 THEN InitProgram[j] ELSE RuleInst(d[b], j, Offset(6 - j))
      BY <3>2, JoinedAt
    <3> QED
      BY <3>1, <3>3
  <2> HIDE DEF all
  <2>2. b # 0
    BY <2>1, <1>4, InitReads
  <2>3. j = 5
    <3>1. j \in 1 .. 3 => all[u.pc].op = "jne"
      BY <2>1, <2>2, RuleReads
    <3>2. j = 4 => all[u.pc].op = "mov"
      BY <2>1, <2>2, RuleReads
    <3> QED
      BY <3>1, <3>2, <1>4
  <2>4. /\ c.type = DevChar /\ c.major = d[b].major /\ c.minor = d[b].minor
        /\ Holds(u.reg, 0, 1)
    BY <2>2, <2>3, <1>11 DEF InFront
  <2>5. b \in 1 .. Len(d) /\ d[b] \in DeviceRule
    BY <2>2, <1>1
  <2>6. Concerns(d[b], c)
    BY <2>4, <2>5, ConcernsIs
  <2> QED
    BY <2>4, <2>5, <2>6 DEF Holds
<1>12. ASSUME Passed(d, c, k), NEW n \in 0 .. L, Agrees(t[n], u, m)
       PROVE  u.reg[0] = t[L].reg[0] /\ ~\E q \in 1 .. Len(d) : Concerns(d[q], c)
  <2>1. Underway(insts, t[n], n)
    BY TraceUnderway
  <2>2. t[n].pc \in 1 .. L /\ u.pc = m + t[n].pc
    BY <2>1, <1>12 DEF Underway, Agrees
  <2>3. all[u.pc] = insts[t[n].pc]
    BY <2>2, <1>1, JoinedTail
  <2>4. insts[t[n].pc].op = "exit"
    BY <2>3, <1>4
  <2>5. t[L] = t[n]
    BY <2>4, TraceEnds
  <2>6. 0 \in DOMAIN t[n].reg
    <3>1. Annotated(insts, Written(insts))
      BY <1>1, VerifiedAnnotates
    <3>2. Reads(insts[t[n].pc]) = {0}
      BY <2>4 DEF Reads
    <3> HIDE DEF t
    <3> QED
      BY <3>1, <3>2, <2>1, <2>2 DEF Annotated, Underway
  <2>7. u.reg[0] = t[n].reg[0]
    <3> HIDE DEF t, m
    <3> QED
      BY <2>6, <1>12 DEF Agrees
  <2> QED
    BY <2>5, <2>7, <1>12 DEF Passed
<1>13. (\E b \in 0 .. k, j \in 1 .. 5 : InFront(d, c, u, b, j))
       \/ (Passed(d, c, k) /\ \E n \in 0 .. L : Agrees(t[n], u, m))
  BY <1>10 DEF Where
<1> HIDE DEF all, L, t, m, k
<1>14. CASE \E b \in 0 .. k, j \in 1 .. 5 : InFront(d, c, u, b, j)
  <2>1. u.reg[0] = 1 /\ \E q \in 1 .. Len(d) : Concerns(d[q], c)
    BY <1>11, <1>14
  <2> QED
    BY <2>1, <1>5 DEF all
<1>15. CASE Passed(d, c, k) /\ \E n \in 0 .. L : Agrees(t[n], u, m)
  <2>1. u.reg[0] = t[L].reg[0] /\ ~\E q \in 1 .. Len(d) : Concerns(d[q], c)
    BY <1>12, <1>15
  <2> QED
    BY <2>1, <1>5, <1>6 DEF all
<1> QED
  BY <1>13, <1>14, <1>15

LEMMA NewProgramOfNone == NewProgram = ProgramOf(<<>>)
<1>1. Len(<<>>) = 0 /\ <<>> \in Seq(DeviceRule)
  OBVIOUS
<1>2. DOMAIN Built(<<>>) = 1 .. 5
  BY <1>1 DEF Built
<1>3. ASSUME NEW j \in 1 .. 5 PROVE Built(<<>>)[j] = InitProgram[j]
  <2>1. 0 \in 0 .. Len(<<>>)
    BY <1>1
  <2>2. \A s \in 0 .. Len(<<>>) : s = 0 => Built(<<>>)[5 * s + j] = InitProgram[j]
    <3> DEFINE d == <<>>
    <3>1. d \in Seq(DeviceRule)
      BY <1>1
    <3> HIDE DEF d
    <3>2. \A s \in 0 .. Len(d) : s = 0 => Built(d)[5 * s + j] = InitProgram[j]
      BY <3>1, BuiltAt
    <3> QED
      BY <3>2 DEF d
  <2>3. 5 * 0 + j = j
    OBVIOUS
  <2> QED
    BY <2>1, <2>2, <2>3
<1>4. Built(<<>>) = [j \in 1 .. 5 |-> InitProgram[j]]
  <2>1. Built(<<>>) = [j \in 1 .. 5 |-> Built(<<>>)[j]]
    BY <1>2 DEF Built
  <2> QED
    BY <2>1, <1>3
<1>5. InitProgram = [j \in 1 .. 5 |-> InitProgram[j]]
  <2>1. InitProgram \in Seq({InitProgram[j] : j \in 1 .. 5}) /\ Len(InitProgram) = 5
    BY InitInstIs DEF InitProgram
  <2> QED
    BY <2>1
<1> QED
  BY <1>1, <1>4, <1>5 DEF NewProgram, ProgramOf

(***************************************************************************)
(* The machine: a program under construction is the program of the rules   *)
(* taken so far, and what is attached decides as the rules of the calls    *)
(* and the engine's own program.                                           *)
(***************************************************************************)
DecidesFor(devs) ==
  \A c \in Context :
    Decides(attached, c) <=> Decides(original, c) \/ \E dev \in devs : Concerns(dev, c)

Taking(d, base) ==
  /\ prog = ProgramOf(d)
  /\ added = base \cup {d[q] : q \in 1 .. Len(d)}
  /\ DecidesFor(base)

DeviceInv ==
  /\ original \in Programs
  /\ pending \in Seq(DeviceRule)
  /\ later \in Seq(Seq(DeviceRule))
  /\ Loaded(attached)
  /\ (attached = NoProgram /\ original = NoProgram) \/ Verified(attached)
  /\ phase \in {"build", "attached", "refused", "run", "exit"}
  /\ phase = "build" => \E d \in Seq(DeviceRule) : \E base : Taking(d, base)
  /\ phase \in {"attached", "run", "exit"} => Verified(attached) /\ DecidesFor(added)
  /\ phase = "refused" => original = NoProgram
  /\ phase \in {"run", "exit"} =>
       ctx \in Contexts /\ \E n \in 0 .. Len(attached) : run = Trace(attached, ctx)[n]
  /\ phase = "exit" => attached[run.pc].op = "exit"

LEMMA DeviceInitially == ASSUME DeviceInit PROVE DeviceInv
<1>1. PICK lists \in [1 .. 2 -> RuleLists] : later = <<lists[2]>> /\ pending = lists[1]
  BY DEF DeviceInit
<1>2. lists[1] \in Seq(DeviceRule) /\ lists[2] \in Seq(DeviceRule)
  BY RulesAssumption
<1>3. pending \in Seq(DeviceRule) /\ later \in Seq(Seq(DeviceRule))
  BY <1>1, <1>2
<1>4. original \in Programs /\ attached = original /\ prog = NewProgram /\ added = {} /\ phase = "build"
  BY DEF DeviceInit
<1>5. Loaded(attached) /\ ((attached = NoProgram /\ original = NoProgram) \/ Verified(attached))
  BY <1>4, ProgramsAssumption
<1>6. Taking(<<>>, {})
  <2>1. DecidesFor({})
    BY <1>4 DEF DecidesFor
  <2>2. {<<>>[q] : q \in 1 .. Len(<<>>)} = {}
    OBVIOUS
  <2> QED
    BY <1>4, <2>1, <2>2, NewProgramOfNone DEF Taking
<1>7. \E d \in Seq(DeviceRule) : \E base : Taking(d, base)
  <2>1. <<>> \in Seq(DeviceRule)
    OBVIOUS
  <2> QED
    BY <1>6, <2>1
<1> QED
  BY <1>3, <1>4, <1>5, <1>7 DEF DeviceInv

LEMMA AppendOn == ASSUME DeviceInv, Append1 PROVE DeviceInv'
<1> USE DEF Append1
<1>1. PICK d \in Seq(DeviceRule) : \E base : Taking(d, base)
  BY DEF DeviceInv
<1>2. PICK base : Taking(d, base)
  BY <1>1
<1>3. PICK dev, e : dev = Last(pending) /\ e = Append(d, dev)
  OBVIOUS
<1>4. pending \in Seq(DeviceRule) /\ pending # <<>>
  BY DEF DeviceInv
<1>5. dev \in DeviceRule /\ Front(pending) \in Seq(DeviceRule)
  BY <1>3, <1>4 DEF Last, Front
<1>6. e \in Seq(DeviceRule) /\ Len(e) = Len(d) + 1 /\ Len(d) \in Nat
      /\ (\A q \in 1 .. Len(d) : e[q] = d[q]) /\ e[Len(d) + 1] = dev
  BY <1>3, <1>5
<1>7. prog' = ProgramOf(e)
  <2>1. AppendDevice(ProgramOf(d), dev) = ProgramOf(Append(d, dev))
    BY <1>5, AppendBuilt
  <2> QED
    BY <2>1, <1>3, <1>2 DEF Taking
<1>8. added' = base \cup {e[q] : q \in 1 .. Len(e)}
  <2>1. added' = (base \cup {d[q] : q \in 1 .. Len(d)}) \cup {dev}
    BY <1>3, <1>2 DEF Taking
  <2>2. {e[q] : q \in 1 .. Len(e)} = {d[q] : q \in 1 .. Len(d)} \cup {dev}
    <3>1. \A q \in 1 .. Len(e) : q \in 1 .. Len(d) \/ q = Len(d) + 1
      BY <1>6
    <3>2. \A q \in 1 .. Len(d) : q \in 1 .. Len(e)
      BY <1>6
    <3>3. Len(d) + 1 \in 1 .. Len(e)
      BY <1>6
    <3> QED
      BY <3>1, <3>2, <3>3, <1>6
  <2> QED
    BY <2>1, <2>2
<1>9. Taking(e, base)'
  BY <1>2, <1>7, <1>8 DEF Taking, DecidesFor
<1>10. (\E x \in Seq(DeviceRule) : \E b : Taking(x, b))'
  BY <1>6, <1>9
<1> QED
  BY <1>3, <1>5, <1>10 DEF DeviceInv

\* The program loaded for the rules of this call: the same as the one the
\* lemmas are about.
LEMMA LoadedFor ==
  ASSUME NEW d \in Seq(DeviceRule), NEW base, Taking(d, base), Loaded(attached)
  PROVE  Resolve(Finalize(prog, attached)) = Joined(d, attached)
BY ResolveJoins DEF Taking

LEMMA LoadOn == ASSUME DeviceInv, Load PROVE DeviceInv'
<1>1. PICK d \in Seq(DeviceRule) : \E base : Taking(d, base)
  BY DEF DeviceInv, Load
<1>2. PICK base : Taking(d, base)
  BY <1>1
<1> DEFINE insts == Resolve(Finalize(prog, attached))
<1>3. Loaded(attached)
  BY DEF DeviceInv
<1>4. insts = Joined(d, attached) /\ Loaded(insts)
  BY <1>2, <1>3, LoadedFor, JoinedLoaded
<1>5. (attached = NoProgram /\ original = NoProgram) \/ Verified(attached)
  BY DEF DeviceInv
<1>6. Verified(insts) <=> Verified(attached)
  <2>1. CASE Verified(attached)
    <3>1. Verified(Joined(d, attached))
      BY <2>1, <1>3, JoinedVerifies
    <3> QED
      BY <2>1, <3>1, <1>4
  <2>2. CASE attached = NoProgram /\ original = NoProgram
    <3>1. ~Verified(Joined(d, NoProgram))
      BY NoneRefused
    <3>2. ~Verified(insts)
      BY <3>1, <2>2, <1>4
    <3>3. ~Verified(NoProgram)
      BY JoinedVerifies, NoProgramLoaded, <3>1
    <3> QED
      BY <3>2, <3>3, <2>2
  <2> QED
    BY <2>1, <2>2, <1>5
<1> HIDE DEF insts
<1>7. CASE Verified(insts)
  <2>1. phase' = "attached" /\ attached' = insts /\ UNCHANGED <<original, later, pending, added>>
    BY <1>7 DEF Load, insts
  <2>2. ASSUME NEW c \in Context
        PROVE  Decides(insts, c) <=> Decides(original, c) \/ \E dev \in added : Concerns(dev, c)
    <3>1. Decides(Joined(d, attached), c)
            <=> Decides(attached, c) \/ \E q \in 1 .. Len(d) : Concerns(d[q], c)
      BY <1>3, <1>6, <1>7, JoinedDecides
    <3>2. Decides(attached, c) <=> Decides(original, c) \/ \E dev \in base : Concerns(dev, c)
      BY <1>2 DEF Taking, DecidesFor
    <3>3. added = base \cup {d[q] : q \in 1 .. Len(d)}
      BY <1>2 DEF Taking
    <3>4. (\E dev \in added : Concerns(dev, c))
            <=> (\E dev \in base : Concerns(dev, c)) \/ \E q \in 1 .. Len(d) : Concerns(d[q], c)
      BY <3>3, Zenon
    <3> QED
      BY <1>4, <3>1, <3>2, <3>4
  <2>3. DecidesFor(added)'
    BY <2>1, <2>2 DEF DecidesFor
  <2>4. Verified(attached)' /\ Loaded(attached)'
    BY <1>4, <1>7, <2>1
  <2> QED
    BY <2>1, <2>3, <2>4 DEF DeviceInv
<1>8. CASE ~Verified(insts)
  <2>1. phase' = "refused" /\ UNCHANGED <<original, attached, later, pending>>
    BY <1>8 DEF Load, insts
  <2>2. original = NoProgram
    BY <1>5, <1>6, <1>8
  <2> QED
    BY <2>1, <2>2 DEF DeviceInv
<1> QED
  BY <1>7, <1>8

LEMMA NextCallOn == ASSUME DeviceInv, NextCall PROVE DeviceInv'
<1> USE DEF NextCall
<1>1. Verified(attached) /\ DecidesFor(added) /\ later \in Seq(Seq(DeviceRule)) /\ later # <<>>
  BY DEF DeviceInv
<1>2. Head(later) \in Seq(DeviceRule) /\ Tail(later) \in Seq(Seq(DeviceRule))
  <2> DEFINE Lists == Seq(DeviceRule)
  <2>1. later \in Seq(Lists) /\ later # <<>>
    BY <1>1
  <2> HIDE DEF Lists
  <2>2. Head(later) \in Lists /\ Tail(later) \in Seq(Lists)
    BY <2>1
  <2> QED
    BY <2>2 DEF Lists
<1>3. Taking(<<>>, added)'
  <2>1. prog' = ProgramOf(<<>>)
    BY NewProgramOfNone
  <2>2. {<<>>[q] : q \in 1 .. Len(<<>>)} = {}
    OBVIOUS
  <2>3. DecidesFor(added)'
    BY <1>1 DEF DecidesFor
  <2> QED
    BY <2>1, <2>2, <2>3 DEF Taking
<1>4. (\E d \in Seq(DeviceRule) : \E base : Taking(d, base))'
  <2>1. <<>> \in Seq(DeviceRule)
    OBVIOUS
  <2> QED
    BY <1>3, <2>1
<1> QED
  BY <1>2, <1>4 DEF DeviceInv

LEMMA AskOn == ASSUME DeviceInv, Ask PROVE DeviceInv'
<1> USE DEF Ask
<1>1. Verified(attached) /\ DecidesFor(added) /\ Loaded(attached)
  BY DEF DeviceInv
<1>2. DecidesFor(added)'
  BY <1>1 DEF DecidesFor
<1>3. Trace(attached, ctx')[0] = Begin /\ 0 \in 0 .. Len(attached)
  BY <1>1, LoadedIs, TraceDefined
<1>4. ctx' \in Contexts /\ (\E n \in 0 .. Len(attached) : run = Trace(attached, ctx)[n])'
  BY <1>3
<1> QED
  BY <1>1, <1>2, <1>4 DEF DeviceInv

LEMMA StepOn == ASSUME DeviceInv, Step PROVE DeviceInv'
<1> USE DEF Step
<1> DEFINE L == Len(attached)
           t == Trace(attached, ctx)
<1>1. Verified(attached) /\ DecidesFor(added) /\ Loaded(attached) /\ ctx \in Contexts
  BY DEF DeviceInv
<1>2. PICK n \in 0 .. L : run = t[n]
  BY DEF DeviceInv
<1>3. L \in Nat
  BY <1>1, LoadedIs
<1>4. CASE attached[run.pc].op = "exit"
  <2>1. run' = run /\ phase' = "exit"
    BY <1>4, ExitStays
  <2>2. (\E e \in 0 .. Len(attached) : run = Trace(attached, ctx)[e])'
    BY <1>2, <2>1
  <2>3. (attached[run.pc].op = "exit")'
    BY <1>4, <2>1
  <2>4. DecidesFor(added)'
    BY <1>1 DEF DecidesFor
  <2> QED
    BY <1>1, <2>1, <2>2, <2>3, <2>4 DEF DeviceInv
<1>5. CASE attached[run.pc].op # "exit"
  <2>1. n # L
    BY <1>1, <1>2, <1>5, TraceUnderway
  <2>2. n + 1 \in 1 .. L /\ n + 1 - 1 = n /\ n + 1 \in 0 .. L
    BY <1>3, <2>1
  <2>3. \A e \in 1 .. L : t[e] = Advance(attached, ctx, t[e - 1])
    BY <1>3, TraceDefined
  <2>4. run' = t[n + 1] /\ phase' = "run"
    <3> HIDE DEF t, L
    <3> QED
      BY <1>2, <1>5, <2>2, <2>3
  <2>5. (\E e \in 0 .. Len(attached) : run = Trace(attached, ctx)[e])'
    BY <2>2, <2>4
  <2>6. DecidesFor(added)'
    BY <1>1 DEF DecidesFor
  <2> QED
    BY <1>1, <2>4, <2>5, <2>6 DEF DeviceInv
<1> QED
  BY <1>4, <1>5

LEMMA DeviceOn == ASSUME DeviceInv, [DeviceNext]_deviceVars PROVE DeviceInv'
<1>1. CASE Append1
  BY <1>1, AppendOn
<1>2. CASE Load
  BY <1>2, LoadOn
<1>3. CASE NextCall
  BY <1>3, NextCallOn
<1>4. CASE Ask
  BY <1>4, AskOn
<1>5. CASE Step
  BY <1>5, StepOn
<1>6. CASE UNCHANGED deviceVars
  BY <1>6 DEF deviceVars, DeviceInv, Taking, DecidesFor
<1> QED
  BY <1>1, <1>2, <1>3, <1>4, <1>5, <1>6 DEF DeviceNext

LEMMA DecidesInside == ASSUME DeviceInv PROVE DecidesAsRules
<1> SUFFICES ASSUME phase = "exit"
             PROVE  run.reg[0] = 1 <=> Decides(original, ctx) \/ \E dev \in added : Concerns(dev, ctx)
  BY DEF DecidesAsRules
<1>1. Loaded(attached) /\ DecidesFor(added) /\ ctx \in Contexts /\ attached[run.pc].op = "exit"
  BY DEF DeviceInv
<1>2. PICK n \in 0 .. Len(attached) : run = Trace(attached, ctx)[n]
  BY DEF DeviceInv
<1>3. ctx \in Context
  BY <1>1, ContextsAssumption
<1>4. Trace(attached, ctx)[Len(attached)] = run
  BY <1>1, <1>2, TraceEnds
<1>5. Decides(attached, ctx) <=> run.reg[0] = 1
  BY <1>1, <1>4, LoadedIs, TraceDefined
<1> QED
  BY <1>1, <1>3, <1>5 DEF DecidesFor

\* In every behaviour an inductive invariant holds: what is built is the program
\* of the rules taken so far, and what is attached decides as the rules of the
\* calls and the engine's program do (AddDeviceRules, generateNewProgram).
THEOREM DeviceInvariant == DeviceSpec => []DeviceInv
<1>1. DeviceInit => DeviceInv
  BY DeviceInitially
<1>2. DeviceInv /\ [DeviceNext]_deviceVars => DeviceInv'
  BY DeviceOn
<1> QED
  BY <1>1, <1>2, PTL DEF DeviceSpec

\* The kernel takes every program generated from one of an engine, for any
\* lists of rules and any program it has taken, however it was written; it is
\* only where none was attached that the generated one is refused
\* (generateNewProgram).
THEOREM FilterLoads == DeviceSpec => []ProgramLoads
<1>1. DeviceInv => ProgramLoads
  BY DEF DeviceInv, ProgramLoads
<1> QED
  BY <1>1, DeviceInvariant, PTL

\* For any lists of rules, any program of an engine and any access, what is
\* attached after the calls of AddDeviceRules allows what one of their rules
\* concerns or the engine's program allows, and nothing else
\* (PrependDeviceFilter).
THEOREM FilterDecides == DeviceSpec => []DecidesAsRules
<1>1. DeviceInv => DecidesAsRules
  BY DecidesInside
<1> QED
  BY <1>1, DeviceInvariant, PTL

=============================================================================
