--------------------------- MODULE InterfacesProofs ---------------------------
(***************************************************************************)
(* Proofs about module Interfaces, for any number of containers, pods and  *)
(* interfaces: a cli works on a macvlan of its own, and a container that   *)
(* has started has all of its interfaces.                                  *)
(***************************************************************************)
EXTENDS Interfaces, WellFoundedInduction, TLAPS

(***************************************************************************)
(* The loop has a next interface as long as one is left.                   *)
(***************************************************************************)
LEMMA LessThan ==
  \E R : IsWellFoundedOn(R, Nat) /\ \A x, y \in Nat : <<y, x>> \in R <=> y < x
<1>1. \A x, y \in Nat : <<y, x>> \in OpToRel(<, Nat) <=> y < x
  BY DEF OpToRel
<1> QED
  BY <1>1, NatLessThanWellFounded

LEMMA MinIsMember ==
  ASSUME NEW S \in SUBSET Nat, S # {}
  PROVE  Min(S) \in S /\ \A y \in S : Min(S) <= y
<1>1. PICK R : IsWellFoundedOn(R, Nat) /\ \A x, y \in Nat : <<y, x>> \in R <=> y < x
  BY LessThan
<1>2. PICK x \in S : \A y \in S : <<y, x>> \notin R
  BY <1>1, WFMin
<1>3. ASSUME NEW y \in S PROVE x <= y
  <2>1. x \in Nat /\ y \in Nat
    OBVIOUS
  <2>2. <<y, x>> \notin R /\ (<<y, x>> \in R <=> y < x)
    BY <1>1, <1>2, <2>1, Zenon
  <2> QED
    BY <2>1, <2>2
<1> QED
  BY <1>3 DEF Min

(***************************************************************************)
(* The invariant.  Every macvlan in a clean namespace is complete, except  *)
(* the one its cli has at hand; of that one is known how far it has come.  *)
(***************************************************************************)
Working(n) == pc[n] \in Busy \ {"loop", "link"}

Types ==
  /\ state \in [Link -> {"up", "down", "gone"}] /\ asked \in [Netns -> SUBSET Link]
  /\ macvlan \in [Link -> Macvlan \cup {NoLink}]
  /\ pc \in [Netns -> Busy \cup {"idle", "started", "failed"}]
  /\ left \in [Netns -> SUBSET Link] /\ at \in [Netns -> Link \cup {NoLink}]
  /\ clean \in [Netns -> BOOLEAN] /\ carried \in [Netns -> SUBSET Link]
  /\ \A n \in Netns : pc[n] \in Busy \ {"loop"} => at[n] \in Link

Here(l, n) == macvlan[l] # NoLink /\ macvlan[l].ns = n

GoneTakesMacvlan == \A l \in Link : state[l] = "gone" => macvlan[l] = NoLink

WorksOnOwn == \A n \in Netns : Working(n) /\ state[at[n]] # "gone" => Here(at[n], n)

HowFar ==
  \A n \in Netns : pc[n] \in {"address", "setUp", "route"} /\ macvlan[at[n]] # NoLink =>
    /\ macvlan[at[n]].own
    /\ pc[n] # "address" => (peer[at[n]] = "peer" => macvlan[at[n]].addr)
    /\ pc[n] = "route" => macvlan[at[n]].up

CleanIsComplete ==
  \A n \in Netns, l \in Link :
    clean[n] /\ Here(l, n) /\ ~(Working(n) /\ at[n] = l) => Complete(l, n)

CarriedIsHere ==
  \A n \in Netns : pc[n] # "idle" =>
    \A l \in carried[n] : state[l] # "gone" => Here(l, n)

IfaceInv ==
  Types /\ GoneTakesMacvlan /\ WorksOnOwn /\ HowFar /\ CleanIsComplete /\ CarriedIsHere

LEMMA IfaceInit == Init => IfaceInv
BY DEF Init, IfaceInv, Types, GoneTakesMacvlan, WorksOnOwn, HowFar, CleanIsComplete,
       CarriedIsHere, Here, Working, Busy

\* An error is returned: the macvlan stays, the namespace is not clean any more.
LEMMA ReturnKeeps == ASSUME IfaceInv, NEW n \in Netns, pc[n] \in Busy, Return(n) PROVE IfaceInv'
<1> USE DEF IfaceInv, Return, Goto, hostVars, fixed
<1>1. /\ pc'[n] = "failed" /\ ~clean'[n]
      /\ \A m \in Netns \ {n} : pc'[m] = pc[m] /\ clean'[m] = clean[m]
  BY DEF Types
<1>2. Types'
  BY DEF Types, Busy
<1>3. GoneTakesMacvlan' /\ WorksOnOwn'
  BY <1>1 DEF GoneTakesMacvlan, WorksOnOwn, Working, Here, Busy
<1>4. HowFar' /\ CleanIsComplete'
  BY <1>1 DEF HowFar, CleanIsComplete, Working, Here, Complete, Busy
<1>5. CarriedIsHere'
  BY <1>1 DEF CarriedIsHere, Here, Busy
<1> QED
  BY <1>2, <1>3, <1>4, <1>5

\* A macvlan is changed by the cli that has it at hand, or a place without one filled.
Remade(n, next, link) ==
  /\ macvlan' = [macvlan EXCEPT ![at[n]] = link]
  /\ pc' = [pc EXCEPT ![n] = next]
  /\ UNCHANGED <<hostVars, asked, left, at, clean>>

LEMMA RemadeKeeps ==
  ASSUME IfaceInv, NEW n \in Netns, NEW next \in {"loop", "query", "address", "setUp", "route"},
         NEW link \in Macvlan, Remade(n, next, link), pc[n] \in Busy \ {"loop"},
         link.ns = n, state[at[n]] # "gone",
         \/ macvlan[at[n]] = NoLink /\ next = "query"
         \/ Working(n) /\ macvlan[at[n]] # NoLink,
         next \in {"address", "setUp", "route"} =>
           /\ link.own
           /\ next # "address" => (peer[at[n]] = "peer" => link.addr)
           /\ next = "route" => link.up,
         next = "loop" => link.own /\ link.up /\ (peer[at[n]] = "peer" => link.addr /\ link.routed),
         carried' \in {carried, [carried EXCEPT ![n] = @ \cup {at[n]}]}
  PROVE  IfaceInv'
<1> USE DEF IfaceInv, Remade, hostVars
<1> DEFINE l == at[n]
<1>0. l \in Link /\ link # NoLink
  BY NoLinkApart DEF Types
<1>1. /\ pc'[n] = next /\ \A m \in Netns \ {n} : pc'[m] = pc[m]
      /\ macvlan'[l] = link /\ \A k \in Link \ {l} : macvlan'[k] = macvlan[k]
      /\ at' = at /\ state' = state /\ peer' = peer /\ clean' = clean
  BY <1>0 DEF Types
<1>2. ASSUME NEW m \in Netns \ {n}, Working(m), at[m] = l PROVE FALSE
  BY <1>2 DEF WorksOnOwn, Here
<1>3. Types'
  BY <1>0 DEF Types, Busy
<1>4. GoneTakesMacvlan'
  BY <1>1 DEF GoneTakesMacvlan
<1>5. WorksOnOwn'
  <2> SUFFICES ASSUME NEW m \in Netns, Working(m)', state'[at'[m]] # "gone" PROVE Here(at[m], m)'
    BY DEF WorksOnOwn
  <2>1. CASE m = n
    BY <1>0, <1>1, <2>1 DEF Here
  <2>2. CASE m # n
    <3>1. Working(m) /\ at[m] \in Link
      BY <1>1, <2>2 DEF Working, Types
    <3>2. at[m] # l
      BY <1>2, <2>2, <3>1
    <3> QED
      BY <1>1, <3>1, <3>2 DEF WorksOnOwn, Here
  <2> QED
    BY <2>1, <2>2
<1>6. HowFar'
  <2> SUFFICES ASSUME NEW m \in Netns, pc'[m] \in {"address", "setUp", "route"},
                      macvlan'[at'[m]] # NoLink
               PROVE  /\ macvlan'[at[m]].own
                      /\ pc'[m] # "address" => (peer[at[m]] = "peer" => macvlan'[at[m]].addr)
                      /\ pc'[m] = "route" => macvlan'[at[m]].up
    BY <1>1 DEF HowFar
  <2>1. CASE m = n
    BY <1>1, <2>1
  <2>2. CASE m # n
    <3>1. Working(m) /\ at[m] \in Link /\ pc'[m] = pc[m]
      BY <1>1, <2>2 DEF Working, Types, Busy
    <3>2. at[m] # l
      BY <1>2, <2>2, <3>1
    <3> QED
      BY <1>1, <3>1, <3>2 DEF HowFar
  <2> QED
    BY <2>1, <2>2
<1>7. CleanIsComplete'
  <2> SUFFICES ASSUME NEW m \in Netns, NEW k \in Link, clean'[m], Here(k, m)',
                      ~(Working(m)' /\ at'[m] = k)
               PROVE  Complete(k, m)'
    BY DEF CleanIsComplete
  <2>1. CASE k = l
    <3>1. m = n
      BY <1>1, <2>1 DEF Here
    <3>2. next = "loop"
      BY <1>1, <2>1, <3>1 DEF Working, Busy
    <3> QED
      BY <1>0, <1>1, <2>1, <3>1, <3>2 DEF Complete
  <2>2. CASE k # l
    <3>1. Here(k, m) /\ ~(Working(m) /\ at[m] = k)
      BY <1>1, <2>2 DEF Here, Working
    <3> QED
      BY <1>1, <2>2, <3>1 DEF CleanIsComplete, Complete
  <2> QED
    BY <2>1, <2>2
<1>8. CarriedIsHere'
  <2> SUFFICES ASSUME NEW m \in Netns, pc'[m] # "idle", NEW k \in carried'[m],
                      state'[k] # "gone"
               PROVE  Here(k, m)'
    BY DEF CarriedIsHere
  <2>0. k \in Link /\ (k \in carried[m] \/ (m = n /\ k = l)) /\ pc[m] # "idle"
    BY <1>0, <1>1, <1>3 DEF Types, Busy
  <2>1. CASE k = l /\ m = n
    BY <1>0, <1>1, <2>1 DEF Here
  <2>2. CASE k # l
    BY <1>1, <2>0, <2>2 DEF CarriedIsHere, Here
  <2>3. CASE k = l /\ m # n
    <3>1. Here(l, m)
      BY <1>1, <2>0, <2>3 DEF CarriedIsHere
    <3> QED
      BY <2>3, <3>1 DEF WorksOnOwn, Here
  <2> QED
    BY <2>1, <2>2, <2>3
<1> QED
  BY <1>3, <1>4, <1>5, <1>6, <1>7, <1>8

\* The cli moves on and leaves the macvlans as they are.
LEMMA GotoKeeps ==
  ASSUME IfaceInv, NEW n \in Netns, pc[n] \in Busy,
         NEW next \in {"loop", "rename", "started"}, Goto(n, next), UNCHANGED macvlan,
         clean' \in {clean, [clean EXCEPT ![n] = FALSE]},
         next = "rename" => pc[n] = "query",
         pc[n] # "query" /\ Working(n) => ~clean'[n],
         pc[n] = "query" => next = "rename",
         \/ UNCHANGED carried
         \/ Here(at[n], n) /\ at[n] \in Link /\ carried' = [carried EXCEPT ![n] = @ \cup {at[n]}]
  PROVE  IfaceInv'
<1> USE DEF IfaceInv, Goto, hostVars, fixed
<1>1. /\ pc'[n] = next /\ \A m \in Netns \ {n} : pc'[m] = pc[m] /\ clean'[m] = clean[m]
      /\ clean'[n] => clean[n]
      /\ UNCHANGED <<state, peer, at, macvlan>>
  BY DEF Types
<1>2. Types'
  <2>1. carried' \in [Netns -> SUBSET Link]
    BY DEF Types
  <2>2. clean' \in [Netns -> BOOLEAN] /\ pc' \in [Netns -> Busy \cup {"idle", "started", "failed"}]
    BY DEF Types, Busy
  <2>3. \A m \in Netns : pc'[m] \in Busy \ {"loop"} => at[m] \in Link
    BY <1>1 DEF Types, Busy
  <2> QED
    BY <2>1, <2>2, <2>3 DEF Types
<1>3. GoneTakesMacvlan' /\ WorksOnOwn'
  BY <1>1 DEF GoneTakesMacvlan, WorksOnOwn, Working, Here, Busy
<1>4. HowFar'
  BY <1>1 DEF HowFar
<1>5. CleanIsComplete'
  BY <1>1 DEF CleanIsComplete, Working, Here, Complete, Busy
<1>6. CarriedIsHere'
  <2> SUFFICES ASSUME NEW m \in Netns, pc'[m] # "idle", NEW k \in carried'[m],
                      state'[k] # "gone"
               PROVE  Here(k, m)'
    BY DEF CarriedIsHere
  <2>1. (k \in carried[m] \/ (m = n /\ k = at[n] /\ Here(at[n], n))) /\ pc[m] # "idle"
    BY <1>1 DEF Types, Busy
  <2> QED
    BY <1>1, <2>1 DEF CarriedIsHere, Here
<1> QED
  BY <1>2, <1>3, <1>4, <1>5, <1>6

LEMMA TakeKeeps == ASSUME IfaceInv, NEW n \in Netns, Take(n) PROVE IfaceInv'
<1> USE DEF IfaceInv, Take, NextIn, hostVars, fixed
<1>1. Min(left[n]) \in Link /\ left[n] \ {Min(left[n])} \subseteq Link
  <2>1. left[n] \in SUBSET Link /\ left[n] \in SUBSET Nat /\ left[n] # {}
    BY InterfacesTyped DEF Types
  <2> QED
    BY <2>1, MinIsMember
<1> DEFINE l == Min(left[n])
<1>2. at' = [at EXCEPT ![n] = l] /\ left' = [left EXCEPT ![n] = @ \ {l}]
  OBVIOUS
<1> HIDE DEF l
<1>3. /\ pc[n] = "loop" /\ pc'[n] = "link" /\ at'[n] = l
      /\ \A m \in Netns \ {n} : pc'[m] = pc[m] /\ at'[m] = at[m]
      /\ UNCHANGED <<state, peer, macvlan, clean, carried>>
  BY <1>2 DEF Types
<1>4. Types'
  BY <1>1, <1>2, <1>3 DEF Types, Busy, l
<1>5. GoneTakesMacvlan' /\ WorksOnOwn' /\ HowFar'
  BY <1>3 DEF GoneTakesMacvlan, WorksOnOwn, HowFar, Working, Here
<1>6. CleanIsComplete'
  BY <1>3 DEF CleanIsComplete, Working, Here, Complete
<1>7. CarriedIsHere'
  BY <1>3 DEF CarriedIsHere, Here
<1> QED
  BY <1>4, <1>5, <1>6, <1>7

LEMMA CreateKeeps == ASSUME IfaceInv, NEW n \in Netns, Create(n) PROVE IfaceInv'
<1> USE DEF IfaceInv, Create, hostVars
<1>1. /\ pc[n] = "idle" /\ pc'[n] = "loop" /\ carried'[n] = {}
      /\ \A m \in Netns \ {n} : pc'[m] = pc[m] /\ carried'[m] = carried[m]
      /\ UNCHANGED <<state, peer, macvlan, at, clean>>
  BY DEF Types
<1>2. Types'
  BY <1>1 DEF Types, Busy
<1>3. GoneTakesMacvlan' /\ WorksOnOwn' /\ HowFar'
  BY <1>1 DEF GoneTakesMacvlan, WorksOnOwn, HowFar, Working, Here
<1>4. CleanIsComplete'
  BY <1>1 DEF CleanIsComplete, Working, Here, Complete, Busy
<1>5. CarriedIsHere'
  BY <1>1 DEF CarriedIsHere, Here
<1> QED
  BY <1>2, <1>3, <1>4, <1>5

\* With its namespace go the macvlans in it, and no others.
LEMMA EndKeeps == ASSUME IfaceInv, NEW n \in Netns, End(n) PROVE IfaceInv'
<1> USE DEF IfaceInv, End, hostVars, fixed
<1>1. /\ pc[n] \in {"started", "failed"} /\ pc'[n] = "idle"
      /\ \A m \in Netns \ {n} : pc'[m] = pc[m]
      /\ UNCHANGED <<state, peer, at, carried>>
  BY DEF Types
<1>2. \A m \in Netns \ {n} : clean'[m] = clean[m]
  BY DEF Types
<1>3. \A l \in Link : macvlan'[l] = macvlan[l] \/ (Here(l, n) /\ macvlan'[l] = NoLink)
  BY DEF Here
<1>4. ASSUME n \notin Pod, NEW l \in Link PROVE ~Here(l, n)'
  BY <1>4 DEF Here
<1>5. n \in Pod => UNCHANGED <<macvlan, clean>>
  OBVIOUS
<1>6. Types'
  <2>1. macvlan' \in [Link -> Macvlan \cup {NoLink}] /\ clean' \in [Netns -> BOOLEAN]
    BY DEF Types
  <2> QED
    BY <1>1, <2>1 DEF Types, Busy
<1>7. ASSUME NEW m \in Netns \ {n}, NEW l \in Link, Here(l, m) PROVE macvlan'[l] = macvlan[l]
  BY <1>3, <1>7 DEF Here
<1>8. GoneTakesMacvlan'
  BY <1>1, <1>3 DEF GoneTakesMacvlan
<1>9. WorksOnOwn'
  <2> SUFFICES ASSUME NEW m \in Netns, Working(m)', state'[at'[m]] # "gone" PROVE Here(at[m], m)'
    BY <1>1 DEF WorksOnOwn
  <2>1. m # n /\ Working(m) /\ at[m] \in Link
    BY <1>1 DEF Working, Busy, Types
  <2> QED
    BY <1>1, <1>7, <2>1 DEF WorksOnOwn, Here
<1>10. HowFar'
  <2> SUFFICES ASSUME NEW m \in Netns, pc'[m] \in {"address", "setUp", "route"},
                      macvlan'[at[m]] # NoLink
               PROVE  /\ macvlan'[at[m]].own
                      /\ pc'[m] # "address" => (peer[at[m]] = "peer" => macvlan'[at[m]].addr)
                      /\ pc'[m] = "route" => macvlan'[at[m]].up
    BY <1>1 DEF HowFar
  <2>1. pc'[m] = pc[m] /\ at[m] \in Link
    BY <1>1 DEF Types, Busy
  <2> QED
    BY <1>3, <2>1 DEF HowFar
<1>11. CleanIsComplete'
  <2> SUFFICES ASSUME NEW m \in Netns, NEW l \in Link, clean'[m], Here(l, m)',
                      ~(Working(m)' /\ at'[m] = l)
               PROVE  Complete(l, m)'
    BY DEF CleanIsComplete
  <2>1. macvlan'[l] = macvlan[l] /\ Here(l, m)
    BY <1>3 DEF Here
  <2>2. clean[m] /\ ~(Working(m) /\ at[m] = l)
    BY <1>1, <1>2, <1>4, <1>5 DEF Working, Busy
  <2> QED
    BY <1>1, <2>1, <2>2 DEF CleanIsComplete, Complete
<1>12. CarriedIsHere'
  <2> SUFFICES ASSUME NEW m \in Netns, pc'[m] # "idle", NEW l \in carried[m], state[l] # "gone"
               PROVE  Here(l, m)'
    BY <1>1 DEF CarriedIsHere
  <2>1. m # n /\ pc[m] # "idle" /\ l \in Link
    BY <1>1 DEF Types
  <2> QED
    BY <1>7, <2>1 DEF CarriedIsHere, Here
<1> QED
  BY <1>6, <1>8, <1>9, <1>10, <1>11, <1>12

LEMMA FlapKeeps == ASSUME IfaceInv, Flap PROVE IfaceInv'
<1> USE DEF IfaceInv, fixed
<1>1. PICK l \in Link, s \in {"up", "down", "gone"} :
        /\ state[l] # "gone" /\ state' = [state EXCEPT ![l] = s]
        /\ macvlan' = [macvlan EXCEPT ![l] = IF s = "gone" THEN NoLink ELSE @]
  BY DEF Flap
<1>2. UNCHANGED <<peer, asked, pc, left, at, clean, carried>>
  BY DEF Flap
<1>3. \A k \in Link : /\ state[k] = "gone" => state'[k] = "gone"
                      /\ macvlan'[k] = macvlan[k] \/ (state'[k] = "gone" /\ macvlan'[k] = NoLink)
                      /\ state'[k] = "gone" => macvlan'[k] = NoLink
  BY <1>1 DEF Types, GoneTakesMacvlan
<1>4. Types'
  BY <1>1, <1>2 DEF Types
<1>5. GoneTakesMacvlan'
  BY <1>3 DEF GoneTakesMacvlan
<1>6. WorksOnOwn' /\ HowFar'
  <2>1. \A n \in Netns : Working(n) => at[n] \in Link
    BY DEF Types, Working
  <2>2. \A n \in Netns : pc[n] \in {"address", "setUp", "route"} => Working(n)
    BY DEF Working, Busy
  <2> QED
    BY <1>2, <1>3, <2>1, <2>2 DEF WorksOnOwn, HowFar, Working, Here
<1>7. CleanIsComplete'
  BY <1>2, <1>3 DEF CleanIsComplete, Working, Here, Complete
<1>8. CarriedIsHere'
  <2>1. \A n \in Netns : carried[n] \subseteq Link
    BY DEF Types
  <2> QED
    BY <1>2, <1>3, <2>1 DEF CarriedIsHere, Here
<1> QED
  BY <1>4, <1>5, <1>6, <1>7, <1>8

\* A cli that has a macvlan at hand has its own, on an interface that is there.
LEMMA AtHand ==
  ASSUME IfaceInv, NEW n \in Netns, Working(n), macvlan[at[n]] # NoLink
  PROVE  /\ at[n] \in Link /\ state[at[n]] # "gone"
         /\ macvlan[at[n]] \in Macvlan /\ macvlan[at[n]].ns = n
<1>1. at[n] \in Link
  BY DEF IfaceInv, Types, Working
<1>2. state[at[n]] # "gone"
  BY <1>1 DEF IfaceInv, GoneTakesMacvlan
<1> QED
  BY <1>1, <1>2 DEF IfaceInv, Types, WorksOnOwn, Here

(***************************************************************************)
(* The steps of a cli.                                                     *)
(***************************************************************************)
LEMMA FinishKeeps == ASSUME IfaceInv, NEW n \in Netns, Finish(n) PROVE IfaceInv'
BY GotoKeeps DEF Finish, Working, Busy

LEMMA AddLinkKeeps == ASSUME IfaceInv, NEW n \in Netns, AddLink(n) PROVE IfaceInv'
<1> DEFINE l == at[n]
           here == macvlan[l] # NoLink /\ macvlan[l].ns = n /\ macvlan[l].own
           new == [ns |-> n, own |-> FALSE, addr |-> FALSE, up |-> FALSE, routed |-> FALSE]
<1>1. pc[n] = "link" /\ pc[n] \in Busy \ {"loop"} /\ ~Working(n) /\ l \in Link
  BY DEF AddLink, Working, Busy, IfaceInv, Types
<1>2. CASE here /\ Goto(n, "loop") /\ Carry(n) /\ UNCHANGED <<macvlan, clean>>
  BY <1>1, <1>2, GotoKeeps DEF Carry, Here
<1>3. CASE Return(n)
  BY <1>1, <1>3, ReturnKeeps
<1>4. CASE Goto(n, "loop") /\ UNCHANGED <<macvlan, clean, carried>>
  BY <1>1, <1>4, GotoKeeps
<1>5. CASE /\ state[l] = "up" /\ macvlan[l] = NoLink
           /\ macvlan' = [macvlan EXCEPT ![l] = new]
           /\ Goto(n, "query") /\ Carry(n) /\ UNCHANGED clean
  <2>1. new \in Macvlan /\ new.ns = n
    BY DEF Macvlan
  <2>2. Remade(n, "query", new)
    BY <1>5 DEF Remade, Goto, fixed
  <2> HIDE DEF new
  <2> QED
    BY <1>1, <1>5, <2>1, <2>2, RemadeKeeps DEF Carry
<1> QED
  BY <1>2, <1>3, <1>4, <1>5 DEF AddLink, InUse

LEMMA QueryKeeps == ASSUME IfaceInv, NEW n \in Netns, Query(n) PROVE IfaceInv'
<1>1. pc[n] = "query" /\ pc[n] \in Busy
  BY DEF Query, Busy
<1>2. CASE Return(n)
  BY <1>1, <1>2, ReturnKeeps
<1>3. CASE Goto(n, "rename") /\ UNCHANGED <<macvlan, clean, carried>>
  BY <1>1, <1>3, GotoKeeps
<1> QED
  BY <1>2, <1>3 DEF Query

LEMMA RenameKeeps == ASSUME IfaceInv, NEW n \in Netns, Rename(n) PROVE IfaceInv'
<1> DEFINE new == [macvlan[at[n]] EXCEPT !.own = TRUE]
<1>1. pc[n] = "rename" /\ pc[n] \in Busy \ {"loop"} /\ Working(n) /\ macvlan[at[n]] # NoLink
  BY DEF Rename, Working, Busy
<1>2. new \in Macvlan /\ new.ns = n /\ new.own
  <2>1. macvlan[at[n]] \in Macvlan /\ macvlan[at[n]].ns = n
    BY <1>1, AtHand
  <2> QED
    BY <2>1 DEF Macvlan
<1>3. CASE Made(n, "address", new)
  <2>1. Remade(n, "address", new) /\ carried' = carried
    BY <1>3 DEF Remade, Made, Goto, fixed
  <2> HIDE DEF new
  <2> QED
    BY <1>1, <1>2, <2>1, AtHand, RemadeKeeps
<1>4. CASE /\ Goto(n, "loop") /\ clean' = [clean EXCEPT ![n] = FALSE]
           /\ UNCHANGED <<macvlan, carried>>
  <2>1. ~clean'[n]
    BY <1>4 DEF IfaceInv, Types
  <2> QED
    BY <1>1, <1>4, <2>1, GotoKeeps
<1> QED
  BY <1>3, <1>4 DEF Rename

LEMMA AddAddressKeeps == ASSUME IfaceInv, NEW n \in Netns, AddAddress(n) PROVE IfaceInv'
<1> DEFINE new == [macvlan[at[n]] EXCEPT !.addr = peer[at[n]] = "peer"]
<1>1. /\ pc[n] = "address" /\ pc[n] \in Busy \ {"loop"} /\ Working(n)
      /\ macvlan[at[n]] # NoLink /\ macvlan[at[n]].own
  BY DEF AddAddress, Working, Busy, IfaceInv, HowFar
<1>2. CASE Return(n)
  BY <1>1, <1>2, ReturnKeeps
<1>3. CASE Made(n, "setUp", new)
  <2>1. new \in Macvlan /\ new.ns = n /\ new.own /\ new.addr = (peer[at[n]] = "peer")
    BY <1>1, AtHand DEF Macvlan
  <2>2. Remade(n, "setUp", new) /\ carried' = carried
    BY <1>3 DEF Remade, Made, Goto, fixed
  <2> HIDE DEF new
  <2> QED
    BY <1>1, <2>1, <2>2, AtHand, RemadeKeeps
<1> QED
  BY <1>2, <1>3 DEF AddAddress

LEMMA SetUpKeeps == ASSUME IfaceInv, NEW n \in Netns, SetUp(n) PROVE IfaceInv'
<1> DEFINE new  == [macvlan[at[n]] EXCEPT !.up = TRUE]
           next == IF peer[at[n]] = "peer" THEN "route" ELSE "loop"
<1>1. /\ pc[n] = "setUp" /\ pc[n] \in Busy \ {"loop"} /\ Working(n)
      /\ macvlan[at[n]] # NoLink /\ macvlan[at[n]].own
      /\ peer[at[n]] = "peer" => macvlan[at[n]].addr
  BY DEF SetUp, Working, Busy, IfaceInv, HowFar
<1>2. /\ new \in Macvlan /\ new.ns = n /\ new.own /\ new.up
      /\ peer[at[n]] = "peer" => new.addr
  BY <1>1, AtHand DEF Macvlan
<1>3. Remade(n, next, new) /\ carried' = carried
  BY DEF SetUp, Remade, Made, Goto, fixed
<1>4. /\ next \in {"loop", "query", "address", "setUp", "route"} /\ next # "address"
      /\ next = "loop" => peer[at[n]] # "peer"
  OBVIOUS
<1> HIDE DEF new, next
<1> QED
  BY <1>1, <1>2, <1>3, <1>4, AtHand, RemadeKeeps

LEMMA AddRouteKeeps == ASSUME IfaceInv, NEW n \in Netns, AddRoute(n) PROVE IfaceInv'
<1> DEFINE new == [macvlan[at[n]] EXCEPT !.routed = TRUE]
<1>1. /\ pc[n] = "route" /\ pc[n] \in Busy \ {"loop"} /\ Working(n)
      /\ macvlan[at[n]] # NoLink /\ macvlan[at[n]].own /\ macvlan[at[n]].up
      /\ peer[at[n]] = "peer" => macvlan[at[n]].addr
  BY DEF AddRoute, Working, Busy, IfaceInv, HowFar
<1>2. /\ new \in Macvlan /\ new.ns = n /\ new.own /\ new.up /\ new.routed
      /\ peer[at[n]] = "peer" => new.addr
  BY <1>1, AtHand DEF Macvlan
<1>3. Remade(n, "loop", new) /\ carried' = carried
  BY DEF AddRoute, Remade, Made, Goto, fixed
<1> HIDE DEF new
<1> QED
  BY <1>1, <1>2, <1>3, AtHand, RemadeKeeps

\* What ends a request in an error, whatever it was.
LEMMA FailKeeps ==
  ASSUME IfaceInv, NEW n \in Netns, Lost(n) \/ Fault(n) \/ Kill(n) PROVE IfaceInv'
<1>1. pc[n] \in Busy /\ Return(n)
  BY DEF Lost, Fault, Kill, Busy
<1> QED
  BY <1>1, ReturnKeeps

LEMMA IfaceStep == IfaceInv /\ [Next]_vars => IfaceInv'
<1> SUFFICES ASSUME IfaceInv, [Next]_vars PROVE IfaceInv'
  OBVIOUS
<1>1. ASSUME NEW n \in Netns, InHost(n) PROVE IfaceInv'
  BY <1>1, TakeKeeps, AddLinkKeeps, QueryKeeps, FinishKeeps DEF InHost
<1>2. ASSUME NEW n \in Netns, InContainer(n) PROVE IfaceInv'
  BY <1>2, RenameKeeps, AddAddressKeeps, SetUpKeeps, AddRouteKeeps, FailKeeps DEF InContainer
<1>3. ASSUME NEW n \in Netns, Fault(n) \/ Kill(n) \/ Create(n) \/ End(n) PROVE IfaceInv'
  BY <1>3, FailKeeps, CreateKeeps, EndKeeps
<1>4. CASE Flap
  BY <1>4, FlapKeeps
<1>5. CASE UNCHANGED vars
  BY <1>5 DEF vars, hostVars, fixed, IfaceInv, Types, GoneTakesMacvlan, WorksOnOwn, HowFar,
              CleanIsComplete, CarriedIsHere, Working, Here, Complete
<1> QED
  BY <1>1, <1>2, <1>3, <1>4, <1>5 DEF Next

LEMMA IfaceInvariant == Spec => []IfaceInv
<1>1. Init => IfaceInv
  BY IfaceInit
<1>2. IfaceInv /\ [Next]_vars => IfaceInv'
  BY IfaceStep
<1> QED
  BY <1>1, <1>2, PTL DEF Spec

(***************************************************************************)
(* Contention.  A cli holds interfaces below the one it has at hand only,  *)
(* and the one it has at hand from LinkAdd on.  Where nothing else goes    *)
(* wrong, a request fails at an interface that another one holds, so that  *)
(* a cli is always further than the ones it makes fail.                    *)
(***************************************************************************)
\* First requests, and nothing goes wrong but what they do to each other.
Untroubled ==
  /\ faults = 0 /\ \A l \in Link : state[l] # "gone" /\ peer[l] # "unaddressed"
  /\ \A n \in Netns : creates[n] = IF pc[n] = "idle" THEN 0 ELSE 1

Counted ==
  /\ creates \in [Netns -> Nat] /\ faults \in Nat
  /\ \A n \in Netns : pc[n] # "idle" => creates[n] > 0

NotBeyond(b) == \A n \in Netns : at[n] \in Link => at[n] <= b

HoldsBelow ==
  \A n \in Netns, l \in Link : Here(l, n) =>
     /\ pc[n] # "idle" /\ at[n] \in Link /\ l <= at[n]
     /\ pc[n] \in {"link", "failed"} => l < at[n]

LeftAbove == \A n \in Netns : at[n] \in Link => \A l \in left[n] : at[n] < l

FailsAtAnothers ==
  \A n \in Netns : /\ pc[n] = "idle" => at[n] = NoLink
                   /\ pc[n] = "failed" => at[n] \in Link /\ \E m \in Netns : Here(at[n], m)

Order == HoldsBelow /\ LeftAbove /\ FailsAtAnothers

ContendInv == Counted /\ (\E b \in Nat : NotBeyond(b)) /\ (Untroubled => Order)

LEMMA ContendInit == Init => ContendInv
<1> SUFFICES ASSUME Init PROVE ContendInv
  OBVIOUS
<1>1. Counted /\ NotBeyond(0) /\ Order
  BY InterfacesTyped DEF Init, Counted, NotBeyond, Order, HoldsBelow, LeftAbove, FailsAtAnothers, Here
<1> QED
  BY <1>1 DEF ContendInv

LEMMA CountedStep == IfaceInv /\ Counted /\ [Next]_vars => Counted'
<1> SUFFICES ASSUME IfaceInv, Counted, [Next]_vars PROVE Counted'
  OBVIOUS
<1>1. ASSUME NEW n \in Netns, NEW next, pc[n] # "idle", pc' = [pc EXCEPT ![n] = next],
             creates' = creates, faults' \in {faults, faults + 1}
      PROVE  Counted'
  BY <1>1 DEF Counted, IfaceInv, Types
<1>2. ASSUME NEW n \in Netns, InHost(n) \/ InContainer(n) PROVE Counted'
  BY <1>1, <1>2 DEF InHost, InContainer, Take, AddLink, Query, Finish, Rename, AddAddress, SetUp,
     AddRoute, Lost, InUse, Return, Made, Goto, AFault, fixed
<1>3. ASSUME NEW n \in Netns, Fault(n) \/ End(n) \/ Kill(n) PROVE Counted'
  BY <1>1, <1>3 DEF Fault, End, Kill, Busy, Return, Goto, AFault, fixed
<1>4. ASSUME NEW n \in Netns, Create(n) PROVE Counted'
  BY <1>4 DEF Create, Counted, IfaceInv, Types
<1>5. CASE Flap \/ UNCHANGED vars
  BY <1>5 DEF Flap, AFault, vars, fixed, Counted
<1> QED
  BY <1>2, <1>3, <1>4, <1>5 DEF Next

\* Only Take changes what a cli has at hand.
LEMMA BeyondStep ==
  ASSUME IfaceInv, [Next]_vars, NEW b \in Nat, NotBeyond(b)
  PROVE  \E c \in Nat : NotBeyond(c)'
<1>1. CASE at' = at
  BY <1>1 DEF NotBeyond
<1>2. ASSUME NEW n \in Netns, Take(n) PROVE \E c \in Nat : NotBeyond(c)'
  <2>1. at'[n] \in Nat /\ \A m \in Netns \ {n} : at'[m] = at[m]
    <3>1. left[n] \in SUBSET Nat /\ left[n] # {}
      BY <1>2, InterfacesTyped DEF IfaceInv, Types, Take
    <3>2. Min(left[n]) \in Nat
      BY <3>1, MinIsMember
    <3> QED
      BY <1>2, <3>2 DEF Take, NextIn, IfaceInv, Types
  <2>2. PICK c \in Nat : b <= c /\ at'[n] <= c
    <3>1. CASE b <= at'[n]
      BY <2>1, <3>1
    <3>2. CASE ~(b <= at'[n])
      BY <2>1, <3>2
    <3> QED
      BY <3>1, <3>2
  <2>3. \A m \in Netns : at'[m] \in Link => at'[m] <= c
    <3> SUFFICES ASSUME NEW m \in Netns, at'[m] \in Link PROVE at'[m] <= c
      OBVIOUS
    <3>1. at'[m] \in Nat
      BY InterfacesTyped
    <3> QED
      BY <2>1, <2>2, <3>1 DEF NotBeyond
  <2> QED
    BY <2>3 DEF NotBeyond
<1>3. ASSUME NEW n \in Netns, InHost(n) \/ InContainer(n), ~Take(n) PROVE at' = at
  BY <1>3 DEF InHost, InContainer, AddLink, Query, Finish, Rename, AddAddress, SetUp,
     AddRoute, Lost, InUse, Return, Made, Goto
<1>4. ASSUME NEW n \in Netns, Fault(n) \/ Create(n) \/ End(n) \/ Kill(n) PROVE at' = at
  BY <1>4 DEF Fault, Create, End, Kill, Return, Goto
<1>5. Flap \/ UNCHANGED vars => at' = at
  BY DEF Flap, vars
<1> QED
  BY <1>1, <1>2, <1>3, <1>4, <1>5 DEF Next

\* What was untroubled is what is untroubled still, and some steps trouble it.
LEMMA UntroubledBefore ==
  ASSUME IfaceInv, Counted, [Next]_vars, Untroubled'
  PROVE  /\ Untroubled /\ faults = 0 /\ faults' = 0 /\ ~Flap
         /\ \A n \in Netns : ~Fault(n) /\ ~End(n) /\ ~Kill(n)
<1>1. faults \in Nat /\ faults' = 0
  BY DEF Counted, Untroubled
<1>2. ~AFault
  BY <1>1 DEF AFault
<1>3. \A n \in Netns : ~Fault(n) /\ ~Kill(n)
  BY <1>2 DEF Fault, Kill
<1>4. ~Flap
  BY <1>2 DEF Flap
<1>5. ASSUME NEW n \in Netns, End(n) PROVE FALSE
  <2>1. pc[n] # "idle" /\ pc'[n] = "idle" /\ creates' = creates
    BY <1>5 DEF End, fixed, IfaceInv, Types
  <2> QED
    BY <2>1 DEF Counted, Untroubled
<1>6. Untroubled
  <2>1. CASE \E n \in Netns : Create(n)
    <3>1. PICK n \in Netns : Create(n)
      BY <2>1
    <3>2. /\ pc[n] = "idle" /\ pc'[n] # "idle" /\ creates'[n] = creates[n] + 1
          /\ \A m \in Netns \ {n} : pc'[m] = pc[m] /\ creates'[m] = creates[m]
          /\ UNCHANGED <<faults, state, peer>>
      BY <3>1 DEF Create, hostVars, Counted, IfaceInv, Types
    <3>3. creates[n] = 0
      BY <3>2 DEF Untroubled, Counted
    <3> QED
      BY <1>1, <3>2, <3>3 DEF Untroubled
  <2>2. ASSUME NEW n \in Netns, NEW next, pc[n] # "idle", next # "idle",
               pc' = [pc EXCEPT ![n] = next], UNCHANGED <<creates, state, peer>>, faults' = faults
        PROVE  Untroubled
    <3>1. \A m \in Netns : pc'[m] = "idle" <=> pc[m] = "idle"
      BY <2>2 DEF IfaceInv, Types
    <3> QED
      BY <2>2, <3>1 DEF Untroubled
  <2>3. ASSUME NEW n \in Netns, InHost(n) PROVE Untroubled
    BY <2>2, <2>3 DEF InHost, Take, AddLink, Query, Finish, InUse, Return, Goto, fixed, hostVars
  <2>4. ASSUME NEW n \in Netns, InContainer(n) PROVE Untroubled
    BY <1>2, <2>2, <2>4 DEF InContainer, Rename, AddAddress, SetUp,
       AddRoute, Lost, Return, Made, Goto, fixed, hostVars
  <2>5. UNCHANGED vars => Untroubled
    BY DEF vars, hostVars, fixed, Untroubled
  <2> QED
    BY <1>3, <1>4, <1>5, <2>1, <2>3, <2>4, <2>5 DEF Next
<1> QED
  BY <1>1, <1>3, <1>4, <1>5, <1>6 DEF Untroubled

\* A cli goes on; it holds at most the interface at hand in addition.
LEMMA OrderMoves ==
  ASSUME IfaceInv, Order, NEW n \in Netns, NEW next \in Busy \cup {"started"}, next # "link",
         pc[n] \in Busy, pc' = [pc EXCEPT ![n] = next], UNCHANGED <<at, left>>,
         \A l \in Link, m \in Netns : Here(l, m) => Here(l, m)',
         \A l \in Link, m \in Netns : Here(l, m)' => Here(l, m) \/ (m = n /\ l = at[n])
  PROVE  Order'
<1>1. pc'[n] = next /\ \A m \in Netns \ {n} : pc'[m] = pc[m]
  BY DEF IfaceInv, Types
<1>2. HoldsBelow'
  <2> SUFFICES ASSUME NEW m \in Netns, NEW l \in Link, Here(l, m)'
               PROVE  /\ pc'[m] # "idle" /\ at[m] \in Link /\ l <= at[m]
                      /\ pc'[m] \in {"link", "failed"} => l < at[m]
    BY DEF HoldsBelow
  <2>1. CASE m = n /\ l = at[n]
    <3>1. l \in Nat
      BY InterfacesTyped
    <3> QED
      BY <1>1, <2>1, <3>1 DEF Busy
  <2>2. CASE Here(l, m)
    BY <1>1, <2>2 DEF Order, HoldsBelow, Busy
  <2> QED
    BY <2>1, <2>2
<1>3. LeftAbove' /\ FailsAtAnothers'
  BY <1>1 DEF Order, LeftAbove, FailsAtAnothers, Busy
<1> QED
  BY <1>2, <1>3 DEF Order

LEMMA OrderTake == ASSUME IfaceInv, Order, NEW n \in Netns, Take(n) PROVE Order'
<1>1. left[n] \in SUBSET Nat /\ left[n] \in SUBSET Link /\ left[n] # {}
  BY InterfacesTyped DEF IfaceInv, Types, Take
<1>2. PICK k \in left[n] : k = Min(left[n]) /\ \A y \in left[n] : k <= y
  BY <1>1, MinIsMember
<1>3. /\ pc[n] = "loop" /\ pc'[n] = "link" /\ at'[n] = k /\ left'[n] = left[n] \ {k}
      /\ \A m \in Netns \ {n} : pc'[m] = pc[m] /\ at'[m] = at[m] /\ left'[m] = left[m]
      /\ macvlan' = macvlan
  BY <1>2 DEF Take, NextIn, IfaceInv, Types
<1>4. HoldsBelow'
  <2> SUFFICES ASSUME NEW m \in Netns, NEW l \in Link, Here(l, m)
               PROVE  /\ pc'[m] # "idle" /\ at'[m] \in Link /\ l <= at'[m]
                      /\ pc'[m] \in {"link", "failed"} => l < at'[m]
    BY <1>3 DEF HoldsBelow, Here
  <2>1. CASE m = n
    <3>1. at[n] \in Link /\ l <= at[n] /\ at[n] < k
      BY <1>2, <2>1 DEF Order, HoldsBelow, LeftAbove
    <3>2. l \in Nat /\ at[n] \in Nat /\ k \in Nat /\ k \in Link
      BY <1>1, <3>1, InterfacesTyped
    <3> QED
      BY <1>3, <2>1, <3>1, <3>2
  <2>2. CASE m # n
    BY <1>3, <2>2 DEF Order, HoldsBelow
  <2> QED
    BY <2>1, <2>2
<1>5. LeftAbove'
  <2>1. ASSUME NEW l \in left[n] \ {k} PROVE k < l
    <3>1. l \in Nat /\ k \in Nat /\ k <= l /\ l # k
      BY <1>1, <1>2
    <3> QED
      BY <3>1
  <2> QED
    BY <1>3, <2>1 DEF Order, LeftAbove
<1>6. FailsAtAnothers'
  BY <1>3 DEF Order, FailsAtAnothers, Here
<1> QED
  BY <1>4, <1>5, <1>6 DEF Order

LEMMA OrderAddLink ==
  ASSUME IfaceInv, Order, Untroubled, NEW n \in Netns, AddLink(n) PROVE Order'
<1> DEFINE l == at[n]
           here == macvlan[l] # NoLink /\ macvlan[l].ns = n /\ macvlan[l].own
<1>1. pc[n] = "link" /\ pc[n] \in Busy /\ l \in Link /\ state[l] # "gone"
  BY DEF AddLink, Busy, IfaceInv, Types, Untroubled
<1>2. CASE Goto(n, "loop") /\ UNCHANGED macvlan
  <2>1. \A k \in Link, m \in Netns : Here(k, m)' <=> Here(k, m)
    BY <1>2 DEF Here
  <2> QED
    BY <1>1, <1>2, <2>1, OrderMoves DEF Goto, Busy
<1>3. CASE /\ macvlan[l] = NoLink
           /\ macvlan' = [macvlan EXCEPT ![l] = [ns |-> n, own |-> FALSE, addr |-> FALSE,
                                                 up |-> FALSE, routed |-> FALSE]]
           /\ Goto(n, "query")
  <2>1. \A k \in Link \ {l} : macvlan'[k] = macvlan[k]
    BY <1>3 DEF IfaceInv, Types
  <2>2. macvlan'[l].ns = n
    BY <1>1, <1>3 DEF IfaceInv, Types
  <2>3. \A k \in Link, m \in Netns : Here(k, m) => Here(k, m)'
    BY <1>3, <2>1 DEF Here
  <2>4. \A k \in Link, m \in Netns : Here(k, m)' => Here(k, m) \/ (m = n /\ k = l)
    BY <2>1, <2>2 DEF Here
  <2> QED
    BY <1>1, <1>3, <2>3, <2>4, OrderMoves DEF Goto, Busy
<1>4. CASE macvlan[l] # NoLink /\ Return(n)
  <2>1. /\ pc'[n] = "failed" /\ \A m \in Netns \ {n} : pc'[m] = pc[m]
        /\ UNCHANGED <<at, left, macvlan>>
    BY <1>4 DEF Return, Goto, IfaceInv, Types
  <2>2. \E m \in Netns : Here(l, m)
    <3>1. macvlan[l] \in Macvlan
      BY <1>1, <1>4 DEF IfaceInv, Types
    <3> QED
      BY <1>4, <3>1 DEF Macvlan, Here
  <2>3. HoldsBelow'
    BY <1>1, <2>1 DEF Order, HoldsBelow, Here
  <2>4. LeftAbove' /\ FailsAtAnothers'
    BY <1>1, <2>1, <2>2 DEF Order, LeftAbove, FailsAtAnothers, Here
  <2> QED
    BY <2>3, <2>4 DEF Order
<1> QED
  BY <1>1, <1>2, <1>3, <1>4 DEF AddLink, InUse

LEMMA OrderInContainer ==
  ASSUME IfaceInv, Order, Untroubled, faults' = 0, NEW n \in Netns, Query(n) \/ InContainer(n)
  PROVE  Order'
<1>1. ~AFault
  BY DEF AFault, Untroubled
<1>2. Working(n) /\ pc[n] \in Busy /\ at[n] \in Link /\ state[at[n]] # "gone"
      /\ peer[at[n]] # "unaddressed"
  <2>1. Working(n) /\ pc[n] \in Busy
    BY DEF Query, InContainer, Rename, AddAddress, SetUp, AddRoute, Lost, Working, Busy
  <2> QED
    BY <2>1 DEF IfaceInv, Types, Untroubled, Working
<1>3. macvlan[at[n]] # NoLink /\ macvlan[at[n]] \in Macvlan /\ macvlan[at[n]].ns = n
  <2>1. macvlan[at[n]] # NoLink
    BY <1>2 DEF IfaceInv, WorksOnOwn, Here
  <2> QED
    BY <1>2, <2>1, AtHand
<1>4. \E next \in Busy \ {"link"}, link \in Macvlan :
        /\ pc' = [pc EXCEPT ![n] = next] /\ UNCHANGED <<at, left>> /\ link.ns = n
        /\ macvlan' = macvlan \/ macvlan' = [macvlan EXCEPT ![at[n]] = link]
  <2> DEFINE m == macvlan[at[n]]
             same(link) == link \in Macvlan /\ link.ns = n
  <2>1. CASE Query(n)
    BY <1>2, <1>3, <2>1 DEF Query, Goto, Busy
  <2>2. CASE Rename(n)
    <3>1. same([m EXCEPT !.own = TRUE])
      BY <1>3 DEF Macvlan
    <3>2. Made(n, "address", [m EXCEPT !.own = TRUE])
      BY <1>1, <2>2 DEF Rename
    <3> HIDE DEF m
    <3> QED
      BY <3>1, <3>2 DEF Made, Goto, Busy
  <2>3. CASE AddAddress(n)
    <3>1. same([m EXCEPT !.addr = peer[at[n]] = "peer"])
      BY <1>3 DEF Macvlan
    <3>2. Made(n, "setUp", [m EXCEPT !.addr = peer[at[n]] = "peer"])
      BY <1>2, <2>3 DEF AddAddress
    <3> HIDE DEF m
    <3> QED
      BY <3>1, <3>2 DEF Made, Goto, Busy
  <2>4. CASE SetUp(n)
    <3>1. same([m EXCEPT !.up = TRUE])
      BY <1>3 DEF Macvlan
    <3>2. \E next \in {"route", "loop"} : Made(n, next, [m EXCEPT !.up = TRUE])
      BY <2>4 DEF SetUp
    <3> HIDE DEF m
    <3> QED
      BY <3>1, <3>2 DEF Made, Goto, Busy
  <2>5. CASE AddRoute(n)
    <3>1. same([m EXCEPT !.routed = TRUE])
      BY <1>3 DEF Macvlan
    <3>2. Made(n, "loop", [m EXCEPT !.routed = TRUE])
      BY <2>5 DEF AddRoute
    <3> HIDE DEF m
    <3> QED
      BY <3>1, <3>2 DEF Made, Goto, Busy
  <2> QED
    BY <1>3, <2>1, <2>2, <2>3, <2>4, <2>5 DEF InContainer, Lost
<1>5. PICK next \in Busy \ {"link"}, link \in Macvlan :
        /\ pc' = [pc EXCEPT ![n] = next] /\ UNCHANGED <<at, left>> /\ link.ns = n
        /\ macvlan' = macvlan \/ macvlan' = [macvlan EXCEPT ![at[n]] = link]
  BY <1>4
<1>6. ASSUME NEW k \in Link, NEW m \in Netns PROVE Here(k, m)' <=> Here(k, m)
  BY <1>2, <1>3, <1>5, NoLinkApart DEF IfaceInv, Types, Here
<1> QED
  BY <1>2, <1>5, <1>6, OrderMoves

LEMMA OrderStep ==
  ASSUME IfaceInv, ContendInv, [Next]_vars, Untroubled' PROVE Order'
<1>1. /\ Untroubled /\ Order /\ faults' = 0 /\ ~Flap
      /\ \A n \in Netns : ~Fault(n) /\ ~End(n) /\ ~Kill(n)
  BY UntroubledBefore DEF ContendInv
<1>2. ASSUME NEW n \in Netns, Create(n) PROVE Order'
  <2>1. /\ pc[n] = "idle" /\ pc'[n] = "loop" /\ at[n] = NoLink
        /\ \A m \in Netns \ {n} : pc'[m] = pc[m] /\ left'[m] = left[m]
        /\ UNCHANGED <<macvlan, at>>
    BY <1>1, <1>2 DEF Create, IfaceInv, Types, Order, FailsAtAnothers
  <2> QED
    BY <1>1, <2>1, InterfacesTyped DEF Order, HoldsBelow, LeftAbove, FailsAtAnothers, Here
<1>3. ASSUME NEW n \in Netns, Finish(n) PROVE Order'
  <2>1. \A k \in Link, m \in Netns : Here(k, m)' <=> Here(k, m)
    BY <1>3 DEF Finish, Here
  <2> QED
    BY <1>1, <1>3, <2>1, OrderMoves DEF Finish, Goto, Busy
<1>4. UNCHANGED vars => Order'
  BY <1>1 DEF vars, Order, HoldsBelow, LeftAbove, FailsAtAnothers, Here
<1> QED
  BY <1>1, <1>2, <1>3, <1>4, OrderTake, OrderAddLink, OrderInContainer
  DEF Next, InHost

\* Of some numbers below a bound one is the largest.
LEMMA Largest ==
  ASSUME NEW S \in SUBSET Nat, S # {}, NEW b \in Nat, \A x \in S : x <= b
  PROVE  \E x \in S : \A y \in S : y <= x
<1> DEFINE T == {b - x : x \in S}
<1>1. T \in SUBSET Nat /\ T # {}
  <2>1. \A x \in S : b - x \in Nat
    OBVIOUS
  <2> QED
    BY <2>1
<1>2. PICK x \in S : b - x = Min(T)
  BY <1>1, MinIsMember
<1>3. ASSUME NEW y \in S PROVE y <= x
  <2>1. b - x <= b - y
    BY <1>1, <1>2, MinIsMember
  <2> QED
    BY <2>1
<1> QED
  BY <1>3

(***************************************************************************)
(* The theorems.                                                           *)
(***************************************************************************)
\* Types; and the macvlan a cli has made stays its own until it is done with it,
\* whatever other clis, kills, restarts and the host do (exposeInterfaces).
THEOREM InterfacesTypeCorrect == Spec => []ITypeOK
<1>1. IfaceInv => ITypeOK
  BY DEF IfaceInv, Types, WorksOnOwn, Working, Here, ITypeOK
<1> QED
  BY <1>1, IfaceInvariant, PTL

\* A container that has started has every interface that was there for it, whole,
\* unless an earlier request has failed in its namespace (exposeInterfaces).
THEOREM StartedIsComplete == Spec => []StartedComplete
<1>1. IfaceInv => StartedComplete
  <2> SUFFICES ASSUME IfaceInv, NEW n \in Netns, pc[n] = "started", clean[n],
                      NEW l \in carried[n], state[l] # "gone"
               PROVE  Complete(l, n)
    BY DEF StartedComplete
  <2>1. l \in Link /\ Here(l, n)
    BY DEF IfaceInv, Types, CarriedIsHere
  <2>2. ~Working(n)
    BY DEF Working, Busy
  <2> QED
    BY <2>1, <2>2 DEF IfaceInv, CleanIsComplete
<1> QED
  BY <1>1, IfaceInvariant, PTL
\* When nothing else goes wrong, one of the first requests of any number of
\* containers succeeds: the one that has come furthest in the order in which all
\* of them take the interfaces has met nobody (exposeInterfaces).
THEOREM ContendersDoNotAllLose == Spec => []SomeoneStarts
<1>1. IfaceInv /\ ContendInv /\ [Next]_vars => ContendInv'
  BY CountedStep, BeyondStep, OrderStep DEF ContendInv
<1>2. IfaceInv /\ ContendInv => SomeoneStarts
  <2> SUFFICES ASSUME IfaceInv, ContendInv, faults = 0,
                      \A l \in Link : state[l] # "gone" /\ peer[l] # "unaddressed",
                      \A n \in Netns : creates[n] = 1 /\ pc[n] = "failed"
               PROVE  FALSE
    BY DEF SomeoneStarts
  <2>1. Order
    BY DEF ContendInv, Untroubled
  <2> DEFINE S == {at[n] : n \in Netns}
  <2>2. S \in SUBSET Link /\ S \in SUBSET Nat /\ S # {}
    <3>1. \A n \in Netns : at[n] \in Link
      BY <2>1 DEF Order, FailsAtAnothers
    <3>2. Netns # {} /\ Link \subseteq Nat
      BY InterfacesTyped
    <3> QED
      BY <3>1, <3>2
  <2>3. \E b \in Nat : \A x \in S : x <= b
    BY <2>2 DEF ContendInv, NotBeyond
  <2>4. PICK n \in Netns : \A m \in Netns : at[m] <= at[n]
    BY <2>2, <2>3, Largest
  <2>5. PICK m \in Netns : Here(at[n], m)
    BY <2>1 DEF Order, FailsAtAnothers
  <2>6. at[n] < at[m]
    BY <2>1, <2>2, <2>5 DEF Order, HoldsBelow
  <2>7. at[m] <= at[n] /\ at[n] \in Nat /\ at[m] \in Nat
    BY <2>2, <2>4
  <2> QED
    BY <2>6, <2>7
<1> QED
  BY <1>1, <1>2, ContendInit, IfaceInvariant, PTL DEF Spec
=============================================================================
