------------------------------ MODULE Interfaces ------------------------------
(***************************************************************************)
(* exposeInterfaces of habana-container-cli, run for several containers at *)
(* once: every external interface of the container's accelerators gets a   *)
(* macvlan in passthru mode in the network namespace of the container,     *)
(* under a temporary name first, then renamed, addressed, set up and       *)
(* routed like the interface of the host.                                  *)
(*                                                                         *)
(* The kernel allows one passthru macvlan for an interface, so containers  *)
(* that ask for the same one contend.  The namespace of a pod outlives a   *)
(* create request that fails and a container that exits; others do not.    *)
(* A container in the host's own network namespace finds every name there  *)
(* and gets nothing; it is left out.                                       *)
(***************************************************************************)
EXTENDS Naturals, FiniteSetsExt

CONSTANTS Netns,      \* network namespaces, one create request at a time in each
          Pod,        \* those that belong to a pod
          Link,       \* external interfaces, numbered in the order of discovery
          NoLink,     \* no interface, no macvlan
          MaxCreates, \* bound: create requests in each namespace
          MaxFaults   \* bound: faults, kills and changes of the host, taken together

ASSUME InterfacesTyped ==
  /\ Netns # {} /\ Pod \subseteq Netns /\ Link \subseteq Nat /\ NoLink \notin Link
  /\ MaxCreates \in Nat /\ MaxFaults \in Nat

VARIABLES
  state,    \* the interfaces of the host: "up", "down" or "gone"
  peer,     \* gateway route of each: "none", "peer", or "unaddressed" (no address)
  macvlan,  \* the passthru macvlan of each, or NoLink
  asked,    \* interfaces of the accelerators of each container
  pc,       \* where the cli of each namespace is
  left,     \* interfaces its loop has still to take
  at,       \* the interface it has at hand
  \* History and bounds.
  creates,  \* create requests in each namespace
  clean,    \* no request has failed in the namespace, no other CNI used a name
  carried,  \* interfaces this request found up, or in the namespace already
  faults

hostVars == <<state, peer>>
fixed    == <<asked, creates>>
vars     == <<hostVars, macvlan, fixed, pc, left, at, clean, carried, faults>>

Macvlan == [ns : Netns, own : BOOLEAN, addr : BOOLEAN, up : BOOLEAN, routed : BOOLEAN]
ASSUME NoLinkApart == NoLink \notin Macvlan

Busy    == {"loop", "link", "query", "rename", "address", "setUp", "route"}

(***************************************************************************)
(* The loop over the interfaces.                                           *)
(***************************************************************************)
\* Mutant: the interfaces come in the order of a map.
AnyOrder(n) == left[n]

\* The interfaces come in the order of the accelerators.
NextIn(n) == {Min(left[n])}

Goto(n, next) ==
  pc' = [pc EXCEPT ![n] = next] /\ UNCHANGED <<hostVars, fixed, left, at>>

\* An error is returned.  The deferred LinkDel looks for the temporary name in
\* the namespace of the host, where the macvlan has never been: it stays.
Return(n) ==
  /\ Goto(n, "failed") /\ clean' = [clean EXCEPT ![n] = FALSE]
  /\ UNCHANGED <<macvlan, carried>>

Take(n) ==
  /\ pc[n] = "loop" /\ left[n] # {}
  /\ \E l \in NextIn(n) : at' = [at EXCEPT ![n] = l] /\ left' = [left EXCEPT ![n] = @ \ {l}]
  /\ pc' = [pc EXCEPT ![n] = "link"]
  /\ UNCHANGED <<hostVars, fixed, macvlan, clean, carried, faults>>

Finish(n) ==
  /\ pc[n] = "loop" /\ left[n] = {}
  /\ Goto(n, "started") /\ UNCHANGED <<macvlan, clean, carried, faults>>

Carry(n) == carried' = [carried EXCEPT ![n] = @ \cup {at[n]}]

\* Mutant: a macvlan found on the interface is taken for a stale one and removed.
InUseRemoved(n) ==
  /\ macvlan[at[n]] # NoLink /\ macvlan' = [macvlan EXCEPT ![at[n]] = NoLink]
  /\ Goto(n, "link") /\ UNCHANGED <<clean, carried>>

\* LinkAdd fails while another macvlan is on the interface, a temporary one included.
InUse(n) == macvlan[at[n]] # NoLink /\ Return(n)

\* An interface that is in the namespace under its name, or down, is skipped;
\* for another one the temporary link is created.
AddLink(n) ==
  /\ pc[n] = "link" /\ UNCHANGED faults
  /\ LET l    == at[n]
         here == macvlan[l] # NoLink /\ macvlan[l].ns = n /\ macvlan[l].own
     IN  \/ here /\ Goto(n, "loop") /\ Carry(n) /\ UNCHANGED <<macvlan, clean>>
         \/ ~here /\ state[l] = "gone" /\ Return(n)
         \/ ~here /\ state[l] = "down" /\ Goto(n, "loop") /\ UNCHANGED <<macvlan, clean, carried>>
         \/ ~here /\ state[l] = "up" /\ InUse(n)
         \/ /\ state[l] = "up" /\ macvlan[l] = NoLink
            /\ macvlan' = [macvlan EXCEPT ![l] = [ns |-> n, own |-> FALSE, addr |-> FALSE,
                                                  up |-> FALSE, routed |-> FALSE]]
            /\ Goto(n, "query") /\ Carry(n) /\ UNCHANGED clean

\* Addresses and routes of the host's interface are read.
Query(n) ==
  /\ pc[n] = "query" /\ UNCHANGED faults
  /\ \/ state[at[n]] = "gone" /\ Return(n)
     \/ state[at[n]] # "gone" /\ Goto(n, "rename") /\ UNCHANGED <<macvlan, clean, carried>>

(***************************************************************************)
(* Inside the namespace.                                                   *)
(***************************************************************************)
Made(n, next, link) ==
  /\ macvlan' = [macvlan EXCEPT ![at[n]] = link]
  /\ Goto(n, next) /\ UNCHANGED <<clean, carried, faults>>

AFault == faults < MaxFaults /\ faults' = faults + 1

\* The macvlan has gone with the interface of the host.
Lost(n) ==
  /\ pc[n] \in {"rename", "address", "setUp", "route"} /\ macvlan[at[n]] = NoLink
  /\ Return(n) /\ UNCHANGED faults

\* Another CNI may have used the name: the loop goes on, the macvlan stays as it is.
Rename(n) ==
  /\ pc[n] = "rename" /\ macvlan[at[n]] # NoLink
  /\ \/ Made(n, "address", [macvlan[at[n]] EXCEPT !.own = TRUE])
     \/ /\ AFault /\ Goto(n, "loop") /\ clean' = [clean EXCEPT ![n] = FALSE]
        /\ UNCHANGED <<macvlan, carried>>

\* Indexing an empty list of addresses panics outside the goroutine that recovers.
AddAddress(n) ==
  /\ pc[n] = "address" /\ macvlan[at[n]] # NoLink
  /\ \/ peer[at[n]] = "unaddressed" /\ Return(n) /\ UNCHANGED faults
     \/ /\ peer[at[n]] # "unaddressed"
        /\ Made(n, "setUp", [macvlan[at[n]] EXCEPT !.addr = peer[at[n]] = "peer"])

SetUp(n) ==
  /\ pc[n] = "setUp" /\ macvlan[at[n]] # NoLink
  /\ Made(n, IF peer[at[n]] = "peer" THEN "route" ELSE "loop", [macvlan[at[n]] EXCEPT !.up = TRUE])

AddRoute(n) ==
  /\ pc[n] = "route" /\ macvlan[at[n]] # NoLink
  /\ Made(n, "loop", [macvlan[at[n]] EXCEPT !.routed = TRUE])

\* Mutant: the error of a netlink request ends the work on the interface only.
FaultIgnored(n) ==
  /\ pc[n] \in Busy \ {"loop"} /\ AFault
  /\ Goto(n, "loop") /\ UNCHANGED <<macvlan, clean, carried>>

\* A netlink request or the ip command fails.
Fault(n) == pc[n] \in Busy \ {"loop"} /\ AFault /\ Return(n)

(***************************************************************************)
(* The environment: the engine, kills and the interfaces of the host.      *)
(***************************************************************************)
Create(n) ==
  /\ pc[n] = "idle" /\ creates[n] < MaxCreates
  /\ creates' = [creates EXCEPT ![n] = @ + 1]
  /\ pc' = [pc EXCEPT ![n] = "loop"] /\ left' = [left EXCEPT ![n] = asked[n]]
  /\ carried' = [carried EXCEPT ![n] = {}]
  /\ UNCHANGED <<hostVars, asked, macvlan, at, clean, faults>>

\* The container has exited or failed: its namespace goes, with every macvlan
\* in it, unless it is a pod's; then the macvlans wait for the next container.
End(n) ==
  /\ pc[n] \in {"started", "failed"} /\ pc' = [pc EXCEPT ![n] = "idle"]
  /\ IF n \in Pod THEN UNCHANGED <<macvlan, clean>>
     ELSE /\ macvlan' = [l \in Link |-> IF macvlan[l] # NoLink /\ macvlan[l].ns = n
                                        THEN NoLink ELSE macvlan[l]]
          /\ clean' = [clean EXCEPT ![n] = TRUE]
  /\ UNCHANGED <<hostVars, fixed, left, at, carried, faults>>

Kill(n) == pc[n] \in Busy /\ AFault /\ Return(n)

\* An interface of the host goes up or down; one that is gone takes its macvlan along.
Flap ==
  /\ AFault
  /\ \E l \in Link, s \in {"up", "down", "gone"} :
       /\ state[l] # "gone" /\ state' = [state EXCEPT ![l] = s]
       /\ macvlan' = [macvlan EXCEPT ![l] = IF s = "gone" THEN NoLink ELSE @]
  /\ UNCHANGED <<peer, fixed, pc, left, at, clean, carried>>

Init ==
  /\ state \in [Link -> {"up", "down", "gone"}] /\ peer \in [Link -> {"none", "peer", "unaddressed"}]
  /\ macvlan = [l \in Link |-> NoLink]
  /\ asked \in [Netns -> SUBSET Link]
  /\ pc = [n \in Netns |-> "idle"] /\ left = [n \in Netns |-> {}] /\ at = [n \in Netns |-> NoLink]
  /\ creates = [n \in Netns |-> 0] /\ clean = [n \in Netns |-> TRUE]
  /\ carried = [n \in Netns |-> {}] /\ faults = 0

InHost(n)      == Take(n) \/ AddLink(n) \/ Query(n) \/ Finish(n)
InContainer(n) == Rename(n) \/ AddAddress(n) \/ SetUp(n) \/ AddRoute(n) \/ Lost(n)

Next ==
  \/ \E n \in Netns : InHost(n) \/ InContainer(n) \/ Fault(n) \/ Create(n) \/ End(n) \/ Kill(n)
  \/ Flap

Spec == Init /\ [][Next]_vars

(***************************************************************************)
(* Properties.                                                             *)
(***************************************************************************)
\* Types; a cli works on the macvlan it has made: nobody takes it away in between.
ITypeOK ==
  /\ state \in [Link -> {"up", "down", "gone"}] /\ asked \in [Netns -> SUBSET Link]
  /\ macvlan \in [Link -> Macvlan \cup {NoLink}]
  /\ pc \in [Netns -> Busy \cup {"idle", "started", "failed"}]
  /\ left \in [Netns -> SUBSET Link] /\ at \in [Netns -> Link \cup {NoLink}]
  /\ \A n \in Netns : pc[n] \in Busy \ {"loop", "link"} /\ state[at[n]] # "gone"
                      => macvlan[at[n]] # NoLink /\ macvlan[at[n]].ns = n

Complete(l, n) ==
  LET m == macvlan[l] IN
  m # NoLink /\ m.ns = n /\ m.own /\ m.up /\ (peer[l] = "peer" => m.addr /\ m.routed)

\* A container that has started has every interface that was there for it, under
\* its name, up, and with address and route where the host has a gateway, however
\* many containers ask for the same ones and also after a restart in a pod; only
\* a namespace in which an earlier request has failed is not covered: there a
\* half-made interface under its name is taken for a whole one.
StartedComplete ==
  \A n \in Netns : pc[n] = "started" /\ clean[n] =>
     \A l \in carried[n] : state[l] # "gone" => Complete(l, n)

\* Containers that contend for interfaces do not all lose: when nothing else goes
\* wrong, one of the first requests succeeds, as all clis take the interfaces in
\* the same order.
SomeoneStarts ==
  /\ faults = 0 /\ \A l \in Link : state[l] # "gone" /\ peer[l] # "unaddressed"
  /\ \A n \in Netns : creates[n] = 1 /\ pc[n] \in {"started", "failed"}
  => \E n \in Netns : pc[n] = "started"
=============================================================================
