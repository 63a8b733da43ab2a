---------------------------- MODULE MCInterfaces ----------------------------
(* Instances of Interfaces: a pod and a container of its own, or three containers. *)
EXTENDS Interfaces

CONSTANTS pod, box, third

Three == {pod, box, third}
Pods  == {pod}
TwoLinks   == 1..2

\* The third container asks when nothing else happens than first requests.
ContendBounded ==
  \/ creates[third] = 0 /\ asked[third] = {}
  \/ faults = 0 /\ \A n \in Netns : creates[n] <= 1
=============================================================================
