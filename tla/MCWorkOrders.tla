---------------------------- MODULE MCWorkOrders ----------------------------
(* Two requests over two replicas, two fleets contending for one vessel.   *)
EXTENDS WorkOrders, TLC

CONSTANTS r1, r2, p1, p2, v1, v2, f1, f2, e1

MCVesselOf == e1 :> v1
Symmetry == Permutations({r1, r2}) \cup Permutations({p1, p2}) \cup Permutations({f1, f2})
=============================================================================
