---------------------------- MODULE MCVesselRoutes ----------------------------
(* One seeded vessel and two requests; the bodies are creations with either *)
(* IMO number and patches of each attribute.  A request may also read.      *)
EXTENDS VesselRoutes, TLC

CONSTANTS r1, r2, p1, f1, f2, i1, i2, v1, n1, n2

MCSeedRow == v1 :> [imo |-> i1, fleet |-> f1, name |-> n1]

Body(imo, name) == [imo |-> imo, name |-> name]

MCBodies == {Body(i1, n1), Body(i2, n1), Body(i2, Keep), Body(Keep, n2)}

Symmetry == Permutations({r1, r2})
===============================================================================
