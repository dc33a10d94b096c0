------------------------------- MODULE MCPanels -------------------------------
(* Two vessels of a fleet with a fixture for each; five payloads, some with a *)
(* two-byte character, cut in every way; three questions of two vessels; one  *)
(* run of two model turns; every page with up to four requests; and four terms *)
(* to search for, two of them the same search.                                *)
EXTENDS Panels, TLC

CONSTANTS v1, v2, x1, x2, f1, e1, e2, x

MCVessels == <<v1, v2>>
MCFixtures == <<x1, x2>>
MCBackendOf == x1 :> v1 @@ x2 :> v2
MCFleetOf == v1 :> f1 @@ v2 :> f1
MCVoyages == <<[id |-> x, vessel |-> v1]>>
MCVesselOf == e1 :> v1 @@ e2 :> v2
MCFlagged == v1 :> e1 @@ v2 :> e2 @@ x1 :> x @@ x2 :> x @@ Nobody :> x
MCCaller == [id |-> "u1", role |-> "viewer", fleet |-> f1]

MCFrames == << <<"a", "brace">>, <<"hi", "lo", "brace">>, <<"b", "hi", "lo", "c", "brace">>,
               <<"hi", "lo", "hi", "lo", "brace">>, <<"brace">> >>

MCParamOf == ("" :> "" @@ "a" :> "a" @@ "a " :> "a" @@ "b" :> "b")
MCMatches == "" :> ("all" :> 5 @@ "idle" :> 1) @@ "a" :> ("all" :> 3 @@ "idle" :> 0) @@ "b" :> ("all" :> 0 @@ "idle" :> 0)
===============================================================================
