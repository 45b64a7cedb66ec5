---------------------------- MODULE MCAssignment ----------------------------
(* Instances of AssignmentCalls: segments of two lengths, two of them with one hash. *)
EXTENDS AssignmentCalls
CONSTANTS w1, w2, w3, a, b, c, d

TwoUrls == <<w1, w2>>
ThreeUrls == <<w1, w2, w3>>
Sizes == (a :> 3) @@ (b :> 2) @@ (c :> 2) @@ (d :> 1)
Distinct == (a :> 1) @@ (b :> 2) @@ (c :> 3) @@ (d :> 4)
Colliding == (a :> 1) @@ (b :> 2) @@ (c :> 3) @@ (d :> 1)
=============================================================================
