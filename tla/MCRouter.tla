------------------------------ MODULE MCRouter ------------------------------
(* Instances of Router: two workers, requests of one segment. *)
EXTENDS Router
CONSTANTS w1, w2, r1, r2, a, b

TwoUrls == <<w1, w2>>
Sizes == (a :> 3) @@ (b :> 2)
Distinct == (a :> 1) @@ (b :> 2)

\* requests of one segment
Same == (r1 :> <<a>>) @@ (r2 :> <<a>>)
One == r1 :> <<a>>
=============================================================================
