----------------------------- MODULE MCSegments -----------------------------
(* Instances of Segments: three texts, two of one length, and white space. *)
EXTENDS Segments
CONSTANTS a, b, q, ws, nil
Lengths == [p \in Parts |-> IF p = Empty THEN 0 ELSE IF p = q THEN 2 ELSE 1]
=============================================================================
