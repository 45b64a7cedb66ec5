----------------------------- MODULE MCScatter -----------------------------
(* Instances of Scatter for TLC *)
EXTENDS Scatter, TLC

CONSTANTS e1, e2, c1, c2, c3, a, b, x, y

\* one combine request on e1, one segment from e2 and one computed at home
OnePrompt == (c1 :> <<a, b>>)
OneHome == (c1 :> e1)
OneWorker == (<<c1, 1>> :> e2) @@ (<<c1, 2>> :> e1)
\* two prompts without a common segment, each engine combining one of them
CrossPrompt == (c1 :> <<a, b>>) @@ (c2 :> <<x, y>>)
CrossHome == (c1 :> e1) @@ (c2 :> e2)
CrossWorker == (<<c1, 1>> :> e2) @@ (<<c1, 2>> :> e1) @@ (<<c2, 1>> :> e1) @@ (<<c2, 2>> :> e2)
\* two prompts for the same engine, without a common segment
QueuePrompt == (c1 :> <<a>>) @@ (c2 :> <<b>>)
QueueHome == (c1 :> e1) @@ (c2 :> e1)
QueueWorker == (<<c1, 1>> :> e2) @@ (<<c2, 1>> :> e2)
\* two prompts without a common segment, each combined where the other's is computed
MutualHome == (c1 :> e1) @@ (c2 :> e2)
MutualWorker == (<<c1, 1>> :> e2) @@ (<<c2, 1>> :> e1)
\* two prompts that share their segment, computed by the other engine
SharedPrompt == (c1 :> <<a>>) @@ (c2 :> <<a>>)
SharedHome == (c1 :> e1) @@ (c2 :> e1)
SharedWorker == (<<c1, 1>> :> e2) @@ (<<c2, 1>> :> e2)
\* two prompts that share their segment, computed at home and by the other engine
PresentWorker == (<<c1, 1>> :> e1) @@ (<<c2, 1>> :> e2)
\* three prompts on one engine, two of them the same
StalePrompt == (c1 :> <<a>>) @@ (c2 :> <<a>>) @@ (c3 :> <<b>>)
StaleHome == [k \in {c1, c2, c3} |-> e1]
StaleWorker == [k \in {c1, c2, c3} \X {1} |-> e1]
=============================================================================
