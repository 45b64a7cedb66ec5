----------------------------- MODULE MCPICache -----------------------------
(* Small instances of PICache. *)
EXTENDS PICache

\* the free list in increasing order, given to the needs in order of request,
\* kind of slot (private, public, then the others) and position
KindRank(k) == CASE k = "priv" -> 0 [] k = "pub" -> 1 [] OTHER -> 2
NeedRank(x) == 1000 * x[1] + 100 * KindRank(x[2][1]) + x[2][2]
CopyRank(c) == 100 * c[1] + c[2]
LowestFirst(bag, needs) ==
  LET copies == UNION {{<<s, n>> : n \in 1 .. bag[s]} : s \in DOMAIN bag}
      nth(k) == CHOOSE c \in copies :
                  Cardinality({d \in copies : CopyRank(d) < CopyRank(c)}) = k
  IN {[x \in needs |-> nth(Cardinality({y \in needs : NeedRank(y) < NeedRank(x)}))[1]]}

CONSTANTS a, b, c, q
\* one warm-up prompt per segment, and prompts of segments followed by a query
ScatterAndAsk == {<<a>>, <<b>>, <<a, q>>, <<a, b, q>>, <<b, a, q>>}
LongAsk == {<<a>>, <<b>>, <<c>>, <<a, b, c, q>>}
AskTwo == {<<a, q>>, <<b, a, q>>}
ShortAsk == {<<a, q>>, <<b, a, q>>, <<a, b, q>>}
ShortAlone == {<<b>>, <<a, q>>}
AskRepeat == {<<a>>, <<a, a, q>>}

\* cached slots that are freed again pile up on the free list (see README):
\* explore until one slot is there MaxCopies times
MaxCopies == 2
FewCopies == (\A s \in KV : kvFree[s] <= MaxCopies) /\ (\A s \in Mamba : mbFree[s] <= MaxCopies)
=============================================================================
