-------------------------- MODULE AssignmentCalls --------------------------
(***************************************************************************)
(* Any sequence of scatter requests and directory rebuilds over a fixed    *)
(* list of workers, seen from the routing state alone: the pic_lpt policy. *)
(***************************************************************************)
EXTENDS Assignment, FiniteSets

CONSTANTS
  Url,       \* the prefill workers, in the order the registry lists them
  MaxSegs,   \* bound: scattered segments of a prompt
  MaxLoad    \* bound: no request is taken at a load above this

Worker == Range(Url)
Prompts == BoundedSeq(Seg, MaxSegs)
Call(segs, state) == assign_with_directory(segs, Url, state, TRUE)

VARIABLES route   \* pic_route_state

Init == route = [dir |-> [h \in Keys |-> None], cursor |-> 0, loads |-> [w \in Worker |-> 0]]

\* scatter_prefill assigns the segments of a request under the lock
Scatter(segs) ==
  /\ \A w \in Worker : route.loads[w] <= MaxLoad
  /\ LET n == Call(segs, route)
     IN route' = [dir |-> n.dir, cursor |-> n.cursor, loads |-> n.loads]

\* a rebuild brings whatever the workers report
Swap(dir) ==
  route' = [route EXCEPT !.dir = dir, !.loads = [w \in Worker |-> route.loads[w] \div 2]]

Next ==
  \/ \E segs \in Prompts : Scatter(segs)
  \/ \E dir \in [Keys -> Worker \cup {None}] : Swap(dir)

Spec == Init /\ [][Next]_route

----------------------------------------------------------------------------
\* The LPT pass gives the longest segment to the least loaded worker and the
\* rebuild halves every load: over any sequence of requests the loads of two
\* workers are never further apart than the longest segment.
LoadsBalanced ==
  \A v, w \in Worker : \E s \in Seg : route.loads[v] - route.loads[w] <= Size[s]

Orders(segs) == {p \in [DOMAIN segs -> DOMAIN segs] : IsInjective(p)}
Permuted(segs, p) == [i \in DOMAIN segs |-> segs[p[i]]]

\* The LPT pass sorts the misses and collapses equal ones: the loads it leaves do
\* not depend on the order of the segments in the prompt, ties included.
LoadsOrderFree ==
  \A segs \in Prompts : \A p \in Orders(segs) :
    Call(Permuted(segs, p), route).loads = Call(segs, route).loads

\* The same of the result, as assign_with_directory's comment has it: each
\* segment goes to the same worker in every order of the prompt.
ResultOrderFree ==
  \A segs \in Prompts : \A p \in Orders(segs) :
    Call(Permuted(segs, p), route).out = Permuted(Call(segs, route).out, p)

\* No order of prompts and no directory makes a call give one segment to two
\* workers, move one that the directory knows, or leave one without a worker.
HoldersKept ==
  \A segs \in Prompts : LET n == Call(segs, route) IN
    /\ \A i \in DOMAIN segs : n.out[i] \in Worker /\ n.dir[Hash[segs[i]]] = n.out[i]
    /\ \A h \in Keys : route.dir[h] # None => n.dir[h] = route.dir[h]
=============================================================================
