----------------------------- MODULE Assignment -----------------------------
(***************************************************************************)
(* assign_with_directory: which prefill worker gets which segment.         *)
(* The routing state is a record: dir (text_hash -> holder), cursor (the   *)
(* round-robin position) and loads (bytes given to each worker).           *)
(***************************************************************************)
EXTENDS Integers, Sequences, SequencesExt

CONSTANTS
  Seg,      \* segment texts
  Size,     \* Size[s]: the length of a segment in bytes
  Hash,     \* Hash[s]: its text_hash; two texts may share one
  None

Keys == {Hash[s] : s \in Seg}

\* faulty: the first worker
LeastLoaded_First(workers, loads) == workers[1]
\* the first worker with the least load
LeastLoaded(workers, loads) ==
  workers[CHOOSE i \in DOMAIN workers :
            \A j \in DOMAIN workers :
              \/ loads[workers[i]] < loads[workers[j]]
              \/ loads[workers[i]] = loads[workers[j]] /\ i <= j]

\* one position of the round-robin pass; acc is the routing state and the result
TakeTurn(workers, segs, acc, i) ==
  LET h == Hash[segs[i]]
      w == workers[(acc.cursor % Len(workers)) + 1]
  IN IF acc.dir[h] # None
       THEN [acc EXCEPT !.out[i] = acc.dir[h]]
       ELSE [acc EXCEPT !.out[i] = w, !.dir[h] = w, !.cursor = @ + 1]

\* faulty: an equal segment earlier in the same call is not looked up
TakeLeast_NoCollapse(workers, segs, acc, i) ==
  LET w == LeastLoaded(workers, acc.loads)
  IN [acc EXCEPT !.out[i] = w, !.dir[Hash[segs[i]]] = w, !.loads[w] = @ + Size[segs[i]]]

\* one missing position of the second LPT pass
TakeLeast(workers, segs, acc, i) ==
  LET h == Hash[segs[i]]
      w == LeastLoaded(workers, acc.loads)
  IN IF acc.dir[h] # None
       THEN [acc EXCEPT !.out[i] = acc.dir[h]]
       ELSE [acc EXCEPT !.out[i] = w, !.dir[h] = w, !.loads[w] = @ + Size[segs[i]]]

\* faulty: in the order of the prompt
LongestFirst_Unsorted(segs, I) == SetToSortSeq(I, LAMBDA i, j : i < j)
\* the positions I, the longest segment first, equal ones in the order of the prompt
LongestFirst(segs, I) ==
  SetToSortSeq(I, LAMBDA i, j : \/ Size[segs[i]] > Size[segs[j]]
                                \/ Size[segs[i]] = Size[segs[j]] /\ i < j)

\* the routing state after a call, with the worker of each position in out
assign_with_directory(segs, workers, state, lpt) ==
  LET hits == {i \in DOMAIN segs : state.dir[Hash[segs[i]]] # None}
      start == [dir |-> state.dir, cursor |-> state.cursor, loads |-> state.loads,
                out |-> [i \in DOMAIN segs |->
                           IF lpt /\ i \in hits THEN state.dir[Hash[segs[i]]] ELSE None]]
  IN IF lpt
       THEN FoldLeft(LAMBDA acc, i : TakeLeast(workers, segs, acc, i), start,
                     LongestFirst(segs, DOMAIN segs \ hits))
       ELSE FoldLeft(LAMBDA acc, i : TakeTurn(workers, segs, acc, i), start,
                     [i \in DOMAIN segs |-> i])
=============================================================================
