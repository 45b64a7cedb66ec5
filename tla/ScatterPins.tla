---------------------------- MODULE ScatterPins -----------------------------
(***************************************************************************)
(* The holds of a combine request, when no two requests have a segment on  *)
(* the same engine: what it waited for stays in its cache until it is      *)
(* launched, and locked until its KV is sent.                              *)
(***************************************************************************)
EXTENDS ScatterTypes

\* Leaves are given to Zenon; those that need arithmetic or nested function updates name SMT.
USE ZenonT(40) DEF cacheVars, reqVars, xferVars, envVars

-----------------------------------------------------------------------------
(* Frames: which steps leave the locks and requests of a segment alone *)

\* No two scattered positions with the same segment meet on an engine.
Apart ==
  \A j, k \in Key : j # k /\ SegOf(j) = SegOf(k)
                      => {Worker[j], HomeOf(j)} \cap {Worker[k], HomeOf(k)} = {}

\* What a combine request has locked or missed are segments of its prompt.
CombInv(c) ==
  /\ live[c] \subseteq Gated(c)
  /\ live[c] # {} => comb[c] \in {"running", "sending"}
  /\ comb[c] \in {"running", "sending"} => Missed(c) \subseteq Gated(c)

\* A step leaves the segment of k alone: at its two engines no lock changes, and
\* an entry disappears only if it is not locked.
Undisturbed(k) ==
  \A e \in {Worker[k], HomeOf(k)} :
    /\ lock'[e][SegOf(k)] = lock[e][SegOf(k)]
    /\ \/ entry'[e][SegOf(k)] = entry[e][SegOf(k)]
       \/ lock[e][SegOf(k)] = 0 /\ entry'[e][SegOf(k)] = None

\* ... and its requests and transfers.
KeyKept(k) ==
  /\ sub'[k] = sub[k] /\ handle'[k] = handle[k] /\ dst'[k] = dst[k] /\ wire'[k] = wire[k]
  /\ src'[k] = src[k] /\ (k \in push' <=> k \in push) /\ (k \in infl' <=> k \in infl)
CombKept(c) ==
  /\ comb'[c] = comb[c] /\ slots'[c] = slots[c] /\ live'[c] \subseteq live[c]
  /\ \A h \in live[c] : lock[Home[c]][h] # 0 => h \in live'[c]
Foreign(k) == Undisturbed(k) /\ KeyKept(k) /\ CombKept(k[1])

\* The segments of a combine request are those of its keys.
LEMMA GatedKey ==
  ASSUME NEW c \in Comb, NEW h \in Gated(c)
  PROVE  h \in Seg /\ \E k \in Key : k[1] = c /\ SegOf(k) = h /\ HomeOf(k) = Home[c]
<1>1. Prompt[c] \in Seq(Seg)
  BY ScatterAssumption
<1>2. PICK i \in DOMAIN Prompt[c] : Prompt[c][i] = h
  BY DEF Gated, Range
<1>3. <<c, i>> \in Key
  BY SMTT(30) DEF Key
<1>4. SegOf(<<c, i>>) = h /\ HomeOf(<<c, i>>) = Home[c]
  BY <1>2 DEF SegOf, HomeOf
<1> QED BY SMTT(30), <1>1, <1>2, <1>3, <1>4

\* A combine request on an engine of k has no segment in common with k unless k
\* is its own.
LEMMA ApartGated ==
  ASSUME Apart, NEW k \in Key, NEW d \in Comb, Home[d] \in {Worker[k], HomeOf(k)},
         SegOf(k) \in Gated(d)
  PROVE  d = k[1] /\ Home[d] = HomeOf(k)
<1>1. PICK j \in Key : j[1] = d /\ SegOf(j) = SegOf(k) /\ HomeOf(j) = Home[d]
  BY GatedKey
<1>2. j = k
  BY <1>1 DEF Apart
<1> QED BY <1>1, <1>2

\* Nor does another key.
LEMMA ApartKey ==
  ASSUME Apart, NEW k \in Key, NEW j \in Key, j # k, NEW e \in {Worker[k], HomeOf(k)},
         e \in {Worker[j], HomeOf(j)}
  PROVE  SegOf(j) # SegOf(k)
BY DEF Apart

\* A segment occurs at most once in a prompt.
LEMMA ApartOnce ==
  ASSUME Apart, NEW k \in Key
  PROVE  Cardinality({i \in DOMAIN Prompt[k[1]] : Prompt[k[1]][i] = SegOf(k)}) = 1
<1> DEFINE I == {i \in DOMAIN Prompt[k[1]] : Prompt[k[1]][i] = SegOf(k)}
<1>0. k[1] \in Comb /\ k[2] \in DOMAIN Prompt[k[1]] /\ k = <<k[1], k[2]>>
  BY KeyType
<1>1. k[2] \in I
  BY <1>0 DEF SegOf
<1>2. ASSUME NEW i \in I PROVE i = k[2]
  <2>1. <<k[1], i>> \in Key
    BY SMTT(30), <1>0 DEF Key
  <2>2. SegOf(<<k[1], i>>) = SegOf(k) /\ HomeOf(<<k[1], i>>) = HomeOf(k)
    BY DEF SegOf, HomeOf
  <2>3. <<k[1], i>> = k
    BY <2>1, <2>2 DEF Apart
  <2> QED BY SMTT(30), <1>0, <2>3
<1>3. I = {k[2]}
  BY <1>1, <1>2
<1> QED BY <1>3, FS_Singleton

\* Steps that touch neither the cache nor the key nor its combine request.
LEMMA ForeignQuiet ==
  ASSUME NEW k \in Key, UNCHANGED <<entry, lock, live>>, KeyKept(k),
         comb'[k[1]] = comb[k[1]], slots'[k[1]] = slots[k[1]]
  PROVE  Foreign(k)
BY DEF Foreign, Undisturbed, CombKept

\* Steps that touch another segment of one engine.
LEMMA ForeignAt ==
  ASSUME TypeOK, NEW k \in Key, NEW e \in Eng, NEW l, NEW E,
         lock' = [lock EXCEPT ![e] = l], entry' = [entry EXCEPT ![e] = E],
         e \in {Worker[k], HomeOf(k)} => l[SegOf(k)] = lock[e][SegOf(k)] /\ E[SegOf(k)] = entry[e][SegOf(k)],
         KeyKept(k), comb'[k[1]] = comb[k[1]], slots'[k[1]] = slots[k[1]], live'[k[1]] = live[k[1]]
  PROVE  Foreign(k)
<1>1. Undisturbed(k)
  <2> SUFFICES ASSUME NEW d \in {Worker[k], HomeOf(k)}
               PROVE  lock'[d][SegOf(k)] = lock[d][SegOf(k)] /\ entry'[d][SegOf(k)] = entry[d][SegOf(k)]
    BY DEF Undisturbed
  <2>1. d \in Eng
    BY SMTT(30), KeyType
  <2> QED BY <2>1 DEF TypeOK
<1> QED BY <1>1 DEF Foreign, CombKept

\* Steps of an eviction.
LEMMA ForeignEvict ==
  ASSUME TypeOK, NEW k \in Key, NEW e \in Eng, NEW V, UNCHANGED lock,
         \A h \in V : lock[e][h] = 0,
         entry' = [entry EXCEPT ![e] = Without(e, V)],
         live' = [d \in Comb |-> IF Home[d] = e THEN live[d] \ V ELSE live[d]],
         KeyKept(k), comb'[k[1]] = comb[k[1]], slots'[k[1]] = slots[k[1]]
  PROVE  Foreign(k)
<1>0. SegOf(k) \in Seg /\ k[1] \in Comb /\ Worker[k] \in Eng /\ HomeOf(k) \in Eng
  BY KeyType
<1>1. Undisturbed(k)
  BY SMTT(30), <1>0 DEF Undisturbed, Without, TypeOK
<1>2. CombKept(k[1])
  BY <1>0 DEF CombKept
<1> QED BY <1>1, <1>2 DEF Foreign

\* Steps of the engine another segment was given to.
LEMMA ForeignWorker ==
  ASSUME Apart, TypeInv, NEW k \in Key, NEW j \in Key, j # k, WorkerStep(j)
  PROVE  Foreign(k)
<1>0. /\ TypeOK /\ SegOf(k) \in Seg /\ SegOf(j) \in Seg /\ Worker[j] \in Eng /\ k[1] \in Comb
      /\ j \notin Comb /\ k[1] # j
  BY KeyType DEF TypeInv
<1> DEFINE e == Worker[j]
           h == SegOf(k)
<1>1. e \in {Worker[k], HomeOf(k)} => SegOf(j) # h
  BY ApartKey
<1>2. \A l \in [Seg -> Nat] : \A S : h \notin S => Inc(l, S)[h] = l[h] /\ Dec(l, S)[h] = l[h]
  BY <1>0 DEF Inc, Dec
<1>3. lock[e] \in [Seg -> Nat] /\ entry[e] \in [Seg -> Slot \cup {None}]
  BY <1>0 DEF TypeOK
<1>4. lock = [lock EXCEPT ![e] = lock[e]] /\ entry = [entry EXCEPT ![e] = entry[e]]
  BY <1>0 DEF TypeOK
<1>5. CASE RecvSub(j)
  <2>1. KeyKept(k) /\ UNCHANGED <<entry, comb, slots, live>>
    BY <1>0, <1>5 DEF RecvSub, KeyKept, TypeOK
  <2>2. CASE lock' = [lock EXCEPT ![e] = Inc(@, {SegOf(j)})]
    <3>1. e \in {Worker[k], HomeOf(k)} => Inc(lock[e], {SegOf(j)})[h] = lock[e][h]
      BY <1>1, <1>2, <1>3
    <3>2. entry' = [entry EXCEPT ![e] = entry[e]]
      BY <1>4, <2>1
    <3> QED BY <1>0, <2>1, <2>2, <3>1, <3>2, ForeignAt
  <2>3. CASE UNCHANGED lock
    BY <2>1, <2>3, ForeignQuiet
  <2> QED BY <1>5, <2>2, <2>3 DEF RecvSub
<1>6. CASE RecvHandle(j)
  <2>1. KeyKept(k) /\ UNCHANGED <<entry, lock, comb, slots, live>>
    BY <1>0, <1>6 DEF RecvHandle, KeyKept, TypeOK
  <2> QED BY <2>1, ForeignQuiet
<1>7. ASSUME NEW s, Fire(j, s) PROVE /\ handle'[k] = handle[k] /\ wire'[k] = wire[k] /\ src'[k] = src[k]
                                     /\ (k \in infl' <=> k \in infl)
  <2>1. PICK n : wire' = [wire EXCEPT ![j] = n]
    BY <1>7 DEF Fire
  <2> QED BY <1>0, <1>7, <2>1 DEF Fire, TypeOK
<1>8. CASE PushPending(j)
  <2>1. /\ UNCHANGED <<entry, sub, comb, slots, live, dst>> /\ push' = push \ {j}
        /\ (\E s : Fire(j, s)) \/ UNCHANGED <<handle, src, infl, wire>>
    BY <1>8 DEF PushPending
  <2>2. KeyKept(k)
    BY <1>7, <2>1 DEF KeyKept
  <2>3. PICK l : /\ lock' = [lock EXCEPT ![e] = l]
                 /\ l \in {lock[e], Inc(Dec(lock[e], {SegOf(j)}), {SegOf(j)}), Dec(lock[e], {SegOf(j)} \cap Cached(e))}
    BY <1>4, <1>8 DEF PushPending
  <2>4. e \in {Worker[k], HomeOf(k)} => l[h] = lock[e][h]
    <3> SUFFICES ASSUME h \notin {SegOf(j)} PROVE l[h] = lock[e][h]
      BY <1>1
    <3>1. Dec(lock[e], {SegOf(j)}) \in [Seg -> Nat]
      BY <1>3, IncDecType
    <3>2. Dec(lock[e], {SegOf(j)})[h] = lock[e][h] /\ Dec(lock[e], {SegOf(j)} \cap Cached(e))[h] = lock[e][h]
      BY <1>2, <1>3
    <3>3. Inc(Dec(lock[e], {SegOf(j)}), {SegOf(j)})[h] = lock[e][h]
      BY <1>2, <3>1, <3>2
    <3> QED BY <2>3, <3>2, <3>3
  <2>5. entry' = [entry EXCEPT ![e] = entry[e]]
    BY <1>4, <2>1
  <2> QED BY <1>0, <2>1, <2>2, <2>3, <2>4, <2>5, ForeignAt
<1>9. CASE Reap(j)
  <2>1. KeyKept(k) /\ UNCHANGED <<entry, comb, slots, live>>
    BY <1>0, <1>9 DEF Reap, KeyKept
  <2>2. lock' = [lock EXCEPT ![e] = Dec(lock[e], {SegOf(j)} \cap Cached(e))]
    BY <1>9 DEF Reap
  <2>3. e \in {Worker[k], HomeOf(k)} => Dec(lock[e], {SegOf(j)} \cap Cached(e))[h] = lock[e][h]
    BY <1>1, <1>2, <1>3
  <2>4. entry' = [entry EXCEPT ![e] = entry[e]]
    BY <1>4, <2>1
  <2> QED BY <1>0, <2>1, <2>2, <2>3, <2>4, ForeignAt
<1>10. ASSUME NEW E, NEW l \in [Seg -> Nat], Retire(j, E, l), UNCHANGED dst
       PROVE  /\ KeyKept(k)
              /\ \E m : /\ lock' = [lock EXCEPT ![e] = m]
                        /\ (e \in {Worker[k], HomeOf(k)} => m[h] = l[h])
  <2>1. /\ sub' = [sub EXCEPT ![j] = "retired"] /\ (push' = push \/ push' = push \cup {j})
        /\ (\E s : Fire(j, s)) \/ UNCHANGED <<handle, src, infl, wire>>
    BY <1>10 DEF Retire
  <2>2. KeyKept(k)
    <3>1. /\ handle'[k] = handle[k] /\ wire'[k] = wire[k] /\ src'[k] = src[k]
          /\ (k \in infl' <=> k \in infl)
      BY <1>7, <2>1
    <3>2. sub'[k] = sub[k]
      BY <1>0, <2>1 DEF TypeOK
    <3> QED BY <1>10, <2>1, <3>1, <3>2 DEF KeyKept
  <2>3. Inc(l, {SegOf(j)}) \in [Seg -> Nat]
    BY IncDecType
  <2>4. h # SegOf(j) => Handover(l, SegOf(j))[h] = l[h]
    <3> SUFFICES ASSUME h \notin {SegOf(j)} PROVE Dec(Inc(l, {SegOf(j)}), {SegOf(j)})[h] = l[h]
      BY DEF Handover
    <3>1. Inc(l, {SegOf(j)})[h] = l[h]
      BY <1>2
    <3>2. Dec(Inc(l, {SegOf(j)}), {SegOf(j)})[h] = Inc(l, {SegOf(j)})[h]
      BY <1>2, <2>3
    <3> QED BY <3>1, <3>2
  <2>5. lock' = [lock EXCEPT ![e] = IF E[SegOf(j)] = None THEN l ELSE Handover(l, SegOf(j))]
    BY <1>10 DEF Retire
  <2> DEFINE m == IF E[SegOf(j)] = None THEN l ELSE Handover(l, SegOf(j))
  <2>6. e \in {Worker[k], HomeOf(k)} => m[h] = l[h]
    BY <1>1, <2>4
  <2>7. lock' = [lock EXCEPT ![e] = m]
    BY <2>5
  <2> HIDE DEF m, h, e
  <2> QED BY <2>2, <2>6, <2>7
<1>11. CASE HitRetire(j)
  <2>1. Retire(j, entry[e], lock[e]) /\ UNCHANGED <<entry, comb, slots, live, dst>>
    BY <1>11 DEF HitRetire
  <2>2. entry' = [entry EXCEPT ![e] = entry[e]]
    BY <1>4, <2>1
  <2>3. PICK m : lock' = [lock EXCEPT ![e] = m] /\ (e \in {Worker[k], HomeOf(k)} => m[h] = lock[e][h])
    BY <1>3, <1>10, <2>1
  <2>4. KeyKept(k)
    BY <1>3, <1>10, <2>1
  <2> QED BY <1>0, <2>1, <2>2, <2>3, <2>4, ForeignAt
<1>12. CASE SubResult(j)
  <2> DEFINE M == {SegOf(j)} \ Short
  <2>1. /\ Retire(j, Registered(e, j, M), Protected(e, M)) /\ UNCHANGED <<comb, live, dst>>
        /\ entry' = [entry EXCEPT ![e] = Registered(e, j, M)]
        /\ slots' = [slots EXCEPT ![j] = NoSlots]
    BY <1>12 DEF SubResult
  <2>2. slots'[k[1]] = slots[k[1]]
    BY <1>0, <2>1 DEF TypeOK
  <2>3. Protected(e, M) \in [Seg -> Nat]
    BY <1>3, IncDecType DEF Protected
  <2>4. h # SegOf(j) => Protected(e, M)[h] = lock[e][h] /\ Registered(e, j, M)[h] = entry[e][h]
    BY <1>0, <1>2, <1>3 DEF Protected, Registered, NewSegs
  <2>5. PICK m : lock' = [lock EXCEPT ![e] = m] /\ (e \in {Worker[k], HomeOf(k)} => m[h] = Protected(e, M)[h])
    BY <1>10, <2>1, <2>3
  <2>6. KeyKept(k)
    BY <1>10, <2>1, <2>3
  <2> HIDE DEF M
  <2> QED BY <1>0, <1>1, <2>1, <2>2, <2>4, <2>5, <2>6, ForeignAt
<1> QED BY <1>5, <1>6, <1>8, <1>9, <1>11, <1>12 DEF WorkerStep

\* Steps of the engine that combines another segment.
LEMMA ForeignHome ==
  ASSUME Apart, TypeInv, Fresh, NEW k \in Key, NEW j \in Key, j # k, HomeStep(j)
  PROVE  Foreign(k)
<1> DEFINE e == HomeOf(j)
           h == SegOf(k)
<1>0. TypeOK /\ h \in Seg /\ SegOf(j) \in Seg /\ e \in Eng /\ k[1] \in Comb /\ e = Home[j[1]]
  BY KeyType DEF TypeInv, HomeOf
<1>1. CASE Prealloc(j)
  <2>1. UNCHANGED <<lock, sub, comb, slots, push, infl, wire, src>>
    BY <1>1 DEF Prealloc
  <2>2. handle'[k] = handle[k] /\ dst'[k] = dst[k]
    BY SMTT(30), <1>0, <1>1 DEF Prealloc, TypeOK
  <2>3. KeyKept(k)
    BY <2>1, <2>2 DEF KeyKept
  <2>4. CASE UNCHANGED <<entry, free, live, dst, to>>
    BY <2>1, <2>3, <2>4, ForeignQuiet
  <2>5. ASSUME NEW V \in Evictions(e, 1, {}),
               entry' = [entry EXCEPT ![e] = Without(e, V)],
               live' = [d \in Comb |-> IF Home[d] = e THEN live[d] \ V ELSE live[d]]
        PROVE  Foreign(k)
    <3>1. \A x \in V : lock[e][x] = 0
      BY SMTT(30), <1>0, EvictionFacts
    <3> QED BY <1>0, <2>1, <2>3, <2>5, <3>1, ForeignEvict
  <2> QED BY SMTT(30), <1>0, <1>1, <2>4, <2>5 DEF Prealloc
<1>2. CASE Inject(j)
  <2>1. /\ UNCHANGED <<sub, comb, slots, live, handle, push, infl, wire, src>>
        /\ dst' = [dst EXCEPT ![j] = None] /\ lock' = [lock EXCEPT ![e] = Inc(lock[e], {SegOf(j)})]
    BY <1>2 DEF Inject
  <2>2. KeyKept(k)
    BY <1>0, <2>1 DEF KeyKept, TypeOK
  <2>3. PICK E : /\ entry' = [entry EXCEPT ![e] = E]
                 /\ E = entry[e] \/ E = [entry[e] EXCEPT ![SegOf(j)] = dst[j]]
    BY <1>0, <1>2 DEF Inject, TypeOK
  <2>4. e \in {Worker[k], HomeOf(k)} => Inc(lock[e], {SegOf(j)})[h] = lock[e][h] /\ E[h] = entry[e][h]
    <3> SUFFICES ASSUME SegOf(j) # h PROVE Inc(lock[e], {SegOf(j)})[h] = lock[e][h] /\ E[h] = entry[e][h]
      BY ApartKey
    <3> QED BY SMTT(30), <1>0, <2>3 DEF Inc, TypeOK
  <2> QED BY <1>0, <2>1, <2>2, <2>3, <2>4, ForeignAt
<1> QED BY <1>1, <1>2 DEF HomeStep

\* Steps of another combine request.
LEMMA ForeignCombine ==
  ASSUME Apart, TypeInv, NEW k \in Key, NEW d \in Comb, d # k[1], CombInv(d), CombineStep(d)
  PROVE  Foreign(k)
<1> DEFINE e == Home[d]
           h == SegOf(k)
           M == Missed(d)
<1>0. TypeOK /\ h \in Seg /\ e \in Eng /\ k[1] \in Comb /\ k \notin Comb /\ d \notin Key
  BY KeyType, ScatterAssumption DEF TypeInv
<1>1. e \in {Worker[k], HomeOf(k)} => h \notin Gated(d)
  BY ApartGated
<1>2. lock[e] \in [Seg -> Nat] /\ entry[e] \in [Seg -> Slot \cup {None}]
  BY <1>0 DEF TypeOK
<1>3. lock = [lock EXCEPT ![e] = lock[e]] /\ entry = [entry EXCEPT ![e] = entry[e]]
  BY <1>0 DEF TypeOK
<1>4. CASE RecvCombine(d) \/ Gate(d) \/ Bootstrapped(d)
  <2>1. UNCHANGED <<entry, lock, sub, slots, live, dst, handle, push, infl, wire, src>>
    BY <1>4 DEF RecvCombine, Gate, Bootstrapped
  <2>2. comb'[k[1]] = comb[k[1]]
    BY SMTT(30), <1>0, <1>4 DEF RecvCombine, Gate, Bootstrapped, TypeOK
  <2>3. KeyKept(k)
    BY <2>1 DEF KeyKept
  <2> QED BY <2>1, <2>2, <2>3, ForeignQuiet
<1>5. CASE Release(d)
  <2>1. /\ UNCHANGED <<entry, sub, slots, live, handle, push, infl, wire, src>>
        /\ comb'[k[1]] = comb[k[1]]
    BY <1>0, <1>5 DEF Release, TypeOK
  <2>2. dst'[k] = dst[k]
    BY <1>0, <1>5 DEF Release, FreePending, KeysOf
  <2>3. KeyKept(k)
    BY <2>1, <2>2 DEF KeyKept
  <2>4. CASE UNCHANGED lock
    BY <2>1, <2>3, <2>4, ForeignQuiet
  <2>5. CASE lock' = [lock EXCEPT ![e] = DropHolds(lock[e], d)]
    <3>1. e \in {Worker[k], HomeOf(k)} => DropHolds(lock[e], d)[h] = lock[e][h]
      BY SMTT(30), <1>0, <1>1, <1>2, DropHoldsType
    <3>2. entry' = [entry EXCEPT ![e] = entry[e]]
      BY <1>3, <2>1
    <3> QED BY <1>0, <2>1, <2>3, <2>5, <3>1, <3>2, ForeignAt
  <2> QED BY <1>5, <2>4, <2>5 DEF Release
<1>6. M \in SUBSET Seg /\ Public(M) \subseteq DOMAIN slots[d]
  BY SMTT(30) DEF Missed, Public
<1>7. comb[d] \in {"running", "sending"} /\ h \notin Gated(d) => h \notin M /\ h \notin live[d]
  BY DEF CombInv
<1> HIDE DEF M
<1>8. /\ Protected(e, M) \in [Seg -> Nat]
      /\ h \notin M => Registered(e, d, M)[h] = entry[e][h] /\ Protected(e, M)[h] = lock[e][h]
  BY <1>0, <1>2, IncDecType DEF Protected, Registered, NewSegs, Inc
<1>9. CASE CombineResult(d)
  <2>1. /\ entry' = [entry EXCEPT ![e] = Registered(e, d, M)]
        /\ lock' = [lock EXCEPT ![e] = DropHolds(Protected(e, M), d)]
        /\ live' = [live EXCEPT ![d] = @ \cup M] /\ comb' = [comb EXCEPT ![d] = "sending"]
        /\ UNCHANGED <<sub, slots, dst, handle, push, infl, wire, src>> /\ comb[d] = "running"
    BY <1>9 DEF CombineResult, M
  <2>2. KeyKept(k) /\ comb'[k[1]] = comb[k[1]] /\ live'[k[1]] = live[k[1]]
    BY <1>0, <2>1 DEF KeyKept, TypeOK
  <2>3. e \in {Worker[k], HomeOf(k)} => /\ DropHolds(Protected(e, M), d)[h] = lock[e][h]
                                        /\ Registered(e, d, M)[h] = entry[e][h]
    BY SMTT(30), <1>0, <1>1, <1>7, <1>8, <2>1, DropHoldsType
  <2> QED BY <1>0, <2>1, <2>2, <2>3, ForeignAt
<1>10. CASE SendDone(d)
  <2>1. /\ entry' = [entry EXCEPT ![e] = Registered(e, d, M)]
        /\ lock' = [lock EXCEPT ![e] = Dec(Protected(e, M), live[d] \cup M)]
        /\ live' = [live EXCEPT ![d] = {}] /\ comb' = [comb EXCEPT ![d] = "done"]
        /\ slots' = [slots EXCEPT ![d] = NoSlots]
        /\ UNCHANGED <<sub, dst, handle, push, infl, wire, src>> /\ comb[d] = "sending"
    BY <1>10 DEF SendDone, M, Items
  <2>2. /\ KeyKept(k) /\ comb'[k[1]] = comb[k[1]] /\ live'[k[1]] = live[k[1]]
        /\ slots'[k[1]] = slots[k[1]]
    BY <1>0, <2>1 DEF KeyKept, TypeOK
  <2>3. e \in {Worker[k], HomeOf(k)} => /\ Dec(Protected(e, M), live[d] \cup M)[h] = lock[e][h]
                                        /\ Registered(e, d, M)[h] = entry[e][h]
    BY <1>0, <1>1, <1>7, <1>8, <2>1 DEF Dec
  <2> QED BY <1>0, <2>1, <2>2, <2>3, ForeignAt
<1> QED BY <1>4, <1>5, <1>9, <1>10 DEF CombineStep

-----------------------------------------------------------------------------
(* A batch is launched *)

\* What a batch of engine e does to the segment of k and to its combine request.
Admits(e, R, k) ==
  LET h == SegOf(k)
      c == k[1]
      hit == c \in R /\ h \in Hits(c)
  IN /\ R \subseteq Waiting(e)
     /\ handle' = handle /\ dst' = dst /\ wire' = wire /\ src' = src /\ push' = push /\ infl' = infl
     /\ sub'[k] = IF k \in R THEN "running" ELSE sub[k]
     /\ comb'[c] = IF c \in R THEN "running" ELSE comb[c]
     /\ \A d \in {Worker[k], HomeOf(k)} :
          /\ lock'[d][h] = IF d = HomeOf(k) /\ hit THEN lock[d][h] + 1 ELSE lock[d][h]
          /\ \/ entry'[d][h] = entry[d][h]
             \/ lock[d][h] = 0 /\ entry'[d][h] = None /\ ~(d = HomeOf(k) /\ hit)
     /\ c \in R => live'[c] = Hits(c) /\ DOMAIN slots'[c] = Needs(c)
     /\ c \notin R => CombKept(c)

\* get_new_batch_prefill evicts unlocked entries only, and never what the batch hit.
LEMMA LaunchAdmits ==
  ASSUME Apart, TypeInv, NEW e \in Eng, Launch(e), NEW k \in Key
  PROVE  \E R : Admits(e, R, k)
<1> DEFINE h == SegOf(k)
           c == k[1]
<1>0. /\ TypeOK /\ h \in Seg /\ c \in Comb /\ Worker[k] \in Eng /\ HomeOf(k) \in Eng
      /\ HomeOf(k) = Home[c]
  BY KeyType DEF TypeInv, HomeOf
<1>1. PICK R \in Batches(e) : \E V \in Evictions(e, Cardinality(BatchNeeds(R)), BatchHits(R)) :
         /\ entry' = [entry EXCEPT ![e] = Without(e, V)]
         /\ slots' = [r \in Key \cup Comb |->
                        IF r \in R THEN [n \in Needs(r) |-> Given(Pool(e, V), BatchNeeds(R))[<<r, n>>]]
                        ELSE slots[r]]
         /\ lock' = [lock EXCEPT ![e] =
                       [x \in Seg |-> @[x] + Cardinality({d \in R \cap Comb : x \in Hits(d)})]]
         /\ live' = [d \in Comb |-> IF d \in R THEN Hits(d)
                                    ELSE IF Home[d] = e THEN live[d] \ V ELSE live[d]]
         /\ sub' = [j \in Key |-> IF j \in R THEN "running" ELSE sub[j]]
         /\ comb' = [d \in Comb |-> IF d \in R THEN "running" ELSE comb[d]]
  BY DEF Launch
<1>2. PICK V \in Evictions(e, Cardinality(BatchNeeds(R)), BatchHits(R)) :
         /\ entry' = [entry EXCEPT ![e] = Without(e, V)]
         /\ slots' = [r \in Key \cup Comb |->
                        IF r \in R THEN [n \in Needs(r) |-> Given(Pool(e, V), BatchNeeds(R))[<<r, n>>]]
                        ELSE slots[r]]
         /\ lock' = [lock EXCEPT ![e] =
                       [x \in Seg |-> @[x] + Cardinality({d \in R \cap Comb : x \in Hits(d)})]]
         /\ live' = [d \in Comb |-> IF d \in R THEN Hits(d)
                                    ELSE IF Home[d] = e THEN live[d] \ V ELSE live[d]]
         /\ sub' = [j \in Key |-> IF j \in R THEN "running" ELSE sub[j]]
         /\ comb' = [d \in Comb |-> IF d \in R THEN "running" ELSE comb[d]]
  BY <1>1
<1>3. R \subseteq Waiting(e) /\ R \subseteq Key \cup Comb /\ Cardinality(BatchNeeds(R)) \in Nat
  BY <1>0, LaunchGives
<1>4. /\ V \subseteq Seg /\ V \cap BatchHits(R) = {}
      /\ \A x \in V : lock[e][x] = 0 /\ entry[e][x] # None
  BY SMTT(30), <1>0, <1>3, EvictionFacts
<1>5. handle' = handle /\ dst' = dst /\ wire' = wire /\ src' = src /\ push' = push /\ infl' = infl
  BY DEF Launch
<1>6. /\ sub'[k] = IF k \in R THEN "running" ELSE sub[k]
      /\ comb'[c] = IF c \in R THEN "running" ELSE comb[c]
  BY <1>0, <1>2
<1> DEFINE hit == c \in R /\ h \in Hits(c)
           Q == {d \in R \cap Comb : h \in Hits(d)}
<1>7. \A d \in R \cap Comb : Home[d] = e
  BY <1>3, KeyType DEF Waiting
<1>8. e \in {Worker[k], HomeOf(k)} => Q = IF e = HomeOf(k) /\ hit THEN {c} ELSE {}
  <2> SUFFICES ASSUME e \in {Worker[k], HomeOf(k)} PROVE Q = IF e = HomeOf(k) /\ hit THEN {c} ELSE {}
    OBVIOUS
  <2>1. ASSUME NEW d \in Q PROVE d = c /\ e = HomeOf(k) /\ hit
    <3>1. Home[d] = e /\ h \in Gated(d) /\ d \in Comb
      BY <1>7 DEF Hits
    <3>2. d = c /\ e = HomeOf(k)
      BY <3>1, ApartGated
    <3> QED BY <3>2
  <2>2. hit => c \in Q
    BY <1>0
  <2> QED BY <2>1, <2>2
<1>9. ASSUME NEW d \in {Worker[k], HomeOf(k)}
      PROVE  /\ lock'[d][h] = IF d = HomeOf(k) /\ hit THEN lock[d][h] + 1 ELSE lock[d][h]
             /\ \/ entry'[d][h] = entry[d][h]
                \/ lock[d][h] = 0 /\ entry'[d][h] = None /\ ~(d = HomeOf(k) /\ hit)
  <2>1. lock[d][h] \in Nat
    BY SMTT(30), <1>0 DEF TypeOK
  <2>2. CASE d = e
    <3>1. lock'[e][h] = lock[e][h] + Cardinality(Q)
      BY <1>0, <1>2 DEF TypeOK
    <3>2. lock'[d][h] = IF d = HomeOf(k) /\ hit THEN lock[d][h] + 1 ELSE lock[d][h]
      <4> HIDE DEF Q, hit, h, c
      <4>1. CASE d = HomeOf(k) /\ hit
        BY <1>8, <2>2, <3>1, <4>1, FS_Singleton
      <4>2. CASE ~(d = HomeOf(k) /\ hit)
        BY SMTT(30), <1>8, <2>1, <2>2, <3>1, <4>2, FS_EmptySet
      <4> QED BY <4>1, <4>2
    <3>3. hit => h \notin V
      BY <1>0, <1>4 DEF BatchHits
    <3>4. entry'[e][h] = IF h \in V THEN None ELSE entry[e][h]
      BY <1>0, <1>2 DEF Without, TypeOK
    <3> QED BY <1>4, <2>2, <3>2, <3>3, <3>4
  <2>3. CASE d # e
    <3>1. lock'[d] = lock[d] /\ entry'[d] = entry[d]
      BY SMTT(30), <1>0, <1>2, <2>3 DEF TypeOK
    <3>2. d = HomeOf(k) => ~hit
      BY <1>0, <1>7, <2>3
    <3> QED BY <3>1, <3>2
  <2> QED BY <2>2, <2>3
<1>10. c \in R => live'[c] = Hits(c) /\ DOMAIN slots'[c] = Needs(c)
  BY <1>0, <1>2
<1>11. c \notin R => CombKept(c)
  BY <1>0, <1>2, <1>4 DEF CombKept
<1>12. Admits(e, R, k)
  BY <1>3, <1>5, <1>6, <1>9, <1>10, <1>11 DEF Admits
<1> QED BY <1>12

-----------------------------------------------------------------------------
(* One batch at a time, one request at the gate *)

\* A batch is processed before the loop goes on, and a combine request that is
\* being received passes the gate before anything else of its engine happens.
PhaseInv ==
  /\ \A e \in Eng : Running(e) # {} => at[e] \in {"results", "resulted"}
  /\ \A c \in Comb : comb[c] = "arriving" => at[Home[c]] = "gate"
  /\ \A c, d \in Comb : comb[c] = "arriving" /\ comb[d] = "arriving" /\ Home[c] = Home[d] => c = d

\* Steps that start nothing.
LEMMA PhaseQuiet ==
  ASSUME PhaseInv, UNCHANGED at, \A k \in Key : sub'[k] = "running" => sub[k] = "running",
         \A c \in Comb : comb'[c] \in {"running", "arriving"} => comb'[c] = comb[c]
  PROVE  PhaseInv'
<1>1. \A e \in Eng : Running(e)' # {} => Running(e) # {}
  BY DEF Running
<1> QED BY SMTT(30), <1>1 DEF PhaseInv

\* From "resulted" the loop goes back to the results that are left.
LEMMA BackToResults ==
  ASSUME TypeOK, NEW e \in Eng, at[e] = "resulted", Running(e) # {}
  PROVE  NextPhase(e) = "results"
<1> DEFINE later == {p \in DOMAIN Rank \ {"retired", "resulted"} :
                       Rank[p] > Rank[at[e]] /\ Enters(e, p, at[e])}
<1>1. later \subseteq {"results", "inflight"} /\ Rank["results"] < Rank["inflight"]
  BY SMTT(30) DEF Rank
<1>2. "results" \in later
  BY SMTT(30) DEF Rank, Enters, Items
<1>3. \A q \in later : Rank["results"] <= Rank[q]
  BY SMTT(30), <1>1 DEF Rank
<1>4. \A p \in later : (\A q \in later : Rank[p] <= Rank[q]) => p = "results"
  BY SMTT(30), <1>1, <1>2 DEF Rank
<1>5. NextPhase(e) = CHOOSE p \in later : \A q \in later : Rank[p] <= Rank[q]
  BY <1>2 DEF NextPhase
<1> HIDE DEF later
<1> QED BY <1>2, <1>3, <1>4, <1>5

\* Every step keeps the phases.
LEMMA PhaseStep ==
  ASSUME TypeInv, PhaseInv, Next
  PROVE  PhaseInv'
<1>0. TypeOK
  BY DEF TypeInv
<1>1. ASSUME NEW e \in Eng, Move(e) PROVE PhaseInv'
  <2>1. /\ at' = [at EXCEPT ![e] = NextPhase(e)] /\ UNCHANGED <<sub, comb>> /\ at[e] \in DOMAIN Rank
        /\ Items(e, at[e]) = {}
    BY <1>1 DEF Move, Goto
  <2>2. Running(e) # {} => NextPhase(e) = "results"
    <3> SUFFICES ASSUME Running(e) # {} PROVE NextPhase(e) = "results"
      OBVIOUS
    <3>1. at[e] # "results"
      BY <2>1 DEF Items
    <3>2. at[e] = "resulted"
      BY <3>1 DEF PhaseInv
    <3> QED BY <1>0, <3>2, BackToResults
  <2>3. \A d \in Eng : Running(d)' # {} => at'[d] \in {"results", "resulted"}
    BY SMTT(30), <1>0, <2>1, <2>2 DEF PhaseInv, Running, TypeOK
  <2>4. \A c \in Comb : comb[c] = "arriving" => Home[c] # e
    BY <2>1 DEF PhaseInv, Rank
  <2>5. \A c \in Comb : comb[c] = "arriving" => at'[Home[c]] = "gate"
    BY <1>0, <2>1, <2>4, ScatterAssumption DEF PhaseInv, TypeOK
  <2> QED BY <2>1, <2>3, <2>5 DEF PhaseInv
<1>2. ASSUME NEW e \in Eng, Launch(e) PROVE PhaseInv'
  <2>1. PICK R \in Batches(e) :
           /\ sub' = [k \in Key |-> IF k \in R THEN "running" ELSE sub[k]]
           /\ comb' = [c \in Comb |-> IF c \in R THEN "running" ELSE comb[c]]
    BY <1>2 DEF Launch
  <2>2. at' = [at EXCEPT ![e] = "results"] /\ at[e] = "batch"
    BY <1>2 DEF Launch, Goto
  <2>3. R \subseteq Waiting(e)
    BY DEF Batches
  <2>4. \A d \in Eng \ {e} : Running(d)' \subseteq Running(d)
    <3>1. \A k \in Key : k \in R => Worker[k] = e
      BY <2>3, KeyType DEF Waiting
    <3>2. \A c \in Comb : c \in R => Home[c] = e
      BY <2>3, KeyType DEF Waiting
    <3> QED BY <2>1, <3>1, <3>2 DEF Running
  <2>5. \A d \in Eng : Running(d)' # {} => at'[d] \in {"results", "resulted"}
    BY SMTT(30), <1>0, <2>2, <2>4 DEF PhaseInv, TypeOK
  <2>6. \A c \in Comb : comb'[c] = "arriving" => comb[c] = "arriving" /\ Home[c] # e
    BY <2>1, <2>2 DEF PhaseInv
  <2>7. \A c \in Comb : comb'[c] = "arriving" => at'[Home[c]] = "gate"
    BY <1>0, <2>2, <2>6, ScatterAssumption DEF PhaseInv, TypeOK
  <2> QED BY <2>5, <2>6, <2>7 DEF PhaseInv
<1>3. ASSUME NEW k \in Key, NEW E, NEW l, Retire(k, E, l), UNCHANGED comb,
             at[Worker[k]] = "retire" \/ at[Worker[k]] = "results"
      PROVE  PhaseInv'
  <2>0. Worker[k] \in Eng
    BY KeyType
  <2>1. sub' = [sub EXCEPT ![k] = "retired"]
    BY <1>3 DEF Retire
  <2>2. PICK p : /\ at' = [at EXCEPT ![Worker[k]] = p]
                 /\ at[Worker[k]] = "results" => p \in {"results", "resulted"}
    BY <1>3 DEF Retire, Goto
  <2>3. \A d \in Eng : Running(d)' \subseteq Running(d)
    BY <1>0, <1>3, <2>1 DEF Running, TypeOK
  <2>4. \A d \in Eng : Running(d)' # {} => at'[d] \in {"results", "resulted"}
    BY SMTT(30), <1>0, <1>3, <2>0, <2>2, <2>3 DEF PhaseInv, TypeOK
  <2>5. \A c \in Comb : comb[c] = "arriving" => at'[Home[c]] = "gate"
    BY <1>0, <1>3, <2>0, <2>2, ScatterAssumption DEF PhaseInv, TypeOK
  <2> QED BY <1>3, <2>4, <2>5 DEF PhaseInv
<1>4. ASSUME NEW k \in Key, WorkerStep(k) PROVE PhaseInv'
  <2>1. CASE RecvSub(k) \/ RecvHandle(k) \/ PushPending(k) \/ Reap(k)
    BY SMTT(30), <1>0, <2>1, PhaseQuiet DEF RecvSub, RecvHandle, PushPending, Reap, TypeOK
  <2>2. CASE HitRetire(k)
    BY <1>3, <2>2 DEF HitRetire
  <2>3. CASE SubResult(k)
    BY <1>3, <2>3 DEF SubResult
  <2> QED BY <1>4, <2>1, <2>2, <2>3 DEF WorkerStep
<1>5. ASSUME NEW k \in Key, HomeStep(k) PROVE PhaseInv'
  BY <1>5, PhaseQuiet DEF HomeStep, Prealloc, Inject
<1>6. ASSUME NEW c \in Comb, CombineStep(c) PROVE PhaseInv'
  <2>0. Home[c] \in Eng
    BY ScatterAssumption
  <2>1. CASE RecvCombine(c)
    <3>1. /\ at[Home[c]] = "recv" /\ comb' = [comb EXCEPT ![c] = "arriving"]
          /\ at' = [at EXCEPT ![Home[c]] = "gate"] /\ UNCHANGED sub
      BY <2>1 DEF RecvCombine, Goto
    <3>2. \A d \in Eng : Running(d)' \subseteq Running(d)
      BY <1>0, <3>1 DEF Running, TypeOK
    <3>3. \A d \in Comb : comb[d] = "arriving" => Home[d] # Home[c]
      BY <3>1 DEF PhaseInv
    <3>4. \A d \in Eng : Running(d)' # {} => at'[d] \in {"results", "resulted"}
      BY SMTT(30), <1>0, <2>0, <3>1, <3>2 DEF PhaseInv, TypeOK
    <3>5. \A d \in Comb : comb'[d] = "arriving" => at'[Home[d]] = "gate"
      BY <1>0, <2>0, <3>1, ScatterAssumption DEF PhaseInv, TypeOK
    <3>6. \A d \in Comb : comb'[d] = "arriving" => d = c \/ comb[d] = "arriving"
      BY <1>0, <3>1 DEF TypeOK
    <3> QED BY SMTT(30), <3>3, <3>4, <3>5, <3>6 DEF PhaseInv
  <2>2. CASE Gate(c)
    <3>1. /\ comb[c] = "arriving" /\ at' = [at EXCEPT ![Home[c]] = "recv"] /\ UNCHANGED sub
          /\ \E p \in {"queued", "parked"} : comb' = [comb EXCEPT ![c] = p]
      BY <2>2 DEF Gate, Goto
    <3>2. at[Home[c]] = "gate" /\ Running(Home[c]) = {}
      BY <2>0, <3>1 DEF PhaseInv
    <3>3. \A d \in Eng : Running(d)' \subseteq Running(d)
      BY SMTT(30), <1>0, <3>1 DEF Running, TypeOK
    <3>4. \A d \in Eng : Running(d)' # {} => at'[d] \in {"results", "resulted"}
      BY SMTT(30), <1>0, <3>1, <3>2, <3>3 DEF PhaseInv, TypeOK
    <3>5. \A d \in Comb : comb'[d] = "arriving" => comb[d] = "arriving" /\ Home[d] # Home[c]
      BY SMTT(30), <1>0, <3>1 DEF PhaseInv, TypeOK
    <3>6. \A d \in Comb : comb'[d] = "arriving" => at'[Home[d]] = "gate"
      BY <1>0, <3>1, <3>5, ScatterAssumption DEF PhaseInv, TypeOK
    <3> QED BY <3>4, <3>5, <3>6 DEF PhaseInv
  <2>3. CASE Release(c) \/ Bootstrapped(c) \/ CombineResult(c) \/ SendDone(c)
    BY SMTT(30), <1>0, <2>3, PhaseQuiet DEF Release, Bootstrapped, CombineResult, SendDone, TypeOK
  <2> QED BY <1>6, <2>1, <2>2, <2>3 DEF CombineStep
<1>7. ASSUME NEW e \in Eng, Spin(e) \/ Flush(e) PROVE PhaseInv'
  BY <1>7, PhaseQuiet DEF Spin, Flush, vars
<1>8. ASSUME NEW k \in Key, LoseSub(k) PROVE PhaseInv'
  BY <1>0, <1>8, PhaseQuiet DEF LoseSub, TypeOK
<1>9. ASSUME NEW c \in Comb, ClientAbort(c) PROVE PhaseInv'
  BY <1>0, <1>9, PhaseQuiet DEF ClientAbort, TypeOK
<1>10. CASE World
  BY <1>10, PhaseQuiet DEF World, Land, Deadline, Peer
<1> QED BY <1>1, <1>2, <1>4, <1>5, <1>6, <1>7, <1>8, <1>9, <1>10 DEF Next, EngineStep, Tick

-----------------------------------------------------------------------------
(* The lock a combine request has on each of its segments *)

\* What a worker registers where it is combined is protected until its retire.
ProtectedLocal == Transition \/ \A k \in Key : ~Local(k)

Active(c) == comb[c] \notin {"sending", "done", "gone"}

\* The arrival hold and the locks of an admission on the engine that combines k.
HomePin(k) ==
  LET h == SegOf(k)
      c == k[1]
      E == entry[HomeOf(k)][h]
      l == lock[HomeOf(k)][h]
  IN /\ E # None => Arrived(k)
     /\ E # None /\ Active(c) => l >= IF h \in live[c] THEN 2 ELSE 1
     /\ h \in live[c] => l >= 1 /\ E # None
     /\ comb[c] \in {"queued", "waiting", "running"} => E # None
     /\ comb[c] \in {"running", "sending"} /\ h \notin Short
          => h \in live[c] /\ <<"public", h>> \notin DOMAIN slots[c]
     /\ sub[k] # "hit"
     /\ Local(k) => handle[k] = "none" /\ k \notin push /\ k \notin infl
     /\ ~Local(k) /\ entry[Worker[k]][h] # None => sub[k] = "retired"
     /\ k \in push \cup infl => sub[k] = "retired"

PinInv ==
  /\ TypeInv /\ Fresh /\ PhaseInv
  /\ \A c \in Comb : CombInv(c)
  /\ \A k \in Key : HomePin(k)

\* The hits of a prompt and what is missed are segments of it.
LEMMA NeedsPublic ==
  ASSUME NEW c \in Comb, NEW h, <<"public", h>> \in Needs(c)
  PROVE  h \in Gated(c) \ Hits(c)
BY DEF Needs, Public, Private, Query

\* A combine request keeps to its prompt.
LEMMA CombStep ==
  ASSUME TypeInv, NEW c \in Comb, CombInv(c), Next
  PROVE  CombInv(c)'
<1>0. TypeOK /\ c \notin Key
  BY KeyType DEF TypeInv
<1>1. ASSUME live'[c] \subseteq live[c], slots'[c] = slots[c],
             comb[c] \in {"running", "sending"} <=> comb'[c] \in {"running", "sending"}
      PROVE  CombInv(c)'
  BY <1>1 DEF CombInv, Missed
<1>2. ASSUME NEW e \in Eng, Launch(e) PROVE CombInv(c)'
  <2>1. PICK R \in Batches(e) : \E V \in Evictions(e, Cardinality(BatchNeeds(R)), BatchHits(R)) :
           /\ live' = [d \in Comb |-> IF d \in R THEN Hits(d)
                                      ELSE IF Home[d] = e THEN live[d] \ V ELSE live[d]]
           /\ comb' = [d \in Comb |-> IF d \in R THEN "running" ELSE comb[d]]
           /\ slots' = [r \in Key \cup Comb |->
                          IF r \in R THEN [n \in Needs(r) |-> Given(Pool(e, V), BatchNeeds(R))[<<r, n>>]]
                          ELSE slots[r]]
    BY <1>2 DEF Launch
  <2>2. CASE c \in R
    <3>1. live'[c] = Hits(c) /\ comb'[c] = "running" /\ DOMAIN slots'[c] = Needs(c)
      BY <2>1, <2>2
    <3>2. Hits(c) \subseteq Gated(c)
      BY DEF Hits
    <3>3. \A h : <<"public", h>> \in DOMAIN slots'[c] => h \in Gated(c)
      BY <3>1, NeedsPublic
    <3> QED BY <3>1, <3>2, <3>3 DEF CombInv, Missed
  <2>3. CASE c \notin R
    BY SMTT(30), <1>1, <2>1, <2>3
  <2> QED BY <2>2, <2>3
<1>3. ASSUME NEW d \in Comb, CombineResult(d) \/ SendDone(d) PROVE CombInv(c)'
  <2>1. CASE d # c
    BY SMTT(30), <1>0, <1>1, <1>3, <2>1 DEF CombineResult, SendDone, TypeOK
  <2>2. CASE d = c /\ CombineResult(c)
    BY <1>0, <2>2 DEF CombineResult, CombInv, Missed, TypeOK
  <2>3. CASE d = c /\ SendDone(c)
    BY <1>0, <2>3 DEF SendDone, CombInv, TypeOK
  <2> QED BY <1>3, <2>1, <2>2, <2>3
<1>4. ASSUME NEW d \in Comb, CombineStep(d) PROVE CombInv(c)'
  <2>1. CASE RecvCombine(d)
    BY SMTT(30), <1>0, <1>1, <2>1 DEF RecvCombine, TypeOK
  <2>2. CASE Gate(d)
    BY SMTT(30), <1>0, <1>1, <2>2 DEF Gate, TypeOK
  <2>3. CASE Release(d) \/ Bootstrapped(d)
    BY SMTT(30), <1>0, <1>1, <2>3 DEF Release, Bootstrapped, Items, TypeOK
  <2> QED BY <1>3, <1>4, <2>1, <2>2, <2>3 DEF CombineStep
<1>5. ASSUME NEW k \in Key, WorkerStep(k) PROVE CombInv(c)'
  <2>1. UNCHANGED <<live, comb>>
    BY <1>5 DEF WorkerStep, RecvSub, RecvHandle, PushPending, Reap, HitRetire, SubResult
  <2>2. slots'[c] = slots[c]
    BY <1>0, <1>5 DEF WorkerStep, RecvSub, RecvHandle, PushPending, Reap, HitRetire, SubResult, TypeOK
  <2> QED BY <1>1, <2>1, <2>2
<1>6. ASSUME NEW k \in Key, HomeStep(k) PROVE CombInv(c)'
  <2>1. UNCHANGED <<comb, slots>> /\ live'[c] \subseteq live[c]
    BY SMTT(30), <1>6 DEF HomeStep, Prealloc, Inject
  <2> QED BY <1>1, <2>1
<1>7. ASSUME NEW e \in Eng, Move(e) \/ Spin(e) \/ Flush(e) PROVE CombInv(c)'
  BY <1>1, <1>7 DEF Move, Spin, Flush, vars
<1>8. ASSUME NEW k \in Key, LoseSub(k) PROVE CombInv(c)'
  BY <1>1, <1>8 DEF LoseSub
<1>9. ASSUME NEW d \in Comb, ClientAbort(d) PROVE CombInv(c)'
  BY <1>0, <1>1, <1>9 DEF ClientAbort, TypeOK
<1>10. CASE World
  BY <1>1, <1>10 DEF World, Land, Deadline, Peer
<1> QED BY <1>2, <1>4, <1>5, <1>6, <1>7, <1>8, <1>9, <1>10 DEF Next, EngineStep, Tick

\* A foreign step keeps the holds.
LEMMA PinForeign ==
  ASSUME TypeInv, NEW k \in Key, HomePin(k), Foreign(k)
  PROVE  HomePin(k)'
<1> DEFINE h == SegOf(k)
           c == k[1]
           H == HomeOf(k)
<1>0. /\ lock[H][h] \in Nat /\ H = Home[c] /\ h \in Seg
  BY SMTT(30), KeyType DEF HomeOf, TypeInv, TypeOK
<1>1. /\ lock'[H][h] = lock[H][h]
      /\ entry'[H][h] = entry[H][h] \/ (lock[H][h] = 0 /\ entry'[H][h] = None)
      /\ entry'[Worker[k]][h] = entry[Worker[k]][h] \/ entry'[Worker[k]][h] = None
  BY DEF Foreign, Undisturbed
<1>2. KeyKept(k) /\ comb'[c] = comb[c] /\ slots'[c] = slots[c]
  BY DEF Foreign, CombKept
<1>3. h \in live'[c] <=> h \in live[c]
  <2>1. h \in live[c] => lock[H][h] # 0
    BY SMTT(30), <1>0 DEF HomePin
  <2> QED BY <1>0, <2>1 DEF Foreign, CombKept
<1>4. Arrived(k)' <=> Arrived(k)
  BY <1>2 DEF KeyKept, Arrived, Sent
<1>5. entry[H][h] # None /\ (Active(c) \/ h \in live[c]) => entry'[H][h] = entry[H][h]
  BY SMTT(30), <1>0, <1>1 DEF HomePin
<1>6. comb[c] \in {"queued", "waiting", "running"} => Active(c)
  BY DEF Active
<1> QED BY <1>1, <1>2, <1>3, <1>4, <1>5, <1>6 DEF HomePin, KeyKept, Active

\* The handover leaves a lock_ref as it was.
LEMMA HandoverSame ==
  ASSUME NEW l \in [Seg -> Nat], NEW h \in Seg
  PROVE  Handover(l, h) = l
BY SMTT(30) DEF Handover, Inc, Dec

\* The steps of the engine that computes k.
LEMMA PinWorker ==
  ASSUME ProtectedLocal, TypeInv, Fresh, NEW k \in Key, HomePin(k), WorkerStep(k)
  PROVE  HomePin(k)'
<1> DEFINE h == SegOf(k)
           c == k[1]
           H == HomeOf(k)
           W == Worker[k]
<1>0. /\ TypeOK /\ lock[H][h] \in Nat /\ h \in Seg /\ c \in Comb /\ W \in Eng /\ H \in Eng /\ k # c
      /\ k \notin Comb
  BY SMTT(30), KeyType DEF TypeInv, TypeOK
<1>1. handle[k] # "used" => ~Sent(k)
  BY DEF Fresh, Sent, Part

\* nothing happens at home, and k has not arrived or stays so
<1>2. ASSUME ~Local(k), comb'[c] = comb[c], slots'[c] = slots[c], live'[c] = live[c],
             lock'[H] = lock[H], entry'[H] = entry[H], sub'[k] # "hit",
             entry[H][h] # None => Arrived(k)',
             entry'[W][h] # None => sub'[k] = "retired",
             k \in push' \cup infl' => sub'[k] = "retired"
      PROVE  HomePin(k)'
  BY <1>2 DEF HomePin, Active, Local
<1>3. CASE RecvSub(k)
  <2>1. sub[k] = "sent" /\ UNCHANGED <<entry, comb, slots, live, handle, dst, wire, push, infl>>
    BY <1>3 DEF RecvSub
  <2>2. entry[W][h] = None
    BY <2>1 DEF HomePin, Arrived, Local
  <2>3. UNCHANGED lock /\ sub' = [sub EXCEPT ![k] = "waiting"]
    BY <1>3, <2>2 DEF RecvSub
  <2>4. entry[H][h] # None => Arrived(k)'
    BY <2>1, <2>2, <2>3 DEF HomePin, Arrived, Sent, Local
  <2> QED BY <1>0, <2>1, <2>2, <2>3, <2>4 DEF HomePin, Active, TypeOK
<1>4. CASE RecvHandle(k)
  <2>1. /\ handle[k] = "sent" /\ handle' = [handle EXCEPT ![k] = "here"]
        /\ UNCHANGED <<sub, entry, lock, comb, slots, live, dst, wire, push, infl>>
    BY <1>4 DEF RecvHandle
  <2>2. ~Local(k) /\ entry[H][h] = None
    BY <1>1, <2>1 DEF HomePin, Arrived
  <2> QED BY <1>2, <2>1, <2>2 DEF HomePin
<1>5. CASE PushPending(k)
  <2>1. /\ k \in push /\ push' = push \ {k} /\ UNCHANGED <<entry, sub, comb, slots, live, dst>>
        /\ \/ UNCHANGED <<handle, src, infl, wire>>
           \/ handle[k] = "here" /\ infl' \subseteq infl \cup {k}
    BY <1>5 DEF PushPending, Items, Fire
  <2>2. ~Local(k) /\ sub[k] = "retired"
    BY <2>1 DEF HomePin
  <2>3. lock'[H] = lock[H]
    BY <1>0, <1>5, <2>2 DEF PushPending, TypeOK, Local
  <2>4. entry[H][h] # None => Arrived(k)'
    BY <1>1, <2>1, <2>2 DEF HomePin, Arrived, Sent
  <2> QED BY <1>2, <2>1, <2>2, <2>3, <2>4
<1>6. CASE Reap(k)
  <2>1. /\ k \in infl /\ infl' = infl \ {k}
        /\ UNCHANGED <<entry, sub, comb, slots, live, dst, handle, push, wire>>
    BY <1>6 DEF Reap, Items
  <2>2. ~Local(k) /\ sub[k] = "retired"
    BY <2>1 DEF HomePin
  <2>3. lock'[H] = lock[H]
    BY <1>0, <1>6, <2>2 DEF Reap, TypeOK, Local
  <2>4. entry[H][h] # None => Arrived(k)'
    BY <2>1, <2>2 DEF HomePin, Arrived, Sent
  <2> QED BY <1>2, <2>1, <2>2, <2>3, <2>4
<1>7. CASE HitRetire(k)
  BY <1>7 DEF HitRetire, HomePin
<1>8. CASE SubResult(k)
  <2> DEFINE M == {h} \ Short
  <2>1. /\ sub[k] = "running" /\ UNCHANGED <<comb, live, dst>>
        /\ entry' = [entry EXCEPT ![W] = Registered(W, k, M)]
        /\ slots' = [slots EXCEPT ![k] = NoSlots]
        /\ Retire(k, Registered(W, k, M), Protected(W, M))
    BY <1>8 DEF SubResult
  <2>2. sub'[k] = "retired" /\ slots'[c] = slots[c]
    BY <1>0, <2>1 DEF Retire, TypeOK
  <2>3. CASE ~Local(k)
    <3>1. lock'[H] = lock[H] /\ entry'[H] = entry[H]
      BY <1>0, <2>1, <2>3 DEF Retire, Local, TypeOK
    <3>2. entry[H][h] # None => UNCHANGED <<handle, wire>>
      BY <1>1, <2>1, <2>3 DEF Retire, HomePin, Arrived
    <3>3. entry[H][h] # None => Arrived(k)'
      BY <2>1, <2>3, <3>2 DEF HomePin, Arrived, Sent
    <3> QED BY <1>2, <2>1, <2>2, <2>3, <3>1, <3>3
  <2>4. CASE Local(k)
    <3>1. H = W /\ Transition /\ UNCHANGED <<handle, push, infl, wire>>
      BY <2>1, <2>4 DEF Local, Retire, ProtectedLocal
    <3>2. entry[H][h] = None
      BY <2>1, <2>4 DEF HomePin, Arrived
    <3>3. CASE h \in Short
      <4>1. entry'[H][h] = None
        BY <1>0, <2>1, <3>1, <3>2, <3>3 DEF Registered, NewSegs, TypeOK
      <4> QED BY <2>1, <2>2, <2>4, <3>1, <3>2, <3>3, <4>1 DEF HomePin
    <3>4. CASE h \notin Short
      <4>1. NewSegs(W, M) = {h}
        BY <3>1, <3>2, <3>4 DEF NewSegs
      <4>2. Registered(W, k, M)[h] # None
        <5>1. <<"public", h>> \in DOMAIN slots[k] /\ slots[k] \in [DOMAIN slots[k] -> Slot]
          BY <2>1 DEF TypeInv, Held
        <5> QED BY <1>0, <4>1, <5>1, ScatterAssumption DEF Registered
      <4>3. Protected(W, M) = Inc(lock[W], {h})
        BY <3>1, <4>1 DEF Protected
      <4>4. lock'[H] = Handover(Inc(lock[W], {h}), h)
        BY <1>0, <2>1, <3>1, <4>2, <4>3 DEF Retire, TypeOK
      <4>5. lock'[H][h] = lock[H][h] + 1
        <5>1. lock[W] \in [Seg -> Nat] /\ Inc(lock[W], {h}) \in [Seg -> Nat]
          BY <1>0, IncDecType DEF TypeOK
        <5>2. Handover(Inc(lock[W], {h}), h) = Inc(lock[W], {h})
          BY <1>0, <5>1, HandoverSame
        <5> QED BY <1>0, <3>1, <4>4, <5>1, <5>2 DEF Inc
      <4>6. Arrived(k)' /\ Local(k)'
        BY <2>2, <2>4 DEF Arrived, Local
      <4>7. h \notin live[c]
        BY <3>2 DEF HomePin
      <4>8. entry'[H][h] # None
        BY <1>0, <2>1, <3>1, <4>2 DEF TypeOK
      <4> QED BY SMTT(30), <1>0, <2>1, <2>2, <2>4, <3>1, <3>2, <4>5, <4>6, <4>7, <4>8 DEF HomePin, Active
    <3> QED BY <3>3, <3>4
  <2> QED BY <2>3, <2>4
<1> QED BY <1>3, <1>4, <1>5, <1>6, <1>7, <1>8 DEF WorkerStep

\* The steps that make a destination for k and take it in.
LEMMA PinHome ==
  ASSUME TypeInv, Fresh, NEW k \in Key, HomePin(k), HomeStep(k)
  PROVE  HomePin(k)'
<1> DEFINE h == SegOf(k)
           c == k[1]
           H == HomeOf(k)
           W == Worker[k]
<1>0. /\ TypeOK /\ lock[H][h] \in Nat /\ h \in Seg /\ c \in Comb /\ W \in Eng /\ H \in Eng
      /\ H = Home[c]
  BY SMTT(30), KeyType DEF TypeInv, TypeOK, HomeOf
<1>1. CASE Prealloc(k)
  <2>1. /\ comb[c] = "arriving" /\ handle[k] = "none" /\ ~Local(k)
        /\ UNCHANGED <<lock, sub, comb, slots, push, infl, wire>>
    BY <1>1 DEF Prealloc, ToPrealloc
  <2>2. entry[H][h] = None /\ h \notin live[c]
    BY <2>1 DEF HomePin, Arrived
  <2>3. live'[c] \subseteq live[c]
    BY SMTT(30), <1>0, <1>1 DEF Prealloc
  <2>4. entry'[H][h] = None /\ (entry'[W][h] = entry[W][h] \/ entry'[W][h] = None)
    <3>1. ASSUME NEW V, entry' = [entry EXCEPT ![H] = Without(H, V)]
          PROVE  entry'[H][h] = None /\ entry'[W][h] \in {entry[W][h], None}
      BY <1>0, <2>1, <2>2, <3>1 DEF Without, TypeOK, Local
    <3> QED BY <1>0, <1>1, <2>2, <3>1 DEF Prealloc
  <2> QED BY <2>1, <2>2, <2>3, <2>4 DEF HomePin, Active
<1>2. CASE Inject(k)
  <2>1. /\ dst[k] # None /\ Sent(k) /\ dst' = [dst EXCEPT ![k] = None]
        /\ lock' = [lock EXCEPT ![H] = Inc(@, {h})]
        /\ UNCHANGED <<sub, comb, slots, live, handle, push, infl, wire>>
    BY <1>2 DEF Inject, Items, Pending
  <2>2. handle[k] # "none" /\ ~Local(k)
    BY <2>1 DEF Fresh, HomePin
  <2>3. entry[H][h] = None
    BY <2>1, <2>2 DEF HomePin, Arrived
  <2>4. entry' = [entry EXCEPT ![H][h] = dst[k]]
    BY <1>2, <2>3 DEF Inject
  <2>5. entry'[H][h] # None /\ entry'[W] = entry[W] /\ lock'[H][h] = lock[H][h] + 1
    BY <1>0, <2>1, <2>2, <2>4 DEF TypeOK, Local, Inc
  <2>6. Arrived(k)'
    BY <1>0, <2>1, <2>2 DEF Arrived, Sent, TypeOK, Local
  <2>7. h \notin live[c]
    BY <2>3 DEF HomePin
  <2>8. lock'[H][h] >= 1
    BY SMTT(30), <1>0, <2>5
  <2>9. lock'[H][h] >= (IF h \in live'[c] THEN 2 ELSE 1)
    BY <2>1, <2>7, <2>8
  <2> QED BY <2>1, <2>2, <2>5, <2>6, <2>7, <2>9 DEF HomePin, Active
<1> QED BY <1>1, <1>2 DEF HomeStep

-----------------------------------------------------------------------------
(* The segments of a request that was let through *)

\* A combine request that was let through the gate misses nothing.
LEMMA NothingMissed ==
  ASSUME PinInv, NEW c \in Comb, comb[c] \in {"running", "sending"}
  PROVE  Missed(c) = {}
<1> SUFFICES ASSUME NEW h \in Missed(c) PROVE FALSE
  OBVIOUS
<1>1. h \in Gated(c) /\ h \notin Short /\ <<"public", h>> \in DOMAIN slots[c]
  BY DEF PinInv, CombInv, Missed
<1>2. PICK k \in Key : k[1] = c /\ SegOf(k) = h
  BY <1>1, GatedKey
<1> QED BY <1>1, <1>2 DEF PinInv, HomePin

\* So its result and its end register nothing.
LEMMA NothingRegistered ==
  ASSUME PinInv, NEW c \in Comb, CombineResult(c) \/ SendDone(c)
  PROVE  /\ entry' = entry
         /\ CombineResult(c) => lock' = [lock EXCEPT ![Home[c]] = DropHolds(@, c)] /\ live' = live
                                /\ free' = free
         /\ SendDone(c) => lock' = [lock EXCEPT ![Home[c]] = Dec(@, live[c])]
<1> DEFINE e == Home[c]
<1>0. e \in Eng /\ TypeOK
  BY ScatterAssumption DEF PinInv, TypeInv
<1>1. comb[c] \in {"running", "sending"}
  BY DEF CombineResult, SendDone, Items
<1>2. Missed(c) = {}
  BY <1>1, NothingMissed
<1>3. /\ Registered(e, c, {}) = entry[e] /\ Protected(e, {}) = lock[e] /\ GivenBack(e, c, {}) = {}
  BY SMTT(30), <1>0 DEF Registered, Protected, GivenBack, NewSegs, Inc, TypeOK, Public
<1>4. entry' = entry
  <2>1. entry' = [entry EXCEPT ![e] = Registered(e, c, Missed(c))]
    BY DEF CombineResult, SendDone
  <2> QED BY SMTT(30), <1>0, <1>2, <1>3, <2>1 DEF TypeOK
<1>5. ASSUME CombineResult(c)
      PROVE  lock' = [lock EXCEPT ![e] = DropHolds(@, c)] /\ live' = live /\ free' = free
  <2>1. /\ lock' = [lock EXCEPT ![e] = DropHolds(Protected(e, Missed(c)), c)]
        /\ live' = [live EXCEPT ![c] = @ \cup Missed(c)]
        /\ free' = [free EXCEPT ![e] = @ \cup GivenBack(e, c, Missed(c))]
    BY <1>5 DEF CombineResult
  <2>2. lock' = [lock EXCEPT ![e] = DropHolds(lock[e], c)]
    BY <1>2, <1>3, <2>1
  <2>3. live' = live /\ free' = free
    BY SMTT(30), <1>0, <1>2, <1>3, <2>1 DEF TypeOK
  <2> QED BY <2>2, <2>3
<1>6. ASSUME SendDone(c) PROVE lock' = [lock EXCEPT ![e] = Dec(@, live[c])]
  <2>1. lock' = [lock EXCEPT ![e] = Dec(Protected(e, Missed(c)), live[c] \cup Missed(c))]
    BY <1>6 DEF SendDone
  <2>2. live[c] \cup Missed(c) = live[c]
    BY <1>2
  <2> QED BY <1>2, <1>3, <2>1, <2>2
<1> QED BY <1>4, <1>5, <1>6

\* The holds of a prompt are dropped: the one of k goes if there is one.
LEMMA DropHoldsOne ==
  ASSUME Apart, NEW k \in Key, NEW l \in [Seg -> Nat]
  PROVE  DropHolds(l, k[1])[SegOf(k)] = IF l[SegOf(k)] > 0 THEN l[SegOf(k)] - 1 ELSE 0
<1>1. Cardinality({i \in DOMAIN Prompt[k[1]] : Prompt[k[1]][i] = SegOf(k)}) = 1
  BY ApartOnce
<1>2. SegOf(k) \in Seg /\ l[SegOf(k)] \in Nat /\ l[SegOf(k)] - 1 \in Int
  BY SMTT(30), KeyType
<1>3. DropHolds(l, k[1])[SegOf(k)] = Max({0, l[SegOf(k)] - 1})
  BY <1>1, <1>2 DEF DropHolds
<1>4. Max({0, l[SegOf(k)] - 1}) = IF l[SegOf(k)] - 1 > 0 THEN l[SegOf(k)] - 1 ELSE 0
  BY <1>2, MaxZero
<1> QED BY SMTT(30), <1>2, <1>3, <1>4

\* The steps of the combine request of k.
LEMMA PinCombine ==
  ASSUME Apart, PinInv, NEW k \in Key, CombineStep(k[1])
  PROVE  HomePin(k)'
<1> DEFINE h == SegOf(k)
           c == k[1]
           H == HomeOf(k)
           W == Worker[k]
<1>0. /\ TypeOK /\ lock[H][h] \in Nat /\ lock[H] \in [Seg -> Nat] /\ h \in Seg /\ c \in Comb
      /\ W \in Eng /\ H \in Eng /\ H = Home[c] /\ h \in Gated(c) /\ HomePin(k) /\ CombInv(c) /\ k # c
  BY SMTT(30), KeyType DEF PinInv, TypeInv, TypeOK, HomeOf

\* the cache stays as it is
<1>1. ASSUME UNCHANGED <<entry, lock, sub, slots, live, handle, wire, dst, push, infl>>,
             comb'[c] \in {"queued", "waiting", "running"} => entry[H][h] # None,
             comb'[c] \in {"running", "sending"} => comb[c] = comb'[c],
             ~Active(c) => ~Active(c)'
      PROVE  HomePin(k)'
  BY <1>0, <1>1 DEF HomePin, Arrived, Sent
<1>2. AllCached(c) => entry[H][h] # None
  BY <1>0 DEF AllCached, Cached
<1>3. CASE RecvCombine(c) \/ Gate(c) \/ Bootstrapped(c)
  <2>1. UNCHANGED <<entry, lock, sub, slots, live, handle, wire, dst, push, infl>>
    BY <1>3 DEF RecvCombine, Gate, Bootstrapped
  <2>2. /\ comb'[c] \in {"queued", "waiting", "running"} => entry[H][h] # None
        /\ comb'[c] \notin {"running", "sending"} /\ Active(c)
    BY SMTT(30), <1>0, <1>2, <1>3 DEF RecvCombine, Gate, Bootstrapped, Items, HomePin, Active, TypeOK
  <2> QED BY <1>1, <2>1, <2>2
<1>4. CASE Release(c)
  <2>1. /\ UNCHANGED <<entry, sub, slots, live, handle, wire, push, infl>> /\ comb[c] = "parked"
        /\ Late(c) \/ AllCached(c)
    BY <1>4 DEF Release, Items
  <2>2. CASE ~Late(c)
    <3>1. comb' = [comb EXCEPT ![c] = "queued"] /\ UNCHANGED <<dst, lock>>
      BY <1>4, <2>2 DEF Release
    <3> QED BY <1>0, <1>1, <1>2, <2>1, <2>2, <3>1 DEF Active, TypeOK
  <2>3. CASE Late(c)
    <3>1. comb' = [comb EXCEPT ![c] = "gone"] /\ FreePending(c)
      BY <1>4, <2>3 DEF Release
    <3>2. h \notin live[c]
      BY <1>0, <2>1 DEF CombInv
    <3>3. dst'[k] = None
      BY <3>1 DEF FreePending, KeysOf
    <3>4. entry[H][h] # None => Arrived(k)'
      BY <1>0, <2>1, <3>3 DEF HomePin, Arrived, Sent
    <3> QED BY <1>0, <2>1, <3>1, <3>2, <3>4 DEF HomePin, Active, TypeOK
  <2> QED BY <2>2, <2>3
<1>5. CASE CombineResult(c)
  <2>1. /\ UNCHANGED <<entry, sub, slots, live, handle, wire, dst, push, infl>> /\ comb[c] = "running"
        /\ lock' = [lock EXCEPT ![H] = DropHolds(@, c)] /\ comb' = [comb EXCEPT ![c] = "sending"]
    BY <1>0, <1>5, NothingRegistered DEF CombineResult
  <2>2. lock'[H][h] = IF lock[H][h] > 0 THEN lock[H][h] - 1 ELSE 0
    BY <1>0, <2>1, DropHoldsOne DEF TypeOK
  <2>3. h \in live[c] => lock[H][h] >= 2
    BY <1>0, <2>1 DEF HomePin, Active
  <2>4. h \in live'[c] => lock'[H][h] >= 1
    BY SMTT(30), <1>0, <2>1, <2>2, <2>3
  <2>5. comb'[c] = "sending"
    BY <1>0, <2>1 DEF TypeOK
  <2> QED BY <1>0, <2>1, <2>4, <2>5 DEF HomePin, Active, Arrived, Sent
<1>6. CASE SendDone(c)
  <2>1. /\ UNCHANGED <<entry, sub, handle, wire, dst, push, infl>>
        /\ live' = [live EXCEPT ![c] = {}] /\ comb' = [comb EXCEPT ![c] = "done"]
    BY <1>0, <1>6, NothingRegistered DEF SendDone
  <2>2. comb'[c] = "done" /\ live'[c] = {}
    BY <1>0, <2>1 DEF TypeOK
  <2> QED BY <1>0, <2>1, <2>2 DEF HomePin, Active, Arrived, Sent
<1> QED BY <1>3, <1>4, <1>5, <1>6 DEF CombineStep

\* A batch.
LEMMA PinLaunch ==
  ASSUME Apart, PinInv, NEW k \in Key, NEW e \in Eng, Launch(e)
  PROVE  HomePin(k)'
<1> DEFINE h == SegOf(k)
           c == k[1]
           H == HomeOf(k)
           W == Worker[k]
<1>0. /\ TypeOK /\ lock[H][h] \in Nat /\ h \in Seg /\ c \in Comb /\ W \in Eng /\ H \in Eng
      /\ H = Home[c] /\ h \in Gated(c) /\ HomePin(k) /\ CombInv(c) /\ TypeInv
      /\ k \notin Comb /\ c \notin Key
  BY SMTT(30), KeyType DEF PinInv, TypeInv, TypeOK, HomeOf
<1>1. PICK R : Admits(e, R, k)
  BY <1>0, LaunchAdmits
<1>2. /\ k \in R => sub[k] = "waiting"
      /\ c \in R => comb[c] = "waiting" /\ Home[c] = e
  BY <1>0, <1>1 DEF Admits, Waiting
<1>3. entry'[W][h] # None => (entry[W][h] # None /\ sub'[k] = sub[k]) \/ Local(k)
  BY <1>1, <1>2 DEF Admits, HomePin, PinInv
<1>4. entry'[H][h] # None => Arrived(k)'
  <2> SUFFICES ASSUME entry[H][h] # None PROVE Arrived(k)'
    BY <1>1 DEF Admits
  <2>1. Arrived(k)
    BY <1>0 DEF HomePin
  <2>2. Local(k) => sub'[k] = "retired"
    BY <1>1, <1>2, <2>1 DEF Arrived, Admits
  <2> QED BY <1>1, <2>1, <2>2 DEF Arrived, Admits, Sent
<1>5. sub'[k] # "hit" /\ (sub[k] = "retired" => sub'[k] = "retired")
  BY <1>0, <1>1, <1>2 DEF Admits, HomePin
<1>6. CASE c \in R
  <2>1. comb[c] = "waiting" /\ comb'[c] = "running" /\ live'[c] = Hits(c) /\ DOMAIN slots'[c] = Needs(c)
    BY <1>1, <1>2, <1>6 DEF Admits
  <2>2. entry[H][h] # None /\ lock[H][h] >= 1
    BY <1>0, <2>1 DEF HomePin, Active
  <2>3. h \in Hits(c) <=> h \notin Short
    BY <1>0, <2>2 DEF Hits
  <2>4. entry'[H][h] = entry[H][h] /\ lock'[H][h] = IF h \in Hits(c) THEN lock[H][h] + 1 ELSE lock[H][h]
    <3>1. lock[H][h] # 0
      BY SMTT(30), <1>0, <2>2
    <3> QED BY <1>1, <1>6, <3>1 DEF Admits
  <2>5. h \in Hits(c) => <<"public", h>> \notin DOMAIN slots'[c]
    <3> SUFFICES ASSUME <<"public", h>> \in Needs(c) PROVE h \notin Hits(c)
      BY <2>1
    <3> QED BY <1>0, NeedsPublic
  <2>6. entry'[H][h] # None /\ lock'[H][h] >= (IF h \in live'[c] THEN 2 ELSE 1)
    BY SMTT(30), <1>0, <2>1, <2>2, <2>4
  <2>7. (h \in live'[c] => lock'[H][h] >= 1)
    BY SMTT(30), <1>0, <2>1, <2>2, <2>4
  <2> QED BY <1>0, <1>1, <1>3, <1>4, <1>5, <2>1, <2>3, <2>5, <2>6, <2>7 DEF HomePin, Admits, Local
<1>7. CASE c \notin R
  <2>1. /\ lock'[H][h] = lock[H][h] /\ comb'[c] = comb[c] /\ slots'[c] = slots[c]
        /\ entry'[H][h] = entry[H][h] \/ (lock[H][h] = 0 /\ entry'[H][h] = None)
    BY <1>1, <1>7 DEF Admits, CombKept
  <2>2. h \in live[c] <=> h \in live'[c]
    <3>1. h \in live[c] => lock[H][h] # 0
      BY SMTT(30), <1>0 DEF HomePin
    <3> QED BY <1>0, <1>1, <1>7, <3>1 DEF Admits, CombKept
  <2>3. entry[H][h] # None /\ (Active(c) \/ h \in live[c]) => entry'[H][h] = entry[H][h]
    BY SMTT(30), <1>0, <2>1 DEF HomePin
  <2>4. comb[c] \in {"queued", "waiting", "running"} => Active(c)
    BY DEF Active
  <2> QED
    BY <1>0, <1>1, <1>3, <1>4, <1>5, <2>1, <2>2, <2>3, <2>4 DEF HomePin, Admits, Active, Local
<1> QED BY <1>6, <1>7

\* A flush finds nothing of an engine that was let through the gate.
LEMMA PinFlush ==
  ASSUME PinInv, NEW k \in Key, NEW e \in Eng, Flush(e)
  PROVE  HomePin(k)'
<1> DEFINE h == SegOf(k)
           c == k[1]
           H == HomeOf(k)
           W == Worker[k]
<1>0. /\ TypeOK /\ lock[H][h] \in Nat /\ h \in Seg /\ c \in Comb /\ W \in Eng /\ H \in Eng
      /\ H = Home[c] /\ HomePin(k) /\ CombInv(c)
  BY SMTT(30), KeyType DEF PinInv, TypeInv, TypeOK, HomeOf
<1>1. /\ entry' = [entry EXCEPT ![e] = [x \in Seg |-> None]]
      /\ lock' = [lock EXCEPT ![e] = [x \in Seg |-> 0]]
      /\ UNCHANGED <<sub, comb, slots, live, handle, dst, wire, push, infl>>
      /\ at[e] = "recv" /\ Waiting(e) = {}
      /\ \A d \in Comb : Home[d] = e => comb[d] \notin {"queued", "sending"}
  BY DEF Flush
<1>2. entry'[W][h] # None => entry[W][h] # None
  BY <1>0, <1>1 DEF TypeOK
<1>3. CASE H = e
  <2>1. Running(e) = {}
    BY <1>1 DEF PinInv, PhaseInv
  <2>2. comb[c] \notin {"queued", "waiting", "running", "sending"}
    BY <1>0, <1>1, <1>3, <2>1 DEF Waiting, Running
  <2>3. h \notin live[c]
    BY <1>0, <2>2 DEF CombInv
  <2>4. entry'[H][h] = None
    BY <1>0, <1>1, <1>3 DEF TypeOK
  <2> QED BY <1>0, <1>1, <1>2, <2>2, <2>3, <2>4 DEF HomePin, Active
<1>4. CASE H # e
  <2>1. entry'[H] = entry[H] /\ lock'[H] = lock[H]
    BY <1>0, <1>1, <1>4 DEF TypeOK
  <2> QED BY <1>0, <1>1, <1>2, <2>1 DEF HomePin, Active, Arrived, Sent
<1> QED BY <1>3, <1>4

\* The world.
LEMMA PinWorld ==
  ASSUME PinInv, NEW k \in Key,
         \/ World
         \/ \E j \in Key : LoseSub(j)
         \/ \E d \in Comb : ClientAbort(d)
         \/ \E e \in Eng : Move(e) \/ Spin(e)
  PROVE  HomePin(k)'
<1> DEFINE h == SegOf(k)
           c == k[1]
           H == HomeOf(k)
<1>0. TypeOK /\ TypeInv /\ HomePin(k) /\ CombInv(c) /\ c \in Comb
  BY KeyType DEF PinInv, TypeInv
<1>1. ASSUME UNCHANGED <<sub, entry, lock, comb, slots, live, handle, dst, wire, src, push, infl>>
      PROVE  HomePin(k)'
  BY <1>0, <1>1, PinForeign, ForeignQuiet DEF KeyKept
<1>2. ASSUME NEW j \in Key, NEW p \in Part, Land(j, p) PROVE HomePin(k)'
  <2>1. UNCHANGED <<sub, entry, lock, comb, slots, live, handle, dst, src, push, infl>>
    BY <1>2 DEF Land
  <2>2. PICK end : wire' = [wire EXCEPT ![j][p] = end]
    BY <1>2 DEF Land
  <2>3. CASE j # k
    <3>1. wire'[k] = wire[k]
      BY <1>0, <2>2, <2>3 DEF TypeOK
    <3> QED BY <1>0, <2>1, <3>1, PinForeign, ForeignQuiet DEF KeyKept
  <2>4. CASE j = k
    <3>1. wire[k][p] = "posted"
      BY <1>2, <2>4 DEF Land
    <3>2. handle[k] = "used" /\ ~Sent(k)
      BY <3>1 DEF PinInv, Fresh, Sent
    <3>3. ~Local(k) /\ entry[H][h] = None
      BY <1>0, <3>2 DEF HomePin, Arrived
    <3> QED BY <1>0, <2>1, <3>3 DEF HomePin, Active
  <2> QED BY <2>3, <2>4
<1>3. ASSUME NEW d, Deadline(d) PROVE HomePin(k)'
  BY <1>1, <1>3 DEF Deadline
<1>4. ASSUME NEW d \in Comb, Peer(d) PROVE HomePin(k)'
  BY <1>1, <1>4 DEF Peer
<1>5. ASSUME NEW j \in Key, LoseSub(j) PROVE HomePin(k)'
  <2>1. /\ UNCHANGED <<entry, lock, comb, slots, live, handle, dst, wire, src, push, infl>>
        /\ sub' = [sub EXCEPT ![j] = "lost"] /\ sub[j] = "sent"
    BY <1>5 DEF LoseSub
  <2>2. sub'[k] = sub[k] \/ (sub[k] = "sent" /\ sub'[k] = "lost")
    BY <1>0, <2>1 DEF TypeOK
  <2> QED BY <1>0, <2>1, <2>2 DEF HomePin, Arrived, Sent, Active
<1>6. ASSUME NEW d \in Comb, ClientAbort(d) PROVE HomePin(k)'
  <2>1. UNCHANGED <<sub, entry, lock, slots, live, handle, dst, wire, src, push, infl>>
    BY <1>6 DEF ClientAbort
  <2>2. comb'[c] = comb[c] \/ (comb[c] = "waiting" /\ comb'[c] = "gone")
    BY <1>0, <1>6 DEF ClientAbort, TypeOK
  <2>3. comb[c] = "waiting" => h \notin live[c]
    BY <1>0 DEF CombInv
  <2> QED BY <1>0, <2>1, <2>2, <2>3 DEF HomePin, Arrived, Sent, Active
<1>7. ASSUME NEW e \in Eng, Move(e) \/ Spin(e) PROVE HomePin(k)'
  BY <1>1, <1>7 DEF Move, Spin, vars
<1> QED BY <1>2, <1>3, <1>4, <1>5, <1>6, <1>7 DEF World

\* Every step keeps the holds.
LEMMA PinStep ==
  ASSUME Apart, ProtectedLocal
  PROVE  PinInv /\ [Next]_vars => PinInv'
<1> SUFFICES ASSUME PinInv, [Next]_vars PROVE PinInv'
  OBVIOUS
<1>0. TypeInv /\ Fresh /\ PhaseInv
  BY DEF PinInv
<1>1. CASE UNCHANGED vars
  <2>1. TypeInv'
    BY <1>0, <1>1, TypeStep
  <2>2. Fresh' /\ PhaseInv'
    BY SMTT(30), <1>0, <1>1 DEF Fresh, PhaseInv, Running, vars
  <2>3. ASSUME NEW c \in Comb PROVE CombInv(c)'
    BY <1>1 DEF PinInv, CombInv, Missed, vars
  <2>4. ASSUME NEW k \in Key PROVE HomePin(k)'
    <3>1. Foreign(k)
      BY <1>1, ForeignQuiet DEF KeyKept, vars
    <3> QED BY <1>0, <3>1, PinForeign DEF PinInv
  <2> QED BY <2>1, <2>2, <2>3, <2>4 DEF PinInv
<1>2. CASE Next
  <2>1. TypeInv' /\ Fresh' /\ PhaseInv'
    BY <1>0, <1>2, TypeStep, FreshStep, PhaseStep
  <2>2. \A c \in Comb : CombInv(c)'
    BY <1>0, <1>2, CombStep DEF PinInv
  <2>3. ASSUME NEW k \in Key PROVE HomePin(k)'
    <3>0. HomePin(k) /\ k[1] \in Comb
      BY KeyType DEF PinInv
    <3>1. ASSUME NEW j \in Key, WorkerStep(j) PROVE HomePin(k)'
      BY <1>0, <3>0, <3>1, PinWorker, ForeignWorker, PinForeign
    <3>2. ASSUME NEW j \in Key, HomeStep(j) PROVE HomePin(k)'
      BY <1>0, <3>0, <3>2, PinHome, ForeignHome, PinForeign
    <3>3. ASSUME NEW d \in Comb, CombineStep(d) PROVE HomePin(k)'
      <4>1. CASE d = k[1]
        BY <3>3, <4>1, PinCombine
      <4>2. CASE d # k[1]
        <5>1. CombInv(d)
          BY DEF PinInv
        <5> QED BY <1>0, <3>0, <3>3, <4>2, <5>1, ForeignCombine, PinForeign
      <4> QED BY <4>1, <4>2
    <3>4. ASSUME NEW e \in Eng, Tick(e) \/ Spin(e) \/ Flush(e) PROVE HomePin(k)'
      BY <3>4, PinLaunch, PinFlush, PinWorld DEF Tick
    <3>5. CASE World \/ (\E j \in Key : LoseSub(j)) \/ (\E d \in Comb : ClientAbort(d))
      BY <3>5, PinWorld
    <3> QED BY <1>2, <3>1, <3>2, <3>3, <3>4, <3>5 DEF Next, EngineStep
  <2> QED BY <2>1, <2>2, <2>3 DEF PinInv
<1> QED BY <1>1, <1>2

\* At the start nothing is cached.
LEMMA PinInit == Init => PinInv
<1> SUFFICES ASSUME Init PROVE PinInv
  OBVIOUS
<1>1. TypeInv
  BY TypeInit
<1>2. Fresh /\ PhaseInv
  BY DEF Init, Fresh, PhaseInv, Running
<1>3. ASSUME NEW c \in Comb PROVE CombInv(c)
  BY DEF Init, CombInv
<1>4. ASSUME NEW k \in Key PROVE HomePin(k)
  <2>1. k[1] \in Comb /\ SegOf(k) \in Seg /\ HomeOf(k) \in Eng /\ Worker[k] \in Eng
    BY KeyType
  <2> QED BY <2>1 DEF Init, HomePin
<1> QED BY <1>1, <1>2, <1>3, <1>4 DEF PinInv

\* Whatever is lost, late, aborted or flushed: a combine request that was let
\* through the gate still has all its segments when it is launched, provided no
\* other request has one of them on the same engine.
THEOREM ScatterReadyStays ==
  ASSUME Apart, ProtectedLocal
  PROVE  Spec => []ReadyStays
<1>1. PinInv => ReadyStays
  <2> SUFFICES ASSUME PinInv, NEW c \in Comb, comb[c] \in {"queued", "waiting"}, NEW h \in Gated(c)
               PROVE  h \in Cached(Home[c])
    BY DEF ReadyStays
  <2>1. PICK k \in Key : k[1] = c /\ SegOf(k) = h /\ HomeOf(k) = Home[c]
    BY GatedKey
  <2>2. h \in Seg
    BY GatedKey
  <2> QED BY <2>1, <2>2 DEF PinInv, HomePin, Cached
<1> QED BY <1>1, PinInit, PinStep, PTL DEF Spec

\* And while it runs and its KV goes to the decode engine, the entries it
\* composes stay locked.
THEOREM ScatterSendingPinned ==
  ASSUME Apart, ProtectedLocal, \A k \in Key : SegOf(k) \notin Short
  PROVE  Spec => []SendingPinned
<1>1. PinInv => SendingPinned
  <2> SUFFICES ASSUME PinInv, NEW c \in Comb, comb[c] \in {"running", "sending"}, NEW h \in Gated(c)
               PROVE  h \in live[c] /\ lock[Home[c]][h] > 0
    BY DEF SendingPinned
  <2>1. PICK k \in Key : k[1] = c /\ SegOf(k) = h /\ HomeOf(k) = Home[c]
    BY GatedKey
  <2>2. lock[Home[c]][h] \in Nat
    BY SMTT(30), GatedKey, ScatterAssumption DEF PinInv, TypeInv, TypeOK
  <2>3. h \notin Short /\ HomePin(k)
    BY <2>1 DEF PinInv
  <2>4. h \in live[c] /\ lock[Home[c]][h] >= 1
    BY <2>1, <2>3 DEF HomePin
  <2> QED BY SMTT(30), <2>2, <2>4
<1> QED BY <1>1, PinInit, PinStep, PTL DEF Spec
=============================================================================
