---------------------------- MODULE PICacheSlots ----------------------------
(***************************************************************************)
(* event_loop_normal with requests that end at their prefill: every slot   *)
(* of both pools has exactly one user, and the inflight counters are what  *)
(* _check_pic_memory takes them for.                                       *)
(***************************************************************************)
EXTENDS PICacheProofs

USE ZenonT(40) DEF cacheVars, poolVars, reqVars, loopVars

----------------------------------------------------------------------------
(* The invariant *)

\* The short segments whose slots the code gives back: in the rope modes it forgets
\* the public slot of one, and in all modes that of one which is a prompt by itself.
ShortReleased ==
  /\ Rope => Short = {}
  /\ \A p \in Prompts : Len(p) = 1 => p[1] \notin Short

\* A request has the slots it needs from its launch to its end, and none before.
Recorded ==
  \A r \in Req :
    /\ r \in Batch => DOMAIN kv[r] = KVNeeds(r) /\ DOMAIN mb[r] = {PoolTag} \cup MbNeeds(r)
    /\ r \notin Batch => DOMAIN kv[r] = {} /\ DOMAIN mb[r] = {}
    /\ Len(prompt[r]) \notin hit[r]

\* The inflight counters count the slots recorded on requests.
Counted ==
  /\ inflKV = Cardinality(Taken(kv))
  /\ inflMb = Cardinality({x \in Taken(mb) : x[2] # PoolTag})

SlotInv == Recorded /\ Counted /\ SlotsExclusive

----------------------------------------------------------------------------
(* Counting *)

\* The parts of a finite set add up to it.
LEMMA CardSplit ==
  ASSUME NEW A, NEW B, IsFiniteSet(A), IsFiniteSet(B), A \cap B = {}
  PROVE  /\ IsFiniteSet(A \cup B) /\ Cardinality(A) \in Nat /\ Cardinality(B) \in Nat
         /\ Cardinality(A \cup B) = Cardinality(A) + Cardinality(B)
<1>1. IsFiniteSet(A \cup B) /\ Cardinality(A) \in Nat /\ Cardinality(B) \in Nat
  BY FS_Union, FS_CardinalityType
<1>2. Cardinality(A \cup B) = Cardinality(A) + Cardinality(B) - Cardinality(A \cap B)
  BY FS_Union
<1>3. Cardinality(A \cap B) = 0
  BY FS_EmptySet
<1> QED BY SMTT(30), <1>1, <1>2, <1>3

\* m pairs the members of A with those of B.
Pairs(m, A, B) ==
  m \in [A -> B] /\ (\A x, y \in A : m[x] = m[y] => x = y) /\ (\A b \in B : \E x \in A : m[x] = b)

\* Sets of one size.
LEMMA CardSame ==
  ASSUME NEW A, NEW B, NEW m, IsFiniteSet(A), Pairs(m, A, B)
  PROVE  IsFiniteSet(B) /\ Cardinality(B) = Cardinality(A)
<1>1. m \in Bijection(A, B)
  BY DEF Pairs, Bijection, Injection, Surjection, IsInjective
<1>2. ExistsBijection(A, B)
  BY <1>1 DEF ExistsBijection
<1> QED BY <1>2, FS_Bijection

\* The occurrences of a slot in an allocation are those in its parts A and B.
OccSum(f, A, B, s) ==
  /\ Occ(f, s) = Occ(Restrict(f, A), s) + Occ(Restrict(f, B), s)
  /\ Occ(Restrict(f, A), s) \in Nat /\ Occ(Restrict(f, B), s) \in Nat

\* That is so when the parts are disjoint and there is no other.
LEMMA OccSplit ==
  ASSUME NEW f, NEW A, NEW B, NEW s, IsFiniteSet(DOMAIN f), DOMAIN f = A \cup B, A \cap B = {}
  PROVE  OccSum(f, A, B, s)
<1> DEFINE X == {t \in A : f[t] = s}
           Y == {t \in B : f[t] = s}
<1>1. {t \in DOMAIN f : f[t] = s} = X \cup Y /\ X \cap Y = {}
  OBVIOUS
<1>2. IsFiniteSet(X) /\ IsFiniteSet(Y)
  <2>1. X \subseteq DOMAIN f /\ Y \subseteq DOMAIN f
    OBVIOUS
  <2> HIDE DEF X, Y
  <2> QED BY <2>1, FS_Subset
<1>3. Occ(f, s) = Cardinality(X \cup Y)
  BY <1>1 DEF Occ
<1>4. Occ(Restrict(f, A), s) = Cardinality(X) /\ Occ(Restrict(f, B), s) = Cardinality(Y)
  <2>1. {t \in DOMAIN Restrict(f, A) : Restrict(f, A)[t] = s} = X
    BY DEF Restrict
  <2>2. {t \in DOMAIN Restrict(f, B) : Restrict(f, B)[t] = s} = Y
    BY DEF Restrict
  <2> HIDE DEF X, Y
  <2> QED BY <2>1, <2>2 DEF Occ
<1> HIDE DEF X, Y
<1>5. Cardinality(X \cup Y) = Cardinality(X) + Cardinality(Y) /\ Cardinality(X) \in Nat /\ Cardinality(Y) \in Nat
  BY <1>1, <1>2, CardSplit
<1> QED BY <1>3, <1>4, <1>5 DEF OccSum

\* Three parts.
OccSum3(f, A, B, C, s) ==
  /\ Occ(f, s) = Occ(Restrict(f, A), s) + Occ(Restrict(f, B), s) + Occ(Restrict(f, C), s)
  /\ Occ(Restrict(f, A), s) \in Nat /\ Occ(Restrict(f, B), s) \in Nat /\ Occ(Restrict(f, C), s) \in Nat

\* The same for three parts.
LEMMA OccSplit3 ==
  ASSUME NEW f, NEW A, NEW B, NEW C, NEW s, IsFiniteSet(DOMAIN f),
         DOMAIN f = A \cup (B \cup C), A \cap (B \cup C) = {}, B \cap C = {}
  PROVE  OccSum3(f, A, B, C, s)
<1> DEFINE D == B \cup C
           g == Restrict(f, D)
<1>1. OccSum(f, A, D, s)
  <2>1. DOMAIN f = A \cup D /\ A \cap D = {}
    OBVIOUS
  <2> HIDE DEF D
  <2> QED BY <2>1, OccSplit
<1>2. DOMAIN g = D /\ IsFiniteSet(D)
  BY FS_Subset DEF Restrict
<1>3. OccSum(g, B, C, s)
  <2>1. IsFiniteSet(DOMAIN g) /\ DOMAIN g = B \cup C
    BY <1>2
  <2> HIDE DEF g, D
  <2> QED BY <2>1, OccSplit
<1>4. Restrict(g, B) = Restrict(f, B) /\ Restrict(g, C) = Restrict(f, C)
  BY DEF Restrict
<1>5. /\ Occ(f, s) = Occ(Restrict(f, A), s) + Occ(g, s) /\ Occ(Restrict(f, A), s) \in Nat
      /\ Occ(g, s) = Occ(Restrict(f, B), s) + Occ(Restrict(f, C), s)
      /\ Occ(Restrict(f, B), s) \in Nat /\ Occ(Restrict(f, C), s) \in Nat
  BY <1>1, <1>3, <1>4 DEF OccSum
<1> HIDE DEF g, D
<1> QED BY SMTT(30), <1>5 DEF OccSum3

\* Slots that change their tags occur as often as before.
LEMMA OccSame ==
  ASSUME NEW f, NEW g, NEW m, NEW s, IsFiniteSet(DOMAIN f), Pairs(m, DOMAIN f, DOMAIN g),
         \A x \in DOMAIN f : g[m[x]] = f[x]
  PROVE  Occ(g, s) = Occ(f, s)
<1> DEFINE A == {x \in DOMAIN f : f[x] = s}
           B == {b \in DOMAIN g : g[b] = s}
           n == [x \in A |-> m[x]]
<1>1. IsFiniteSet(A)
  BY FS_Subset
<1>2. Pairs(n, A, B)
  <2>1. n \in [A -> B]
    BY DEF Pairs
  <2>2. \A x, y \in A : n[x] = n[y] => x = y
    BY DEF Pairs
  <2>3. ASSUME NEW b \in B PROVE \E x \in A : n[x] = b
    <3>1. PICK x \in DOMAIN f : m[x] = b
      BY DEF Pairs
    <3>2. x \in A /\ n[x] = b
      BY <3>1
    <3> QED BY <3>2
  <2> HIDE DEF A, B, n
  <2> QED BY <2>1, <2>2, <2>3 DEF Pairs
<1>3. Cardinality(B) = Cardinality(A)
  <2> HIDE DEF A, B, n
  <2> QED BY <1>1, <1>2, CardSame
<1> QED BY <1>3 DEF Occ

\* What the index G has of a slot after taking over the part A of an allocation f: what
\* it had before, as F, and what that part had.
OccGain(G, F, f, A, s) ==
  /\ Occ(G, s) = Occ(F, s) + Occ(Restrict(f, A), s)
  /\ Occ(F, s) \in Nat /\ Occ(Restrict(f, A), s) \in Nat

\* G has the members C of F, and others T that took over the part A of f, as m pairs
\* them.
TakesOver(G, F, f, A, C, T, m) ==
  /\ DOMAIN G = C \cup T /\ C \cap T = {} /\ F = Restrict(G, C)
  /\ Pairs(m, A, T) /\ \A x \in A : G[m[x]] = f[x]

\* Registering: the new entries T have the slots of the part A under other names.
LEMMA OccRegister ==
  ASSUME NEW G, NEW F, NEW f, NEW A, NEW C, NEW T, NEW s, NEW m,
         IsFiniteSet(C), IsFiniteSet(A), TakesOver(G, F, f, A, C, T, m)
  PROVE  OccGain(G, F, f, A, s)
<1>0. /\ DOMAIN G = C \cup T /\ C \cap T = {} /\ F = Restrict(G, C)
      /\ Pairs(m, A, T) /\ \A x \in A : G[m[x]] = f[x]
  BY DEF TakesOver
<1>1. IsFiniteSet(T)
  BY <1>0, CardSame
<1>2. IsFiniteSet(DOMAIN G)
  <2>1. IsFiniteSet(C \cup T)
    BY <1>1, FS_Union
  <2> QED BY <1>0, <2>1
<1>3. OccSum(G, C, T, s)
  BY <1>0, <1>2, OccSplit
<1> DEFINE g == Restrict(G, T)
           h == Restrict(f, A)
<1>4. DOMAIN g = T /\ DOMAIN h = A /\ (\A x \in A : g[m[x]] = h[x])
  BY <1>0 DEF Restrict, Pairs
<1>5. Occ(g, s) = Occ(h, s)
  <2> HIDE DEF g, h
  <2>1. Pairs(m, DOMAIN h, DOMAIN g) /\ IsFiniteSet(DOMAIN h) /\ \A x \in DOMAIN h : g[m[x]] = h[x]
    BY <1>0, <1>4
  <2> QED BY SMTT(30), <2>1, OccSame
<1> QED BY <1>0, <1>3, <1>5 DEF OccSum, OccGain

\* Requests have finitely many slots together.
LEMMA TakenFinite ==
  ASSUME NEW f, \A q \in Req : IsFiniteSet(DOMAIN f[q])
  PROVE  IsFiniteSet(Taken(f))
<1> DEFINE p == [q \in Req |-> {q} \X DOMAIN f[q]]
           F == {p[q] : q \in Req}
<1>1. \A q \in Req : IsFiniteSet(p[q])
  BY FS_Singleton, FS_Product
<1>2. DOMAIN p = Req /\ Taken(f) = UNION F
  BY DEF Taken
<1>3. \A T \in F : IsFiniteSet(T)
  BY <1>1
<1>4. IsFiniteSet(F)
  <2> HIDE DEF p
  <2>1. IsFiniteSet(Req) /\ DOMAIN p = Req
    BY <1>2, SegAssumption
  <2>2. IsFiniteSet({p[q] : q \in Req})
    BY <2>1, FiniteImage
  <2> QED BY <2>2
<1> HIDE DEF F
<1> QED BY <1>2, <1>3, <1>4, FS_UNION

\* The slots recorded on requests in f are those of r and those of the others in g.
TakenSum(f, g, r, s) ==
  /\ Cardinality(Takers(f, s)) = Cardinality(Takers(g, s)) + Occ(f[r], s)
  /\ Taken(f) = Taken(g) \cup ({r} \X DOMAIN f[r]) /\ Taken(g) \cap ({r} \X DOMAIN f[r]) = {}
  /\ IsFiniteSet(Taken(f)) /\ IsFiniteSet(Taken(g))
  /\ Cardinality(Takers(g, s)) \in Nat /\ Occ(f[r], s) \in Nat

\* That is so when r gives back its slots.
LEMMA TakenSplit ==
  ASSUME NEW f, NEW g, NEW r \in Req, NEW s, DOMAIN f = Req, \A q \in Req : IsFiniteSet(DOMAIN f[q]),
         g = [f EXCEPT ![r] = NoSlots]
  PROVE  TakenSum(f, g, r, s)
<1>1. DOMAIN g = Req /\ DOMAIN g[r] = {} /\ \A q \in Req : q # r => g[q] = f[q]
  BY DEF NoSlots
<1>2. Taken(f) = Taken(g) \cup ({r} \X DOMAIN f[r]) /\ Taken(g) \cap ({r} \X DOMAIN f[r]) = {}
  BY SMTT(30), <1>1 DEF Taken
<1>3. IsFiniteSet(Taken(f))
  BY TakenFinite
<1>4. IsFiniteSet(Taken(g))
  BY <1>2, <1>3, FS_Subset
<1> DEFINE X == {x \in {r} \X DOMAIN f[r] : f[x[1]][x[2]] = s}
           A == {t \in DOMAIN f[r] : f[r][t] = s}
           m == [t \in A |-> <<r, t>>]
<1>5. Takers(f, s) = Takers(g, s) \cup X /\ Takers(g, s) \cap X = {}
  <2>1. \A x \in Taken(g) : g[x[1]][x[2]] = f[x[1]][x[2]]
    BY SMTT(30), <1>1 DEF Taken
  <2> QED BY <1>2, <2>1 DEF Takers
<1>6. IsFiniteSet(A) /\ IsFiniteSet(Takers(g, s))
  BY <1>4, FS_Subset DEF Takers
<1>7. IsFiniteSet(X) /\ Cardinality(X) = Cardinality(A)
  <2>1. m \in [A -> X] /\ (\A x, y \in A : m[x] = m[y] => x = y) /\ (\A b \in X : \E x \in A : m[x] = b)
    BY SMTT(30)
  <2> HIDE DEF A, X, m
  <2>2. Pairs(m, A, X)
    BY <2>1 DEF Pairs
  <2> QED BY <1>6, <2>2, CardSame
<1>8. Occ(f[r], s) = Cardinality(A)
  BY DEF Occ
<1> HIDE DEF A, X, m
<1>9. /\ Cardinality(Takers(f, s)) = Cardinality(Takers(g, s)) + Cardinality(X)
      /\ Cardinality(Takers(g, s)) \in Nat /\ Cardinality(X) \in Nat
  BY <1>5, <1>6, <1>7, CardSplit
<1> QED BY <1>2, <1>3, <1>4, <1>7, <1>8, <1>9 DEF TakenSum

\* The occurrences of a slot in entries.
LEMMA UsesOcc ==
  \A s : /\ Uses(s) = kvFree[s] + Occ(KVOf(Cached(entry)), s) + Cardinality(Takers(kv, s))
         /\ MbUses(s) = mbFree[s] + Occ(MbOf(Cached(entry)), s) + Cardinality(Takers(mb, s))
<1> SUFFICES ASSUME NEW s
             PROVE  /\ Uses(s) = kvFree[s] + Occ(KVOf(Cached(entry)), s) + Cardinality(Takers(kv, s))
                    /\ MbUses(s) = mbFree[s] + Occ(MbOf(Cached(entry)), s) + Cardinality(Takers(mb, s))
  OBVIOUS
<1>1. {h \in DOMAIN KVOf(Cached(entry)) : KVOf(Cached(entry))[h] = s} = {h \in Cached(entry) : entry[h].kv = s}
  BY DEF KVOf
<1>2. {h \in DOMAIN MbOf(Cached(entry)) : MbOf(Cached(entry))[h] = s} = {h \in Cached(entry) : entry[h].mb = s}
  BY DEF MbOf
<1> QED BY <1>1, <1>2 DEF Uses, MbUses, Occ

\* The same after a step.
LEMMA UsesMoved ==
  \A s : /\ Uses(s)' = kvFree'[s] + Occ(KVOf(Cached(entry))', s) + Cardinality(Takers(kv', s))
         /\ MbUses(s)' = mbFree'[s] + Occ(MbOf(Cached(entry))', s) + Cardinality(Takers(mb', s))
<1>1. (\A s : /\ Uses(s) = kvFree[s] + Occ(KVOf(Cached(entry)), s) + Cardinality(Takers(kv, s))
              /\ MbUses(s) = mbFree[s] + Occ(MbOf(Cached(entry)), s) + Cardinality(Takers(mb, s)))'
  BY UsesOcc, PTL
<1> QED BY <1>1

\* Cached segments are finitely many.
LEMMA CachedFinite == IsFiniteSet(Cached(entry)) /\ Cached(entry) \subseteq Seg
BY SegAssumption, FS_Subset DEF Cached

\* What is recorded when only the requests of A have slots.
LEMMA TakenOf ==
  ASSUME NEW f, NEW d, NEW A \in SUBSET Req, \A r \in A : DOMAIN f[r] = d[r],
         \A r \in Req \ A : DOMAIN f[r] = {}
  PROVE  Taken(f) = UNION {{r} \X d[r] : r \in A}
<1>1. ASSUME NEW x \in Taken(f) PROVE x \in UNION {{r} \X d[r] : r \in A}
  <2>1. PICK r \in Req : x \in {r} \X DOMAIN f[r]
    BY DEF Taken
  <2>2. DOMAIN f[r] # {}
    BY <2>1
  <2> QED BY <2>1, <2>2
<1>2. ASSUME NEW x \in UNION {{r} \X d[r] : r \in A} PROVE x \in Taken(f)
  <2>1. PICK r \in A : x \in {r} \X d[r]
    OBVIOUS
  <2> QED BY <2>1 DEF Taken
<1> QED BY <1>1, <1>2

\* Nothing is recorded when nothing runs.
LEMMA NothingTaken ==
  ASSUME NEW f, \A r \in Req : DOMAIN f[r] = {}, NEW s
  PROVE  Taken(f) = {} /\ Takers(f, s) = {}
BY DEF Taken, Takers

----------------------------------------------------------------------------
(* Steps *)

\* A pool whose slots are all free, with nothing cached and nothing running.
AllFree ==
  /\ entry = [h \in Seg |-> None] /\ kvFree = [s \in KV |-> 1] /\ mbFree = [s \in Mamba |-> 1]
  /\ inflKV = 0 /\ inflMb = 0 /\ \A r \in Req : DOMAIN kv[r] = {} /\ DOMAIN mb[r] = {}

\* That is the state at the start and after flush_cache.
LEMMA SlotFresh == AllFree => Counted /\ SlotsExclusive
<1> SUFFICES ASSUME AllFree PROVE Counted /\ SlotsExclusive
  OBVIOUS
<1> USE DEF AllFree
<1>1. Counted
  <2>1. Taken(kv) = {} /\ Taken(mb) = {}
    BY NothingTaken
  <2> QED BY <2>1, FS_EmptySet DEF Counted
<1>2. ASSUME NEW s
      PROVE  /\ Cardinality({h \in Cached(entry) : entry[h].kv = s}) = 0 /\ Cardinality(Takers(kv, s)) = 0
             /\ Cardinality({h \in Cached(entry) : entry[h].mb = s}) = 0 /\ Cardinality(Takers(mb, s)) = 0
  <2>1. Takers(kv, s) = {} /\ Takers(mb, s) = {}
    BY NothingTaken
  <2>2. Cached(entry) = {}
    BY DEF Cached
  <2>3. {h \in Cached(entry) : entry[h].kv = s} = {} /\ {h \in Cached(entry) : entry[h].mb = s} = {}
    BY <2>2
  <2> QED BY <2>1, <2>3, FS_EmptySet
<1>3. SlotsExclusive
  <2>1. ASSUME NEW s \in KV PROVE Uses(s) = 1
    <3>1. kvFree[s] = 1
      OBVIOUS
    <3>2. Cardinality({h \in Cached(entry) : entry[h].kv = s}) = 0 /\ Cardinality(Takers(kv, s)) = 0
      BY <1>2
    <3> QED BY SMTT(30), <3>1, <3>2 DEF Uses
  <2>2. ASSUME NEW s \in Mamba PROVE MbUses(s) = 1
    <3>1. mbFree[s] = 1
      OBVIOUS
    <3>2. Cardinality({h \in Cached(entry) : entry[h].mb = s}) = 0 /\ Cardinality(Takers(mb, s)) = 0
      BY <1>2
    <3> QED BY SMTT(30), <3>1, <3>2 DEF MbUses
  <2> QED BY <2>1, <2>2 DEF SlotsExclusive
<1> QED BY <1>1, <1>3

\* Requests are nowhere at the start.
LEMMA SlotInit == Init => SlotInv
<1> SUFFICES ASSUME Init PROVE SlotInv
  OBVIOUS
<1>1. \A r \in Req : DOMAIN kv[r] = {} /\ DOMAIN mb[r] = {}
  BY DEF Init, NoSlots
<1>2. Recorded
  BY <1>1 DEF Init, Recorded, Batch
<1>3. Counted /\ SlotsExclusive
  BY <1>1, SlotFresh DEF Init, AllFree
<1> QED BY <1>2, <1>3 DEF SlotInv

\* The steps that leave entries, pools and running requests alone.
LEMMA SlotQuiet ==
  ASSUME SlotInv, UNCHANGED <<entry, kvFree, mbFree, inflKV, inflMb, kv, mb>>, Batch' = Batch,
         \A r \in Batch : prompt'[r] = prompt[r] /\ hit'[r] = hit[r],
         \A r \in Req : Len(prompt'[r]) \notin hit'[r]
  PROVE  SlotInv'
<1>1. \A r \in Batch : KVNeeds(r)' = KVNeeds(r) /\ MbNeeds(r)' = MbNeeds(r)
  BY DEF KVNeeds, MbNeeds, Pos, Miss, IsQuery, IsShort, Multi
<1>2. Recorded'
  BY <1>1 DEF SlotInv, Recorded
<1>3. Counted'
  BY DEF SlotInv, Counted, Taken
<1>4. SlotsExclusive'
  <2>1. \A s : Takers(kv, s)' = Takers(kv, s) /\ Takers(mb, s)' = Takers(mb, s)
    <3>1. Taken(kv)' = Taken(kv) /\ Taken(mb)' = Taken(mb)
      BY DEF Taken
    <3> QED BY <3>1 DEF Takers
  <2>2. Cached(entry)' = Cached(entry)
    BY DEF Cached
  <2>3. \A s : Uses(s)' = Uses(s) /\ MbUses(s)' = MbUses(s)
    BY <2>1, <2>2 DEF Uses, MbUses
  <2> QED BY <2>3 DEF SlotInv, SlotsExclusive
<1> QED BY <1>2, <1>3, <1>4 DEF SlotInv

\* flush_cache.
LEMMA SlotFlush ==
  ASSUME SlotInv, Flush
  PROVE  SlotInv'
<1>1. Batch = {} /\ Batch' = {} /\ UNCHANGED <<prompt, hit, kv, mb>>
  BY DEF Flush, Batch
<1>2. Recorded'
  BY <1>1 DEF SlotInv, Recorded
<1>3. \A r \in Req : DOMAIN kv'[r] = {} /\ DOMAIN mb'[r] = {}
  BY <1>1 DEF SlotInv, Recorded
<1>4. Counted' /\ SlotsExclusive'
  <2>1. AllFree'
    BY <1>3 DEF Flush, AllFree
  <2>2. (AllFree => Counted /\ SlotsExclusive)'
    BY SlotFresh, PTL
  <2> QED BY <2>1, <2>2
<1> QED BY <1>2, <1>4 DEF SlotInv

\* pic_alloc_for_extend: the slots of the evicted entries and of the free list go to
\* the requests of the batch.
LEMMA SlotLaunch ==
  ASSUME IInv, HitInv, SlotInv, Launch
  PROVE  SlotInv'
<1> DEFINE V == Oldest(Unlocked(entry, lock), AllocPlan.evict)
           kvBag == Give(kvFree, KVOf(V))
           mbBag == Give(mbFree, MbOf(V))
<1>0. TypeOK
  BY DEF IInv
<1>1. V \subseteq Cached(entry) /\ V \subseteq Seg
  BY DEF Oldest, Unlocked, Cached
<1>2. kvBag \in [KV -> Nat] /\ mbBag \in [Mamba -> Nat]
  BY <1>0, <1>1, EvictPools
<1>3. PICK f \in Alloc(kvBag, SlotNeeds), g \in Alloc(mbBag, PoolNeeds \cup SegNeeds) :
        /\ kvFree' = Take(kvBag, f) /\ mbFree' = Take(mbBag, g)
        /\ kv' = [r \in Req |-> IF r \in Admitted
                                  THEN [t \in KVNeeds(r) |-> f[<<r, t>>]] ELSE kv[r]]
        /\ mb' = [r \in Req |-> IF r \in Admitted
                                  THEN [t \in {PoolTag} \cup MbNeeds(r) |-> g[<<r, t>>]]
                                  ELSE mb[r]]
  BY ZenonT(30) DEF Launch
<1>4. /\ loop \in {"form", "full"} /\ entry' = Without(entry, V)
      /\ inflKV' = inflKV + Cardinality(SlotNeeds)
      /\ inflMb' = inflMb + Cardinality(SegNeeds)
      /\ phase' = [r \in Req |-> IF r \in Admitted THEN "running" ELSE phase[r]]
      /\ prompt' = prompt /\ hit' = hit
  BY DEF Launch
<1>5. f \in [SlotNeeds -> KV] /\ g \in [PoolNeeds \cup SegNeeds -> Mamba]
  BY <1>2, <1>3 DEF Alloc
<1>6. IsFiniteSet(SlotNeeds) /\ IsFiniteSet(SegNeeds) /\ IsFiniteSet(PoolNeeds \cup SegNeeds)
  BY <1>0, BatchNeedsFinite, FS_Union
<1>7. Batch = {} /\ Batch' = Admitted
  BY <1>0, <1>4 DEF HitInv, OneBatch, TypeOK, Admitted, Batch
<1>8. \A r \in Req : DOMAIN kv[r] = {} /\ DOMAIN mb[r] = {}
  BY <1>7 DEF SlotInv, Recorded
<1>9. \A r \in Req : KVNeeds(r)' = KVNeeds(r) /\ MbNeeds(r)' = MbNeeds(r)
  BY <1>4 DEF KVNeeds, MbNeeds, Pos, Miss, IsQuery, IsShort, Multi
<1>10. \A r \in Req : /\ DOMAIN kv'[r] = IF r \in Admitted THEN KVNeeds(r) ELSE {}
                      /\ DOMAIN mb'[r] = IF r \in Admitted THEN {PoolTag} \cup MbNeeds(r) ELSE {}
  BY <1>3, <1>8
<1>11. Recorded'
  BY <1>4, <1>7, <1>9, <1>10 DEF SlotInv, Recorded
<1> HIDE DEF V, kvBag, mbBag
<1>12. Taken(kv') = SlotNeeds /\ Taken(mb') = PoolNeeds \cup SegNeeds
  <2>1. Admitted \subseteq Req
    BY DEF Admitted
  <2> DEFINE d == [r \in Req |-> KVNeeds(r)]
             e == [r \in Req |-> {PoolTag} \cup MbNeeds(r)]
  <2>2. Taken(kv') = UNION {{r} \X KVNeeds(r) : r \in Admitted}
    <3>1. Taken(kv') = UNION {{r} \X d[r] : r \in Admitted}
      <4>1. (\A r \in Admitted : DOMAIN kv'[r] = d[r]) /\ (\A r \in Req \ Admitted : DOMAIN kv'[r] = {})
        BY <1>10, <2>1
      <4> HIDE DEF d
      <4> QED BY SMTT(30), <2>1, <4>1, TakenOf
    <3> QED BY <2>1, <3>1
  <2>3. Taken(mb') = UNION {{r} \X ({PoolTag} \cup MbNeeds(r)) : r \in Admitted}
    <3>1. Taken(mb') = UNION {{r} \X e[r] : r \in Admitted}
      <4>1. (\A r \in Admitted : DOMAIN mb'[r] = e[r]) /\ (\A r \in Req \ Admitted : DOMAIN mb'[r] = {})
        BY <1>10, <2>1
      <4> HIDE DEF e
      <4> QED BY SMTT(30), <2>1, <4>1, TakenOf
    <3> QED BY <2>1, <3>1
  <2>4. UNION {{r} \X ({PoolTag} \cup MbNeeds(r)) : r \in Admitted} = PoolNeeds \cup SegNeeds
    BY SMTT(30) DEF PoolNeeds, SegNeeds
  <2> QED BY <2>2, <2>3, <2>4 DEF SlotNeeds
<1>13. /\ \A x \in SlotNeeds : kv'[x[1]][x[2]] = f[x]
       /\ \A x \in PoolNeeds \cup SegNeeds : mb'[x[1]][x[2]] = g[x]
  <2>1. ASSUME NEW x \in SlotNeeds PROVE kv'[x[1]][x[2]] = f[x]
    <3>1. PICK r \in Admitted : x \in {r} \X KVNeeds(r)
      BY DEF SlotNeeds
    <3>2. x = <<r, x[2]>> /\ x[1] = r /\ x[2] \in KVNeeds(r) /\ r \in Req
      BY SMTT(30), <3>1 DEF Admitted
    <3>3. kv'[r] = [t \in KVNeeds(r) |-> f[<<r, t>>]]
      BY <1>3, <3>2
    <3>4. kv'[r][x[2]] = f[<<r, x[2]>>]
      BY <3>2, <3>3
    <3>5. kv'[x[1]][x[2]] = kv'[r][x[2]] /\ f[<<r, x[2]>>] = f[x]
      BY <3>2
    <3> QED BY <3>4, <3>5
  <2>2. ASSUME NEW x \in PoolNeeds \cup SegNeeds PROVE mb'[x[1]][x[2]] = g[x]
    <3>1. PICK r \in Admitted : x \in {r} \X ({PoolTag} \cup MbNeeds(r))
      BY SMTT(30) DEF SegNeeds, PoolNeeds
    <3>2. x = <<r, x[2]>> /\ x[1] = r /\ x[2] \in {PoolTag} \cup MbNeeds(r) /\ r \in Req
      BY SMTT(30), <3>1 DEF Admitted
    <3>3. mb'[r] = [t \in {PoolTag} \cup MbNeeds(r) |-> g[<<r, t>>]]
      BY <1>3, <3>2
    <3>4. mb'[r][x[2]] = g[<<r, x[2]>>]
      BY <3>2, <3>3
    <3>5. mb'[x[1]][x[2]] = mb'[r][x[2]] /\ g[<<r, x[2]>>] = g[x]
      BY <3>2
    <3> QED BY <3>4, <3>5
  <2> QED BY <2>1, <2>2
<1>14. Counted'
  <2>1. {x \in PoolNeeds \cup SegNeeds : x[2] # PoolTag} = SegNeeds
    BY SMTT(30) DEF PoolNeeds, SegNeeds, MbNeeds, PoolTag
  <2>2. inflKV = 0 /\ inflMb = 0
    BY <1>8, NothingTaken, FS_EmptySet DEF SlotInv, Counted
  <2>3. inflKV' = Cardinality(SlotNeeds) /\ inflMb' = Cardinality(SegNeeds)
    <3>1. Cardinality(SlotNeeds) \in Nat /\ Cardinality(SegNeeds) \in Nat
      BY <1>6, FS_CardinalityType
    <3> QED BY SMTT(30), <1>4, <2>2, <3>1
  <2> QED BY <1>12, <2>1, <2>3 DEF Counted
<1>15. /\ \A s : Takers(kv', s) = {x \in DOMAIN f : f[x] = s}
       /\ \A s : Takers(mb', s) = {x \in DOMAIN g : g[x] = s}
  BY <1>5, <1>12, <1>13 DEF Takers
<1>16. /\ Cached(entry') = Cached(entry) \ V
       /\ KVOf(Cached(entry))' = Restrict(KVOf(Cached(entry)), Cached(entry) \ V)
       /\ MbOf(Cached(entry))' = Restrict(MbOf(Cached(entry)), Cached(entry) \ V)
  <2>1. Cached(entry') = Cached(entry) \ V
    BY <1>4 DEF Cached, Without
  <2>2. \A h \in Cached(entry) \ V : entry'[h] = entry[h]
    BY <1>4 DEF Cached, Without
  <2>3. KVOf(Cached(entry))' = [h \in Cached(entry) \ V |-> entry'[h].kv]
    BY <2>1 DEF KVOf
  <2>4. MbOf(Cached(entry))' = [h \in Cached(entry) \ V |-> entry'[h].mb]
    BY <2>1 DEF MbOf
  <2>5. Restrict(KVOf(Cached(entry)), Cached(entry) \ V) = [h \in Cached(entry) \ V |-> entry[h].kv]
    BY DEF KVOf, Restrict
  <2>6. Restrict(MbOf(Cached(entry)), Cached(entry) \ V) = [h \in Cached(entry) \ V |-> entry[h].mb]
    BY DEF MbOf, Restrict
  <2> QED BY SMTT(30), <2>1, <2>2, <2>3, <2>4, <2>5, <2>6
<1>17. \A s : /\ Uses(s)' = kvFree'[s] + Occ(KVOf(Cached(entry))', s) + Cardinality(Takers(kv', s))
              /\ MbUses(s)' = mbFree'[s] + Occ(MbOf(Cached(entry))', s) + Cardinality(Takers(mb', s))
  BY UsesMoved
<1>18. ASSUME NEW s \in KV PROVE Uses(s)' = 1
  <2>1. KVOf(V) = Restrict(KVOf(Cached(entry)), V) /\ DOMAIN KVOf(Cached(entry)) = Cached(entry)
    BY <1>1 DEF KVOf, Restrict
  <2>2. /\ Occ(KVOf(Cached(entry)), s) = Occ(KVOf(V), s) + Occ(KVOf(Cached(entry))', s)
        /\ Occ(KVOf(V), s) \in Nat /\ Occ(KVOf(Cached(entry))', s) \in Nat
    <3>1. IsFiniteSet(DOMAIN KVOf(Cached(entry))) /\ V \subseteq DOMAIN KVOf(Cached(entry))
      BY <1>1, <2>1, CachedFinite
    <3>2. KVOf(Cached(entry))' = Restrict(KVOf(Cached(entry)), Cached(entry) \ V)
      BY <1>16
    <3> DEFINE F == KVOf(Cached(entry))
               R == Cached(entry) \ V
    <3>3. IsFiniteSet(DOMAIN F) /\ DOMAIN F = V \cup R /\ V \cap R = {}
      BY <2>1, <3>1
    <3>4. OccSum(F, V, R, s)
      <4> HIDE DEF F, R
      <4> QED BY <3>3, OccSplit
    <3> QED BY <2>1, <3>2, <3>4 DEF OccSum
  <2>3. Occ(f, s) \in Nat /\ Cardinality(Takers(kv', s)) = Occ(f, s)
    <3>1. IsFiniteSet(DOMAIN f)
      BY <1>5, <1>6
    <3>2. Takers(kv', s) = {x \in DOMAIN f : f[x] = s}
      BY <1>15
    <3>3. Occ(f, s) \in Nat
      BY <3>1, OccNat
    <3> QED BY <3>2, <3>3 DEF Occ
  <2>4. kvFree'[s] = kvFree[s] + Occ(KVOf(V), s) - Occ(f, s) /\ kvFree[s] \in Nat
    <3>1. kvBag[s] = kvFree[s] + Occ(KVOf(V), s) /\ kvFree[s] \in Nat
      BY <1>0 DEF Give, TypeOK, kvBag
    <3>2. kvFree'[s] = kvBag[s] - Occ(f, s)
      BY <1>2, <1>3 DEF Take
    <3> QED BY SMTT(30), <2>2, <2>3, <3>1, <3>2
  <2>5. Uses(s) = 1 /\ Cardinality(Takers(kv, s)) = 0
    BY <1>8, NothingTaken, FS_EmptySet DEF SlotInv, SlotsExclusive
  <2>6. kvFree[s] + Occ(KVOf(Cached(entry)), s) = 1
    BY SMTT(30), <2>2, <2>4, <2>5, UsesOcc
  <2>7. Uses(s)' = kvFree'[s] + Occ(KVOf(Cached(entry))', s) + Occ(f, s)
    BY <1>17, <2>3
  <2> QED BY SMTT(30), <2>2, <2>3, <2>4, <2>6, <2>7
<1>19. ASSUME NEW s \in Mamba PROVE MbUses(s)' = 1
  <2>1. MbOf(V) = Restrict(MbOf(Cached(entry)), V) /\ DOMAIN MbOf(Cached(entry)) = Cached(entry)
    BY <1>1 DEF MbOf, Restrict
  <2>2. /\ Occ(MbOf(Cached(entry)), s) = Occ(MbOf(V), s) + Occ(MbOf(Cached(entry))', s)
        /\ Occ(MbOf(V), s) \in Nat /\ Occ(MbOf(Cached(entry))', s) \in Nat
    <3>1. IsFiniteSet(DOMAIN MbOf(Cached(entry))) /\ V \subseteq DOMAIN MbOf(Cached(entry))
      BY <1>1, <2>1, CachedFinite
    <3>2. MbOf(Cached(entry))' = Restrict(MbOf(Cached(entry)), Cached(entry) \ V)
      BY <1>16
    <3> DEFINE F == MbOf(Cached(entry))
               R == Cached(entry) \ V
    <3>3. IsFiniteSet(DOMAIN F) /\ DOMAIN F = V \cup R /\ V \cap R = {}
      BY <2>1, <3>1
    <3>4. OccSum(F, V, R, s)
      <4> HIDE DEF F, R
      <4> QED BY <3>3, OccSplit
    <3> QED BY <2>1, <3>2, <3>4 DEF OccSum
  <2>3. Occ(g, s) \in Nat /\ Cardinality(Takers(mb', s)) = Occ(g, s)
    <3>1. IsFiniteSet(DOMAIN g)
      BY <1>5, <1>6
    <3>2. Takers(mb', s) = {x \in DOMAIN g : g[x] = s}
      BY <1>15
    <3>3. Occ(g, s) \in Nat
      BY <3>1, OccNat
    <3> QED BY <3>2, <3>3 DEF Occ
  <2>4. mbFree'[s] = mbFree[s] + Occ(MbOf(V), s) - Occ(g, s) /\ mbFree[s] \in Nat
    <3>1. mbBag[s] = mbFree[s] + Occ(MbOf(V), s) /\ mbFree[s] \in Nat
      BY <1>0 DEF Give, TypeOK, mbBag
    <3>2. mbFree'[s] = mbBag[s] - Occ(g, s)
      BY <1>2, <1>3 DEF Take
    <3> QED BY SMTT(30), <2>2, <2>3, <3>1, <3>2
  <2>5. MbUses(s) = 1 /\ Cardinality(Takers(mb, s)) = 0
    BY <1>8, NothingTaken, FS_EmptySet DEF SlotInv, SlotsExclusive
  <2>6. mbFree[s] + Occ(MbOf(Cached(entry)), s) = 1
    BY SMTT(30), <2>2, <2>4, <2>5, UsesOcc
  <2>7. MbUses(s)' = mbFree'[s] + Occ(MbOf(Cached(entry))', s) + Occ(g, s)
    BY <1>17, <2>3
  <2> QED BY SMTT(30), <2>2, <2>3, <2>4, <2>6, <2>7
<1> QED BY <1>11, <1>14, <1>18, <1>19 DEF SlotInv, SlotsExclusive

----------------------------------------------------------------------------
(* The end of a request *)

\* Tagging a set keeps its size.
LEMMA CardTagged ==
  ASSUME NEW k, NEW S, IsFiniteSet(S)
  PROVE  IsFiniteSet({k} \X S) /\ Cardinality({k} \X S) = Cardinality(S)
<1> DEFINE B == {k} \X S
           m == [x \in S |-> <<k, x>>]
<1>1. m \in [S -> B] /\ (\A x, y \in S : m[x] = m[y] => x = y) /\ (\A b \in B : \E x \in S : m[x] = b)
  BY SMTT(30)
<1> HIDE DEF B, m
<1>2. IsFiniteSet(B) /\ Cardinality(B) = Cardinality(S)
  <2>1. Pairs(m, S, B)
    BY <1>1 DEF Pairs
  <2> QED BY <2>1, CardSame
<1> QED BY <1>2 DEF B

Query(r) == {i \in Pos(r) : IsQuery(r, i)}

\* A miss is registered, is the query segment, or is a short one that is freed.
LEMMA MissKinds ==
  ASSUME IInv, Recorded, ShortReleased, NEW r \in Batch
  PROVE  /\ Cacheable(r) \cap Query(r) = {} /\ Query(r) \subseteq Miss(r)
         /\ {i \in Miss(r) : Rope \/ i = Len(prompt[r]) \/ ~IsShort(r, i)} = Cacheable(r) \cup Query(r)
         /\ Rope => {i \in Miss(r) : ~IsQuery(r, i)} = Cacheable(r) /\ EndFreed(r) = Pos(r)
         /\ ~Rope => Miss(r) = Cacheable(r) \cup EndFreed(r) /\ Cacheable(r) \cap EndFreed(r) = {}
<1>0. TypeOK /\ r \in Req
  BY DEF IInv, Batch
<1>1. Cacheable(r) \cap Query(r) = {}
  BY DEF Cacheable, Query
<1>2. Query(r) \subseteq Miss(r)
  BY <1>0 DEF Query, Miss, IsQuery, Recorded
<1>3. /\ Len(prompt[r]) \in Nat /\ prompt[r] \in Prompts \cup {NoPrompt}
      /\ Pos(r) = 1 .. Len(prompt[r])
  BY <1>0, PosFinite DEF TypeOK, Pos
<1>4. Rope => \A i \in Miss(r) : ~IsShort(r, i)
  BY DEF ShortReleased, IsShort
<1>5. ASSUME NEW i \in Miss(r), ~IsQuery(r, i), IsShort(r, i) PROVE i < Len(prompt[r])
  <2>1. i \in 1 .. Len(prompt[r])
    BY <1>3 DEF Miss
  <2>2. prompt[r] # NoPrompt
    <3>1. Len(<<>>) = 0
      BY SMTT(30)
    <3>2. Len(prompt[r]) # 0
      BY SMTT(30), <1>3, <2>1
    <3> QED BY <3>1, <3>2 DEF NoPrompt
  <2>3. CASE Len(prompt[r]) = 1
    <3>1. i = 1
      BY SMTT(30), <2>1, <2>3
    <3> QED BY <1>3, <1>5, <2>2, <2>3, <3>1 DEF ShortReleased, IsShort
  <2>4. CASE Len(prompt[r]) # 1
    <3>1. Len(prompt[r]) > 1
      <4>1. \A n \in Nat : \A j \in 1 .. n : n # 1 => n > 1
        BY SMTT(30)
      <4> QED BY <1>3, <2>1, <2>4, <4>1
    <3>2. i # Len(prompt[r])
      BY <1>5, <3>1 DEF IsQuery, Multi
    <3> QED BY SMTT(30), <1>3, <2>1, <3>2
  <2> QED BY <2>3, <2>4
<1>6. {i \in Miss(r) : Rope \/ i = Len(prompt[r]) \/ ~IsShort(r, i)} = Cacheable(r) \cup Query(r)
  <2>1. ASSUME NEW i \in Miss(r), Rope \/ i = Len(prompt[r]) \/ ~IsShort(r, i)
        PROVE  i \in Cacheable(r) \cup Query(r)
    <3>1. i \in Pos(r)
      BY DEF Miss
    <3>2. CASE IsQuery(r, i)
      BY <3>1, <3>2 DEF Query
    <3>3. CASE ~IsQuery(r, i) /\ ~IsShort(r, i)
      BY <3>3 DEF Cacheable
    <3>4. CASE ~IsQuery(r, i) /\ IsShort(r, i)
      <4>1. i < Len(prompt[r])
        BY <1>5, <3>4
      <4>2. i # Len(prompt[r])
        BY SMTT(30), <1>3, <4>1
      <4> QED BY <1>4, <2>1, <3>4, <4>2
    <3> QED BY <3>2, <3>3, <3>4
  <2>2. Cacheable(r) \cup Query(r) \subseteq {i \in Miss(r) : Rope \/ i = Len(prompt[r]) \/ ~IsShort(r, i)}
    BY <1>2 DEF Cacheable, Query, IsQuery
  <2> QED BY <2>1, <2>2
<1>7. Rope => {i \in Miss(r) : ~IsQuery(r, i)} = Cacheable(r) /\ EndFreed(r) = Pos(r)
  BY <1>4 DEF Cacheable, EndFreed
<1>8. ~Rope => Miss(r) = Cacheable(r) \cup EndFreed(r) /\ Cacheable(r) \cap EndFreed(r) = {}
  BY <1>5 DEF Cacheable, EndFreed
<1> QED BY <1>1, <1>2, <1>6, <1>7, <1>8

\* The slots of a running request: those that become entries (N), those of segments
\* that have one by now (M without N), and those that are freed.
EndParts(r, M, N) ==
  /\ N \subseteq M /\ Decs(r) = {}
  /\ DOMAIN kv[r] = ({EntryKind} \X N) \cup (({EntryKind} \X (M \ N)) \cup ({"priv"} \X EndFreed(r)))
  /\ ({EntryKind} \X N) \cap (({EntryKind} \X (M \ N)) \cup ({"priv"} \X EndFreed(r))) = {}
  /\ ({EntryKind} \X (M \ N)) \cap ({"priv"} \X EndFreed(r)) = {}
  /\ DOMAIN mb[r] = ({"seg"} \X N) \cup (({"seg"} \X (M \ N)) \cup ({PoolTag} \cup ({"seg"} \X Query(r))))
  /\ ({"seg"} \X N) \cap (({"seg"} \X (M \ N)) \cup ({PoolTag} \cup ({"seg"} \X Query(r)))) = {}
  /\ ({"seg"} \X (M \ N)) \cap ({PoolTag} \cup ({"seg"} \X Query(r))) = {}

\* There are no others, and no slot is in two of these.
LEMMA FinishParts ==
  ASSUME IInv, Recorded, ShortReleased, NEW r \in Batch, NEW M, M = Cacheable(r), NEW N, N = NewlyOwned(r, M)
  PROVE  EndParts(r, M, N)
<1> DEFINE E == EndFreed(r)
           Q == Query(r)
<1>1. N \subseteq M
  BY DEF NewlyOwned
<1>2. DOMAIN kv[r] = KVNeeds(r) /\ DOMAIN mb[r] = {PoolTag} \cup MbNeeds(r)
  BY DEF Recorded, Batch
<1>3. /\ M \cap Q = {} /\ MbNeeds(r) = {"seg"} \X (M \cup Q)
      /\ Rope => KVNeeds(r) = ({"priv"} \X E) \cup ({"pub"} \X M)
      /\ ~Rope => KVNeeds(r) = {"priv"} \X (M \cup E) /\ M \cap E = {}
  <2>1. /\ M \cap Q = {} /\ {i \in Miss(r) : Rope \/ i = Len(prompt[r]) \/ ~IsShort(r, i)} = M \cup Q
        /\ Rope => {i \in Miss(r) : ~IsQuery(r, i)} = M /\ E = Pos(r)
        /\ ~Rope => Miss(r) = M \cup E /\ M \cap E = {}
    BY MissKinds
  <2> HIDE DEF E, Q
  <2> QED BY <2>1 DEF KVNeeds, MbNeeds
<1>4. Decs(r) = {}
  BY SMTT(30), <1>2, <1>3 DEF Decs
<1> HIDE DEF E, Q
<1>5. /\ DOMAIN kv[r] = ({EntryKind} \X N) \cup (({EntryKind} \X (M \ N)) \cup ({"priv"} \X E))
      /\ ({EntryKind} \X N) \cap (({EntryKind} \X (M \ N)) \cup ({"priv"} \X E)) = {}
      /\ ({EntryKind} \X (M \ N)) \cap ({"priv"} \X E) = {}
  <2>1. CASE Rope
    <3>1. EntryKind = "pub" /\ DOMAIN kv[r] = ({"priv"} \X E) \cup ({"pub"} \X M)
      BY <1>2, <1>3, <2>1 DEF EntryKind
    <3> QED BY SMTT(30), <1>1, <3>1
  <2>2. CASE ~Rope
    <3>1. EntryKind = "priv" /\ DOMAIN kv[r] = {"priv"} \X (M \cup E) /\ M \cap E = {}
      BY <1>2, <1>3, <2>2 DEF EntryKind
    <3> QED BY SMTT(30), <1>1, <3>1
  <2> QED BY <2>1, <2>2
<1>6. /\ DOMAIN mb[r] = ({"seg"} \X N) \cup (({"seg"} \X (M \ N)) \cup ({PoolTag} \cup ({"seg"} \X Q)))
      /\ ({"seg"} \X N) \cap (({"seg"} \X (M \ N)) \cup ({PoolTag} \cup ({"seg"} \X Q))) = {}
      /\ ({"seg"} \X (M \ N)) \cap ({PoolTag} \cup ({"seg"} \X Q)) = {}
  BY SMTT(30), <1>1, <1>2, <1>3 DEF PoolTag
<1> QED BY <1>1, <1>4, <1>5, <1>6 DEF E, Q, EndParts

\* The index after cache_finished_req: one new entry per newly owned position, with
\* the slots recorded for it.
LEMMA FinishIndex ==
  ASSUME IInv, NEW r \in Batch, NEW M, M = Cacheable(r), NEW N, N = NewlyOwned(r, M),
         NEW T, T = Segs(r, N), entry' = Registered(r, M)
  PROVE  /\ Cached(entry') = Cached(entry) \cup T /\ Cached(entry) \cap T = {}
         /\ \A h \in Cached(entry) : entry'[h] = entry[h]
         /\ \A i \in N : /\ prompt[r][i] \in T
                         /\ entry'[prompt[r][i]].kv = kv[r][EntryTag(i)]
                         /\ entry'[prompt[r][i]].mb = mb[r][SegTag(i)]
         /\ \A i, j \in N : prompt[r][i] = prompt[r][j] => i = j
         /\ N \subseteq Nat /\ IsFiniteSet(N)
<1>1. /\ M \subseteq Pos(r) /\ IsFiniteSet(M) /\ Segs(r, M) \subseteq Seg
      /\ \A h \in T : /\ h \in Segs(r, M) /\ Registered(r, M)[h] # None
      /\ \A h \in Seg \ T : Registered(r, M)[h] = entry[h]
  <2>1. T = Segs(r, NewlyOwned(r, M))
    OBVIOUS
  <2>2. \A h \in Segs(r, NewlyOwned(r, M)) : h \in Segs(r, M) /\ Registered(r, M)[h] # None
    BY SMTT(30), RegisterEffect
  <2>3. \A h \in Seg \ Segs(r, NewlyOwned(r, M)) : Registered(r, M)[h] = entry[h]
    BY SMTT(30), RegisterEffect
  <2>4. M \subseteq Pos(r) /\ IsFiniteSet(M) /\ Segs(r, M) \subseteq Seg
    BY SMTT(30), RegisterEffect
  <2> QED BY <2>1, <2>2, <2>3, <2>4
<1>2. N \subseteq M /\ \A i \in N : entry[prompt[r][i]] = None
  BY DEF NewlyOwned
<1>3. N \subseteq Nat /\ IsFiniteSet(N)
  <2>1. Pos(r) \subseteq Nat
    BY PosFinite DEF IInv, Batch
  <2> QED BY <1>1, <1>2, <2>1, FS_Subset
<1>4. \A h \in T : h \in Seg /\ entry[h] = None /\ entry'[h] # None
  <2>1. \A h \in T : entry[h] = None
    BY <1>2 DEF Segs
  <2> QED BY <1>1, <2>1
<1>5. \A h \in Seg \ T : entry'[h] = entry[h]
  BY <1>1
<1>6. Cached(entry') = Cached(entry) \cup T /\ Cached(entry) \cap T = {}
  BY <1>4, <1>5 DEF Cached
<1>7. \A h \in Cached(entry) : entry'[h] = entry[h]
  BY <1>4, <1>5 DEF Cached
<1>8. \A i, j \in N : prompt[r][i] = prompt[r][j] => i = j
  <2> SUFFICES ASSUME NEW i \in N, NEW j \in N, prompt[r][i] = prompt[r][j] PROVE i = j
    OBVIOUS
  <2>1. ~(j < i) /\ ~(i < j)
    BY <1>2 DEF NewlyOwned
  <2>2. i \in Nat /\ j \in Nat
    BY <1>3
  <2> QED BY SMTT(30), <2>1, <2>2
<1>9. ASSUME NEW i \in N
      PROVE  /\ prompt[r][i] \in T
             /\ entry'[prompt[r][i]] = [kv |-> kv[r][EntryTag(i)], mb |-> mb[r][SegTag(i)]]
  <2> DEFINE h == prompt[r][i]
             c == CHOOSE j \in NewlyOwned(r, M) : prompt[r][j] = h
  <2>1. h \in T /\ h \in Seg
    BY <1>4 DEF Segs
  <2>2. c \in N /\ prompt[r][c] = h
    OBVIOUS
  <2>3. c = i
    BY <1>8, <2>2
  <2>4. entry'[h] = [kv |-> kv[r][EntryTag(c)], mb |-> mb[r][SegTag(c)]]
    BY <2>1 DEF Registered
  <2> QED BY <2>1, <2>3, <2>4
<1>10. \A i \in N : /\ prompt[r][i] \in T
                    /\ entry'[prompt[r][i]].kv = kv[r][EntryTag(i)]
                    /\ entry'[prompt[r][i]].mb = mb[r][SegTag(i)]
  <2> SUFFICES ASSUME NEW i \in N
               PROVE  /\ prompt[r][i] \in T
                      /\ entry'[prompt[r][i]].kv = kv[r][EntryTag(i)]
                      /\ entry'[prompt[r][i]].mb = mb[r][SegTag(i)]
    OBVIOUS
  <2> DEFINE e == entry'[prompt[r][i]]
  <2>1. prompt[r][i] \in T /\ e = [kv |-> kv[r][EntryTag(i)], mb |-> mb[r][SegTag(i)]]
    BY <1>9
  <2> HIDE DEF e
  <2>2. e.kv = kv[r][EntryTag(i)] /\ e.mb = mb[r][SegTag(i)]
    BY <2>1
  <2> QED BY <2>1, <2>2 DEF e
<1> QED BY <1>3, <1>6, <1>7, <1>8, <1>10

\* What the entries have of a slot then: what they had, and what the request had for
\* the segments it registers.
LEMMA FinishOcc ==
  ASSUME IInv, NEW r \in Batch, NEW M, M = Cacheable(r), NEW N, N = NewlyOwned(r, M),
         entry' = Registered(r, M), NEW s
  PROVE  /\ OccGain(KVOf(Cached(entry))', KVOf(Cached(entry)), kv[r], {EntryKind} \X N, s)
         /\ OccGain(MbOf(Cached(entry))', MbOf(Cached(entry)), mb[r], {"seg"} \X N, s)
<1> DEFINE T == Segs(r, N)
           C == Cached(entry)
<1>1. /\ Cached(entry') = C \cup T /\ C \cap T = {}
      /\ \A h \in C : entry'[h] = entry[h]
      /\ \A i \in N : /\ prompt[r][i] \in T
                      /\ entry'[prompt[r][i]].kv = kv[r][EntryTag(i)]
                      /\ entry'[prompt[r][i]].mb = mb[r][SegTag(i)]
      /\ \A i, j \in N : prompt[r][i] = prompt[r][j] => i = j
      /\ N \subseteq Nat /\ IsFiniteSet(N)
  <2> HIDE DEF C
  <2>1. T = Segs(r, N)
    OBVIOUS
  <2> HIDE DEF T
  <2> QED BY SMTT(30), <2>1, FinishIndex DEF C
<1>2. IsFiniteSet(C)
  BY CachedFinite
<1>3. \A b \in T : \E i \in N : b = prompt[r][i]
  BY DEF Segs
<1> HIDE DEF T, C
<1>4. ASSUME NEW k
      PROVE  LET A == {k} \X N  m == [x \in A |-> prompt[r][x[2]]]
             IN IsFiniteSet(A) /\ Pairs(m, A, T)
  <2> DEFINE A == {k} \X N
             m == [x \in A |-> prompt[r][x[2]]]
  <2>1. IsFiniteSet(A)
    BY <1>1, CardTagged
  <2>2. m \in [A -> T]
    BY SMTT(30), <1>1
  <2>3. \A x, y \in A : m[x] = m[y] => x = y
    BY SMTT(30), <1>1
  <2>4. ASSUME NEW b \in T PROVE \E x \in A : m[x] = b
    <3>1. PICK i \in N : b = prompt[r][i]
      BY <1>3
    <3>2. <<k, i>> \in A /\ m[<<k, i>>] = b
      BY SMTT(30), <3>1
    <3> QED BY <3>2
  <2> HIDE DEF A, m
  <2>5. Pairs(m, A, T)
    BY <2>2, <2>3, <2>4 DEF Pairs
  <2> QED BY <2>1, <2>5 DEF A, m
<1>5. OccGain(KVOf(Cached(entry))', KVOf(Cached(entry)), kv[r], {EntryKind} \X N, s)
  <2> DEFINE A == {EntryKind} \X N
             m == [x \in A |-> prompt[r][x[2]]]
             G == KVOf(Cached(entry))'
             F == KVOf(Cached(entry))
  <2>1. IsFiniteSet(A) /\ Pairs(m, A, T)
    BY <1>4
  <2>2. G = [h \in C \cup T |-> entry'[h].kv] /\ F = [h \in C |-> entry[h].kv]
    BY <1>1 DEF KVOf, C
  <2>3. DOMAIN G = C \cup T /\ F = Restrict(G, C)
    <3> HIDE DEF G, F
    <3>1. \A h \in C : G[h] = entry[h].kv
      BY <1>1, <2>2
    <3>2. Restrict(G, C) = [h \in C |-> G[h]]
      BY DEF Restrict
    <3> QED BY <2>2, <3>1, <3>2
  <2>4. ASSUME NEW x \in A PROVE G[m[x]] = kv[r][x]
    <3>1. PICK i \in N : x = EntryTag(i) /\ x[2] = i
      BY SMTT(30) DEF EntryTag
    <3>2. m[x] = prompt[r][i] /\ prompt[r][i] \in T
      BY <1>1, <3>1
    <3>3. G[prompt[r][i]] = entry'[prompt[r][i]].kv
      BY <2>2, <3>2
    <3> HIDE DEF G
    <3> QED BY <1>1, <3>1, <3>2, <3>3
  <2>5. \A x \in A : G[m[x]] = kv[r][x]
    BY <2>4
  <2> HIDE DEF A, m, G, F
  <2>6. C \cap T = {}
    BY <1>1
  <2>7. TakesOver(G, F, kv[r], A, C, T, m)
    BY <2>1, <2>3, <2>5, <2>6 DEF TakesOver
  <2>8. OccGain(G, F, kv[r], A, s)
    BY <1>2, <2>1, <2>7, OccRegister
  <2> QED BY <2>8 DEF A, G, F
<1>6. OccGain(MbOf(Cached(entry))', MbOf(Cached(entry)), mb[r], {"seg"} \X N, s)
  <2> DEFINE A == {"seg"} \X N
             m == [x \in A |-> prompt[r][x[2]]]
             G == MbOf(Cached(entry))'
             F == MbOf(Cached(entry))
  <2>1. IsFiniteSet(A) /\ Pairs(m, A, T)
    BY <1>4
  <2>2. G = [h \in C \cup T |-> entry'[h].mb] /\ F = [h \in C |-> entry[h].mb]
    BY <1>1 DEF MbOf, C
  <2>3. DOMAIN G = C \cup T /\ F = Restrict(G, C)
    <3> HIDE DEF G, F
    <3>1. \A h \in C : G[h] = entry[h].mb
      BY <1>1, <2>2
    <3>2. Restrict(G, C) = [h \in C |-> G[h]]
      BY DEF Restrict
    <3> QED BY <2>2, <3>1, <3>2
  <2>4. ASSUME NEW x \in A PROVE G[m[x]] = mb[r][x]
    <3>1. PICK i \in N : x = SegTag(i) /\ x[2] = i
      BY SMTT(30) DEF SegTag
    <3>2. m[x] = prompt[r][i] /\ prompt[r][i] \in T
      BY <1>1, <3>1
    <3>3. G[prompt[r][i]] = entry'[prompt[r][i]].mb
      BY <2>2, <3>2
    <3> HIDE DEF G
    <3> QED BY <1>1, <3>1, <3>2, <3>3
  <2>5. \A x \in A : G[m[x]] = mb[r][x]
    BY <2>4
  <2> HIDE DEF A, m, G, F
  <2>6. C \cap T = {}
    BY <1>1
  <2>7. TakesOver(G, F, mb[r], A, C, T, m)
    BY <2>1, <2>3, <2>5, <2>6 DEF TakesOver
  <2>8. OccGain(G, F, mb[r], A, s)
    BY <1>2, <2>1, <2>7, OccRegister
  <2> QED BY <2>8 DEF A, G, F
<1> QED BY <1>5, <1>6

\* The inflight counters go down by as many slots as the request has.
LEMMA FinishCount ==
  ASSUME IInv, Recorded, ShortReleased, NEW r \in Batch, NEW M, M = Cacheable(r)
  PROVE  /\ EndInflKV(r, M) = Cardinality(DOMAIN kv[r])
         /\ EndInflMb(r, M) = Cardinality(DOMAIN mb[r] \ {PoolTag})
<1> DEFINE E == EndFreed(r)
           Q == Query(r)
           N == NewlyOwned(r, M)
<1>0. TypeOK /\ r \in Req
  BY DEF IInv, Batch
<1>1. IsFiniteSet(M) /\ IsFiniteSet(E) /\ IsFiniteSet(Q) /\ IsFiniteSet(Miss(r))
  <2>1. M \subseteq Pos(r) /\ E \subseteq Pos(r) /\ Q \subseteq Pos(r) /\ Miss(r) \subseteq Pos(r)
    BY DEF Cacheable, EndFreed, Query, Miss
  <2>2. IsFiniteSet(Pos(r))
    BY <1>0, PosFinite
  <2> HIDE DEF E, Q
  <2> QED BY <2>1, <2>2, FS_Subset
<1>2. /\ DOMAIN kv[r] = ({EntryKind} \X M) \cup ({"priv"} \X E)
      /\ ({EntryKind} \X M) \cap ({"priv"} \X E) = {}
      /\ DOMAIN mb[r] \ {PoolTag} = ({"seg"} \X M) \cup ({"seg"} \X Q)
      /\ ({"seg"} \X M) \cap ({"seg"} \X Q) = {}
  <2>1. /\ N \subseteq M
        /\ DOMAIN kv[r] = ({EntryKind} \X N) \cup (({EntryKind} \X (M \ N)) \cup ({"priv"} \X E))
        /\ ({EntryKind} \X N) \cap (({EntryKind} \X (M \ N)) \cup ({"priv"} \X E)) = {}
        /\ ({EntryKind} \X (M \ N)) \cap ({"priv"} \X E) = {}
        /\ DOMAIN mb[r] = ({"seg"} \X N) \cup (({"seg"} \X (M \ N)) \cup ({PoolTag} \cup ({"seg"} \X Q)))
    <3>1. EndParts(r, M, N)
      BY FinishParts
    <3> HIDE DEF N
    <3> QED BY <3>1 DEF EndParts
  <2>2. M \cap Q = {}
    BY MissKinds
  <2> HIDE DEF E, Q, N
  <2>3. /\ \A k : {k} \X M = ({k} \X N) \cup ({k} \X (M \ N))
        /\ PoolTag \notin {"seg"} \X M /\ PoolTag \notin {"seg"} \X Q
    BY SMTT(30), <2>1 DEF PoolTag
  <2>4. ({"seg"} \X M) \cap ({"seg"} \X Q) = {}
    BY SMTT(30), <2>2
  <2>5. DOMAIN mb[r] = ({"seg"} \X M) \cup ({PoolTag} \cup ({"seg"} \X Q))
    BY <2>1, <2>3
  <2>6. DOMAIN kv[r] = ({EntryKind} \X M) \cup ({"priv"} \X E)
    BY <2>1, <2>3
  <2>7. ({EntryKind} \X M) \cap ({"priv"} \X E) = {}
    BY <2>1, <2>3
  <2>8. DOMAIN mb[r] \ {PoolTag} = ({"seg"} \X M) \cup ({"seg"} \X Q)
    BY <2>3, <2>5
  <2> QED BY <2>4, <2>6, <2>7, <2>8
<1>3. ~Transition => Cardinality(Miss(r)) = Cardinality(M) + Cardinality(E)
  <2> SUFFICES ASSUME ~Transition PROVE Cardinality(Miss(r)) = Cardinality(M) + Cardinality(E)
    OBVIOUS
  <2>1. Miss(r) = M \cup E /\ M \cap E = {}
    BY MissKinds, PolicyAssumption
  <2> HIDE DEF E
  <2> QED BY <1>1, <2>1, CardSplit
<1>4. Cardinality(Q) = IF Multi(r) THEN 1 ELSE 0
  <2>1. CASE Multi(r)
    <3>1. Len(prompt[r]) \in Nat /\ Len(prompt[r]) > 1
      BY <1>0, <2>1, PosFinite DEF Multi
    <3>2. Len(prompt[r]) \in Pos(r)
      BY SMTT(30), <3>1 DEF Pos
    <3>3. Q = {Len(prompt[r])}
      BY <2>1, <3>2 DEF Query, IsQuery
    <3> QED BY <2>1, <3>3, FS_Singleton
  <2>2. CASE ~Multi(r)
    <3>1. Q = {}
      BY <2>2 DEF Query, IsQuery
    <3> QED BY <2>2, <3>1, FS_EmptySet
  <2> QED BY <2>1, <2>2
<1> HIDE DEF E, Q, N
<1>5. /\ \A k : IsFiniteSet({k} \X M) /\ Cardinality({k} \X M) = Cardinality(M)
      /\ \A k : IsFiniteSet({k} \X E) /\ Cardinality({k} \X E) = Cardinality(E)
      /\ \A k : IsFiniteSet({k} \X Q) /\ Cardinality({k} \X Q) = Cardinality(Q)
  BY <1>1, CardTagged
<1>6. Cardinality(DOMAIN kv[r]) = Cardinality(M) + Cardinality(E)
  <2> DEFINE A == {EntryKind} \X M
             B == {"priv"} \X E
  <2>1. /\ IsFiniteSet(A) /\ IsFiniteSet(B) /\ A \cap B = {} /\ DOMAIN kv[r] = A \cup B
        /\ Cardinality(A) = Cardinality(M) /\ Cardinality(B) = Cardinality(E)
    BY <1>2, <1>5
  <2> HIDE DEF A, B
  <2>2. Cardinality(A \cup B) = Cardinality(A) + Cardinality(B)
    BY <2>1, CardSplit
  <2> QED BY <2>1, <2>2
<1>7. Cardinality(DOMAIN mb[r] \ {PoolTag}) = Cardinality(M) + Cardinality(Q)
  <2> DEFINE A == {"seg"} \X M
             B == {"seg"} \X Q
  <2>1. /\ IsFiniteSet(A) /\ IsFiniteSet(B) /\ A \cap B = {} /\ DOMAIN mb[r] \ {PoolTag} = A \cup B
        /\ Cardinality(A) = Cardinality(M) /\ Cardinality(B) = Cardinality(Q)
    BY <1>2, <1>5
  <2> HIDE DEF A, B
  <2>2. Cardinality(A \cup B) = Cardinality(A) + Cardinality(B)
    BY <2>1, CardSplit
  <2> QED BY <2>1, <2>2
<1>8. EndInflKV(r, M) = IF Transition THEN Cardinality(M) + Cardinality(E) ELSE Cardinality(Miss(r))
  BY DEF EndInflKV, E
<1>9. EndInflMb(r, M) = IF Transition THEN Cardinality(M) + (IF Multi(r) THEN 1 ELSE 0)
                                      ELSE Cardinality(DOMAIN mb[r] \ {PoolTag})
  BY DEF EndInflMb
<1> QED BY <1>3, <1>4, <1>6, <1>7, <1>8, <1>9

\* cache_finished_req and what follows it: every slot of the request goes to an entry
\* or back to its pool, once.
LEMMA SlotFinish ==
  ASSUME IInv, SlotInv, ShortReleased, NEW r \in Req, Finish(r)
  PROVE  SlotInv'
<1> DEFINE M == Cacheable(r)
           N == NewlyOwned(r, M)
           K == EntryKind
           E == EndFreed(r)
           Q == Query(r)
<1>0. TypeOK /\ Shape /\ r \in Batch /\ Recorded /\ Counted /\ SlotsExclusive
  <2>1. launched \in Seq(SUBSET Req) /\ launched # <<>> /\ r \in Head(launched)
    BY DEF IInv, TypeOK, Queue, Finish
  <2>2. 1 \in DOMAIN launched /\ r \in launched[1]
    BY SMTT(30), <2>1
  <2> QED BY <2>2 DEF IInv, Queue, SlotInv
<1>1. /\ entry' = Registered(r, M)
      /\ kvFree' = Give(Give(kvFree, DupKV(r, M)), EndKV(r))
      /\ mbFree' = Give(Give(mbFree, DupMb(r, M)), EndMb(r))
      /\ inflKV' = Sub(inflKV, EndInflKV(r, M)) /\ inflMb' = Sub(inflMb, EndInflMb(r, M))
      /\ phase' = [phase EXCEPT ![r] = "idle"] /\ prompt' = [prompt EXCEPT ![r] = NoPrompt]
      /\ hit' = [hit EXCEPT ![r] = {}]
      /\ kv' = [kv EXCEPT ![r] = NoSlots] /\ mb' = [mb EXCEPT ![r] = NoSlots]
  BY DEF Finish, Cleared
<1>2. Recorded'
  <2>1. Batch' = Batch \ {r}
    BY <1>0, <1>1 DEF TypeOK, Batch
  <2>2. \A q \in Req \ {r} : /\ prompt'[q] = prompt[q] /\ hit'[q] = hit[q]
                             /\ kv'[q] = kv[q] /\ mb'[q] = mb[q]
    BY <1>0, <1>1 DEF TypeOK
  <2>3. DOMAIN kv'[r] = {} /\ DOMAIN mb'[r] = {} /\ hit'[r] = {}
    BY <1>0, <1>1 DEF TypeOK, NoSlots
  <2>4. \A q \in Req \ {r} : KVNeeds(q)' = KVNeeds(q) /\ MbNeeds(q)' = MbNeeds(q)
    BY <2>2 DEF KVNeeds, MbNeeds, Pos, Miss, IsQuery, IsShort, Multi
  <2> QED BY <1>0, <2>1, <2>2, <2>3, <2>4 DEF Recorded
<1>3. \A s : TakenSum(kv, kv', r, s) /\ TakenSum(mb, mb', r, s)
  <2>1. /\ DOMAIN kv = Req /\ \A q \in Req : IsFiniteSet(DOMAIN kv[q])
        /\ DOMAIN mb = Req /\ \A q \in Req : IsFiniteSet(DOMAIN mb[q])
    BY <1>0 DEF TypeOK, Shape
  <2>2. kv' = [kv EXCEPT ![r] = NoSlots] /\ mb' = [mb EXCEPT ![r] = NoSlots]
    BY <1>1
  <2>3. ASSUME NEW s PROVE TakenSum(kv, kv', r, s)
    BY <2>1, <2>2, TakenSplit
  <2>4. ASSUME NEW s PROVE TakenSum(mb, mb', r, s)
    BY <2>1, <2>2, TakenSplit
  <2> QED BY <2>3, <2>4
<1>4. Counted'
  <2>1. EndInflKV(r, M) = Cardinality(DOMAIN kv[r]) /\ EndInflMb(r, M) = Cardinality(DOMAIN mb[r] \ {PoolTag})
    BY <1>0, FinishCount
  <2> HIDE DEF M
  <2> DEFINE X == {r} \X DOMAIN kv[r]
             Y == {r} \X (DOMAIN mb[r] \ {PoolTag})
             A == Taken(kv')
             B == {x \in Taken(mb') : x[2] # PoolTag}
  <2>2. /\ Taken(kv) = A \cup X /\ A \cap X = {} /\ IsFiniteSet(A)
        /\ Taken(mb) = Taken(mb') \cup ({r} \X DOMAIN mb[r]) /\ Taken(mb') \cap ({r} \X DOMAIN mb[r]) = {}
        /\ IsFiniteSet(Taken(mb'))
    BY <1>3 DEF TakenSum
  <2>3. {x \in Taken(mb) : x[2] # PoolTag} = B \cup Y /\ B \cap Y = {}
    BY SMTT(30), <2>2
  <2>4. /\ IsFiniteSet(X) /\ Cardinality(X) = Cardinality(DOMAIN kv[r])
        /\ IsFiniteSet(Y) /\ Cardinality(Y) = Cardinality(DOMAIN mb[r] \ {PoolTag})
    <3>1. IsFiniteSet(DOMAIN kv[r]) /\ IsFiniteSet(DOMAIN mb[r] \ {PoolTag})
      BY <1>0, FS_Subset DEF Shape
    <3> QED BY <3>1, CardTagged
  <2>5. IsFiniteSet(B)
    BY <2>2, FS_Subset
  <2>6. /\ inflKV = Cardinality(A \cup X) /\ inflMb = Cardinality(B \cup Y)
        /\ inflKV' = Sub(inflKV, Cardinality(X)) /\ inflMb' = Sub(inflMb, Cardinality(Y))
    BY <1>0, <1>1, <2>1, <2>2, <2>3, <2>4 DEF Counted
  <2> HIDE DEF X, Y, A, B
  <2>7. /\ Cardinality(A \cup X) = Cardinality(A) + Cardinality(X)
        /\ Cardinality(A) \in Nat /\ Cardinality(X) \in Nat
    BY <2>2, <2>4, CardSplit
  <2>8. /\ Cardinality(B \cup Y) = Cardinality(B) + Cardinality(Y)
        /\ Cardinality(B) \in Nat /\ Cardinality(Y) \in Nat
    BY <2>3, <2>4, <2>5, CardSplit
  <2>9. inflKV' = Cardinality(A)
    BY SMTT(30), <2>6, <2>7 DEF Sub
  <2>10. inflMb' = Cardinality(B)
    BY SMTT(30), <2>6, <2>8 DEF Sub
  <2> QED BY <2>9, <2>10 DEF Counted, A, B
<1>5. /\ DupKV(r, M) = Restrict(kv[r], {K} \X (M \ N)) /\ EndKV(r) = Restrict(kv[r], {"priv"} \X E)
      /\ DupMb(r, M) = Restrict(mb[r], {"seg"} \X (M \ N))
      /\ EndMb(r) = Restrict(mb[r], {PoolTag} \cup ({"seg"} \X Q))
  <2>1. Decs(r) = {}
    BY <1>0, FinishParts DEF EndParts
  <2>2. ({"priv"} \X E) \cup Decs(r) = {"priv"} \X E
    BY <2>1
  <2> QED BY <2>2 DEF DupKV, DupMb, EndKV, EndMb, Query
<1>6. ASSUME NEW s
      PROVE  /\ OccSum3(kv[r], {K} \X N, {K} \X (M \ N), {"priv"} \X E, s)
             /\ OccSum3(mb[r], {"seg"} \X N, {"seg"} \X (M \ N), {PoolTag} \cup ({"seg"} \X Q), s)
  <2> DEFINE A == {K} \X N
             B == {K} \X (M \ N)
             C == {"priv"} \X E
             F == {"seg"} \X N
             G == {"seg"} \X (M \ N)
             H == {PoolTag} \cup ({"seg"} \X Q)
  <2>1. /\ DOMAIN kv[r] = A \cup (B \cup C) /\ A \cap (B \cup C) = {} /\ B \cap C = {}
        /\ DOMAIN mb[r] = F \cup (G \cup H) /\ F \cap (G \cup H) = {} /\ G \cap H = {}
    <3>1. EndParts(r, M, N)
      BY <1>0, FinishParts
    <3> HIDE DEF M, N
    <3> QED BY <3>1 DEF EndParts
  <2>2. IsFiniteSet(DOMAIN kv[r]) /\ IsFiniteSet(DOMAIN mb[r])
    BY <1>0 DEF Shape
  <2> HIDE DEF A, B, C, F, G, H, M, N, K, E, Q
  <2>3. OccSum3(kv[r], A, B, C, s)
    BY <2>1, <2>2, OccSplit3
  <2>4. OccSum3(mb[r], F, G, H, s)
    BY <2>1, <2>2, OccSplit3
  <2> QED BY <2>3, <2>4 DEF A, B, C, F, G, H
<1>7. \A s : /\ OccGain(KVOf(Cached(entry))', KVOf(Cached(entry)), kv[r], {K} \X N, s)
             /\ OccGain(MbOf(Cached(entry))', MbOf(Cached(entry)), mb[r], {"seg"} \X N, s)
  BY <1>0, <1>1, FinishOcc
<1> HIDE DEF M, N, K, E, Q
<1>8. ASSUME NEW s \in KV PROVE Uses(s)' = 1
  <2> DEFINE a == Occ(Restrict(kv[r], {K} \X N), s)
             b == Occ(DupKV(r, M), s)
             c == Occ(EndKV(r), s)
             o == Occ(kv[r], s)
             t == Cardinality(Takers(kv', s))
             x == Occ(KVOf(Cached(entry)), s)
             y == Occ(KVOf(Cached(entry))', s)
  <2>1. o = a + b + c /\ a \in Nat /\ b \in Nat /\ c \in Nat
    BY <1>5, <1>6 DEF OccSum3
  <2>2. y = x + a /\ x \in Nat
    BY <1>7 DEF OccGain
  <2>3. Cardinality(Takers(kv, s)) = t + o /\ t \in Nat
    BY <1>3 DEF TakenSum
  <2>4. kvFree'[s] = kvFree[s] + b + c /\ kvFree[s] \in Nat
    BY <1>0, <1>1 DEF Give, TypeOK
  <2>5. kvFree[s] + x + Cardinality(Takers(kv, s)) = 1
    BY <1>0, UsesOcc DEF SlotsExclusive
  <2>6. Uses(s)' = kvFree'[s] + y + t
    BY UsesMoved
  <2> HIDE DEF a, b, c, o, t, x, y
  <2> QED BY SMTT(30), <2>1, <2>2, <2>3, <2>4, <2>5, <2>6
<1>9. ASSUME NEW s \in Mamba PROVE MbUses(s)' = 1
  <2> DEFINE a == Occ(Restrict(mb[r], {"seg"} \X N), s)
             b == Occ(DupMb(r, M), s)
             c == Occ(EndMb(r), s)
             o == Occ(mb[r], s)
             t == Cardinality(Takers(mb', s))
             x == Occ(MbOf(Cached(entry)), s)
             y == Occ(MbOf(Cached(entry))', s)
  <2>1. o = a + b + c /\ a \in Nat /\ b \in Nat /\ c \in Nat
    BY <1>5, <1>6 DEF OccSum3
  <2>2. y = x + a /\ x \in Nat
    BY <1>7 DEF OccGain
  <2>3. Cardinality(Takers(mb, s)) = t + o /\ t \in Nat
    BY <1>3 DEF TakenSum
  <2>4. mbFree'[s] = mbFree[s] + b + c /\ mbFree[s] \in Nat
    BY <1>0, <1>1 DEF Give, TypeOK
  <2>5. mbFree[s] + x + Cardinality(Takers(mb, s)) = 1
    BY <1>0, UsesOcc DEF SlotsExclusive
  <2>6. MbUses(s)' = mbFree'[s] + y + t
    BY UsesMoved
  <2> HIDE DEF a, b, c, o, t, x, y
  <2> QED BY SMTT(30), <2>1, <2>2, <2>3, <2>4, <2>5, <2>6
<1> QED BY <1>2, <1>4, <1>8, <1>9 DEF SlotInv, SlotsExclusive

----------------------------------------------------------------------------
(* All steps *)

\* Every step of the loop and every arrival, abort and flush.
LEMMA SlotStep ==
  ASSUME Depth = 1, MaxDecode = 0, ShortReleased, IInv, HitInv, SlotInv, [Next]_vars
  PROVE  SlotInv'
<1>1. TypeOK /\ Shape /\ \A r \in Req : Len(prompt[r]) \notin hit[r]
  BY DEF IInv, SlotInv, Recorded
<1>2. ASSUME UNCHANGED <<entry, poolVars, phase, prompt, hit, kv, mb>> PROVE SlotInv'
  <2>1. Batch' = Batch
    BY <1>2 DEF Batch
  <2> QED BY <1>1, <1>2, <2>1, SlotQuiet
<1>3. ASSUME NEW r \in Req, NEW p \in Prompts, Arrive(r, p) PROVE SlotInv'
  <2>1. /\ phase[r] = "idle" /\ phase' = [phase EXCEPT ![r] = "waiting"]
        /\ prompt' = [prompt EXCEPT ![r] = p]
        /\ UNCHANGED <<entry, kvFree, mbFree, inflKV, inflMb, kv, mb, hit>>
    BY <1>3 DEF Arrive
  <2>2. Batch' = Batch /\ r \notin Batch /\ hit[r] = {}
    BY <1>1, <2>1 DEF TypeOK, Shape, Batch
  <2>3. \A q \in Req \ {r} : prompt'[q] = prompt[q]
    BY <1>1, <2>1 DEF TypeOK
  <2>4. \A q \in Batch : prompt'[q] = prompt[q] /\ hit'[q] = hit[q]
    BY <2>1, <2>2, <2>3 DEF Batch
  <2>5. \A q \in Req : Len(prompt'[q]) \notin hit'[q]
    BY <1>1, <2>1, <2>2, <2>3
  <2> QED BY <2>1, <2>2, <2>4, <2>5, SlotQuiet
<1>4. ASSUME NEW r \in Req, AbortWaiting(r) PROVE SlotInv'
  <2>1. /\ phase[r] = "waiting" /\ phase' = [phase EXCEPT ![r] = "idle"]
        /\ prompt' = [prompt EXCEPT ![r] = NoPrompt]
        /\ UNCHANGED <<entry, kvFree, mbFree, inflKV, inflMb, kv, mb, hit>>
    BY <1>4 DEF AbortWaiting
  <2>2. Batch' = Batch /\ r \notin Batch /\ hit[r] = {}
    BY <1>1, <2>1 DEF TypeOK, Shape, Batch
  <2>3. \A q \in Req \ {r} : prompt'[q] = prompt[q]
    BY <1>1, <2>1 DEF TypeOK
  <2>4. \A q \in Batch : prompt'[q] = prompt[q] /\ hit'[q] = hit[q]
    BY <2>1, <2>2, <2>3 DEF Batch
  <2>5. \A q \in Req : Len(prompt'[q]) \notin hit'[q]
    BY <1>1, <2>1, <2>2, <2>3
  <2> QED BY <2>1, <2>2, <2>4, <2>5, SlotQuiet
<1>5. ASSUME NEW r \in Req, Admit(r) PROVE SlotInv'
  <2>1. /\ phase[r] = "waiting" /\ phase' = [phase EXCEPT ![r] = "admitted"]
        /\ hit' = [hit EXCEPT ![r] = Matched(prompt[r])]
        /\ UNCHANGED <<entry, kvFree, mbFree, inflKV, inflMb, kv, mb, prompt>>
    BY <1>5 DEF Admit
  <2>2. Batch' = Batch /\ r \notin Batch
    BY <1>1, <2>1 DEF TypeOK, Batch
  <2>3. hit'[r] = Matched(prompt[r]) /\ \A q \in Req \ {r} : hit'[q] = hit[q]
    BY <1>1, <2>1 DEF TypeOK
  <2>4. Len(prompt[r]) \notin Matched(prompt[r])
    <3>1. Len(prompt[r]) \in Nat
      BY <1>1, PosFinite
    <3>2. \A n \in Nat : n \notin 1 .. n - 1
      BY SMTT(30)
    <3> QED BY <3>1, <3>2 DEF Matched
  <2>5. \A q \in Batch : prompt'[q] = prompt[q] /\ hit'[q] = hit[q]
    BY <2>1, <2>2, <2>3 DEF Batch
  <2>6. \A q \in Req : Len(prompt'[q]) \notin hit'[q]
    BY <1>1, <2>1, <2>3, <2>4
  <2> QED BY <2>1, <2>2, <2>5, <2>6, SlotQuiet
<1>6. ASSUME DecodeStep \/ \E r \in Req : Retract(r) PROVE FALSE
  <2>1. Batch # {} /\ loop \in {"form", "full", "retract"}
    BY <1>6 DEF DecodeStep, Retract, DecodeTurn
  <2> QED BY <2>1 DEF HitInv, OneBatch
<1>7. ASSUME NEW r \in Req, PrefillContinue(r) \/ DecodeContinue(r) PROVE FALSE
  BY <1>7, NoContinue DEF PrefillContinue, DecodeContinue
<1>8. ASSUME LaunchFails \/ NoBatch \/ EndBatch \/ UNCHANGED vars \/ \E r \in Req : Reject(r) PROVE SlotInv'
  <2>1. UNCHANGED <<entry, poolVars, phase, prompt, hit, kv, mb>>
    BY <1>8 DEF LaunchFails, NoBatch, EndBatch, Reject, vars
  <2> QED BY <1>2, <2>1
<1>9. ASSUME NEW r \in Req, Finish(r) PROVE SlotInv'
  BY <1>9, SlotFinish
<1> QED
  BY ZenonT(30), <1>3, <1>4, <1>5, <1>6, <1>7, <1>8, <1>9, SlotFlush, SlotLaunch DEF Next, LoopStep

\* The invariant holds in all behaviours of the loop without overlap and decode.
LEMMA SlotsInductive ==
  ASSUME Depth = 1, MaxDecode = 0, ShortReleased
  PROVE  Spec => [](IInv /\ SlotInv)
<1>1. IInv /\ HitInv /\ [Next]_vars => HitInv'
  BY HitStep
<1>2. IInv /\ HitInv /\ SlotInv /\ [Next]_vars => SlotInv'
  BY SlotStep
<1> QED BY <1>1, <1>2, HitInit, SlotInit, Inductive, PTL DEF Spec

\* In event_loop_normal, with requests that end at their prefill, each slot of either
\* pool has one user at all times: the free list, one cache entry, or one request.
\* cache_unfinished_req and cache_finished_req never free a slot that an entry or a
\* request still has, and none is lost, whatever is cached, missed or sent twice.
THEOREM OneUserPerSlot ==
  ASSUME Depth = 1, MaxDecode = 0, ShortReleased
  PROVE  Spec => []SlotsExclusive
<1>1. IInv /\ SlotInv => SlotsExclusive
  BY DEF SlotInv
<1> QED BY <1>1, SlotsInductive, PTL

\* On an idle engine both inflight counters are back at 0 (the "Slot lifecycle" of
\* _check_pic_memory): the max(0, ...) of the decrements never hides a difference.
THEOREM NothingInflight ==
  ASSUME Depth = 1, MaxDecode = 0, ShortReleased
  PROVE  Spec => []IdleNothingInflight
<1>1. IInv /\ SlotInv => IdleNothingInflight
  <2> SUFFICES ASSUME SlotInv, Idle PROVE inflKV = 0 /\ inflMb = 0
    BY DEF IdleNothingInflight
  <2>1. Batch = {}
    BY DEF Idle, Batch
  <2>2. Taken(kv) = {} /\ Taken(mb) = {}
    BY <2>1, NothingTaken DEF SlotInv, Recorded
  <2>3. {x \in Taken(mb) : x[2] # PoolTag} = {}
    BY <2>2
  <2> QED BY <2>2, <2>3, FS_EmptySet DEF SlotInv, Counted
<1> QED BY <1>1, SlotsInductive, PTL

----------------------------------------------------------------------------
(* The balance *)

\* A slot that occurs once has one tag.
LEMMA OccOnce ==
  ASSUME NEW f, NEW s, IsFiniteSet(DOMAIN f)
  PROVE  /\ Occ(f, s) \in Nat /\ (Occ(f, s) = 0 <=> \A x \in DOMAIN f : f[x] # s)
         /\ Occ(f, s) = 1 => \A x, y \in DOMAIN f : f[x] = s /\ f[y] = s => x = y
<1> DEFINE X == {t \in DOMAIN f : f[t] = s}
<1>1. IsFiniteSet(X) /\ Occ(f, s) = Cardinality(X)
  BY FS_Subset DEF Occ
<1>2. Cardinality(X) \in Nat /\ (Cardinality(X) = 0 <=> X = {})
  <2> HIDE DEF X
  <2> QED BY <1>1, FS_EmptySet, FS_CardinalityType
<1>3. Cardinality(X) = 1 => \E z : X = {z}
  <2> HIDE DEF X
  <2> QED BY <1>1, FS_Singleton
<1>4. X = {} <=> \A x \in DOMAIN f : f[x] # s
  OBVIOUS
<1>5. ASSUME NEW z, X = {z}, NEW x \in DOMAIN f, NEW y \in DOMAIN f, f[x] = s, f[y] = s PROVE x = y
  <2>1. x \in X /\ y \in X
    BY <1>5
  <2> HIDE DEF X
  <2> QED BY <1>5, <2>1
<1> HIDE DEF X
<1> QED BY <1>1, <1>2, <1>3, <1>4, <1>5

\* The users of a pool add up to it.
PoolTotal(S, free, f, g) ==
  /\ Avail(free) + Cardinality(DOMAIN f) + Cardinality(DOMAIN g) = Cardinality(S)
  /\ Avail(free) \in Nat

\* That is so when each slot has one.
LEMMA UsersTotal ==
  ASSUME NEW S, NEW free, NEW f, NEW g, IsFiniteSet(S), free \in [S -> Nat],
         IsFiniteSet(DOMAIN f), IsFiniteSet(DOMAIN g),
         \A x \in DOMAIN f : f[x] \in S, \A x \in DOMAIN g : g[x] \in S,
         \A s \in S : free[s] + Occ(f, s) + Occ(g, s) = 1
  PROVE  PoolTotal(S, free, f, g)
<1> DEFINE A == {s \in S : free[s] = 1}
           B == {s \in S : \E x \in DOMAIN f : f[x] = s}
           C == {s \in S : \E x \in DOMAIN g : g[x] = s}
<1>1. ASSUME NEW s \in S
      PROVE  \/ free[s] = 1 /\ Occ(f, s) = 0 /\ Occ(g, s) = 0
             \/ free[s] = 0 /\ Occ(f, s) = 1 /\ Occ(g, s) = 0
             \/ free[s] = 0 /\ Occ(f, s) = 0 /\ Occ(g, s) = 1
  <2>1. free[s] \in Nat /\ Occ(f, s) \in Nat /\ Occ(g, s) \in Nat
    BY OccOnce
  <2>2. free[s] + Occ(f, s) + Occ(g, s) = 1
    OBVIOUS
  <2> QED BY SMTT(30), <2>1, <2>2
<1>2. \A s \in S : (s \in B <=> Occ(f, s) # 0) /\ (s \in C <=> Occ(g, s) # 0)
  BY OccOnce
<1>3. \A s \in S : (s \in A <=> free[s] = 1)
  OBVIOUS
<1>4. S = A \cup (B \cup C) /\ A \cap (B \cup C) = {} /\ B \cap C = {}
  <2>1. A \subseteq S /\ B \subseteq S /\ C \subseteq S
    OBVIOUS
  <2>2. 0 # 1
    BY SMTT(30)
  <2> HIDE DEF A, B, C
  <2>3. \A s \in S : \/ s \in A /\ s \notin B /\ s \notin C
                     \/ s \notin A /\ s \in B /\ s \notin C
                     \/ s \notin A /\ s \notin B /\ s \in C
    <3> SUFFICES ASSUME NEW s \in S
                 PROVE  \/ s \in A /\ s \notin B /\ s \notin C
                        \/ s \notin A /\ s \in B /\ s \notin C
                        \/ s \notin A /\ s \notin B /\ s \in C
      OBVIOUS
    <3>1. (s \in A <=> free[s] = 1) /\ (s \in B <=> Occ(f, s) # 0) /\ (s \in C <=> Occ(g, s) # 0)
      BY <1>2, <1>3
    <3>2. CASE free[s] = 1 /\ Occ(f, s) = 0 /\ Occ(g, s) = 0
      BY <3>1, <3>2
    <3>3. CASE free[s] = 0 /\ Occ(f, s) = 1 /\ Occ(g, s) = 0
      BY <2>2, <3>1, <3>3
    <3>4. CASE free[s] = 0 /\ Occ(f, s) = 0 /\ Occ(g, s) = 1
      BY <2>2, <3>1, <3>4
    <3> QED BY <1>1, <3>2, <3>3, <3>4
  <2> QED BY <2>1, <2>3
<1>5. Cardinality(B) = Cardinality(DOMAIN f) /\ IsFiniteSet(B)
  <2> DEFINE D == DOMAIN f
             m == [x \in D |-> f[x]]
  <2>1. m \in [D -> B] /\ \A b \in B : \E x \in D : m[x] = b
    OBVIOUS
  <2>2. \A x, y \in D : m[x] = m[y] => x = y
    <3> SUFFICES ASSUME NEW x \in D, NEW y \in D, f[x] = f[y] PROVE x = y
      OBVIOUS
    <3>1. f[x] \in B /\ f[x] \in S
      OBVIOUS
    <3>2. Occ(f, f[x]) = 1
      BY <1>1, <1>2, <3>1
    <3> QED BY <3>2, OccOnce
  <2> HIDE DEF B, m, D
  <2>3. Pairs(m, D, B)
    BY <2>1, <2>2 DEF Pairs
  <2>4. IsFiniteSet(D)
    BY DEF D
  <2> QED BY <2>3, <2>4, CardSame DEF D
<1>6. Cardinality(C) = Cardinality(DOMAIN g) /\ IsFiniteSet(C)
  <2> DEFINE D == DOMAIN g
             m == [x \in D |-> g[x]]
  <2>1. m \in [D -> C] /\ \A b \in C : \E x \in D : m[x] = b
    OBVIOUS
  <2>2. \A x, y \in D : m[x] = m[y] => x = y
    <3> SUFFICES ASSUME NEW x \in D, NEW y \in D, g[x] = g[y] PROVE x = y
      OBVIOUS
    <3>1. g[x] \in C /\ g[x] \in S
      OBVIOUS
    <3>2. Occ(g, g[x]) = 1
      BY <1>1, <1>2, <3>1
    <3> QED BY <3>2, OccOnce
  <2> HIDE DEF C, m, D
  <2>3. Pairs(m, D, C)
    BY <2>1, <2>2 DEF Pairs
  <2>4. IsFiniteSet(D)
    BY DEF D
  <2> QED BY <2>3, <2>4, CardSame DEF D
<1>7. Avail(free) = Cardinality(A) /\ IsFiniteSet(A)
  <2> DEFINE U == UNION {{s} \X (1 .. free[s]) : s \in DOMAIN free}
             m == [s \in A |-> <<s, 1>>]
  <2>1. IsFiniteSet(A)
    BY FS_Subset
  <2>2. ASSUME NEW s \in A PROVE <<s, 1>> \in U
    <3>1. 1 \in 1 .. free[s] /\ s \in DOMAIN free
      <4>1. 1 \in 1 .. 1
        BY SMTT(30)
      <4> QED BY <4>1
    <3>2. <<s, 1>> \in {s} \X (1 .. free[s])
      BY SMTT(30), <3>1
    <3> QED BY <3>1, <3>2
  <2>3. ASSUME NEW u \in U PROVE \E s \in A : u = <<s, 1>>
    <3>1. PICK s \in S : u \in {s} \X (1 .. free[s])
      OBVIOUS
    <3>2. u = <<s, u[2]>> /\ u[2] \in 1 .. free[s]
      BY SMTT(30), <3>1
    <3>3. free[s] \in {0, 1}
      BY <1>1
    <3>4. free[s] = 1 /\ u[2] = 1
      BY SMTT(30), <3>2, <3>3
    <3> QED BY <3>2, <3>4
  <2>4. m \in [A -> U] /\ (\A x, y \in A : m[x] = m[y] => x = y) /\ (\A b \in U : \E x \in A : m[x] = b)
    <3> HIDE DEF A, U
    <3> QED BY SMTT(30), <2>2, <2>3
  <2>5. Cardinality(U) = Cardinality(A)
    <3> HIDE DEF A, U, m
    <3>1. Pairs(m, A, U)
      BY <2>4 DEF Pairs
    <3> QED BY <2>1, <3>1, CardSame
  <2> QED BY <2>1, <2>5 DEF Avail
<1> HIDE DEF A, B, C
<1>8. /\ Cardinality(B \cup C) = Cardinality(B) + Cardinality(C) /\ IsFiniteSet(B \cup C)
      /\ Cardinality(B) \in Nat /\ Cardinality(C) \in Nat
  BY <1>4, <1>5, <1>6, CardSplit
<1>9. /\ Cardinality(A \cup (B \cup C)) = Cardinality(A) + Cardinality(B \cup C)
      /\ Cardinality(A) \in Nat
  <2> DEFINE D == B \cup C
  <2>1. IsFiniteSet(D) /\ A \cap D = {}
    BY <1>4, <1>8
  <2> HIDE DEF D
  <2>2. Cardinality(A \cup D) = Cardinality(A) + Cardinality(D) /\ Cardinality(A) \in Nat
    BY <1>7, <2>1, CardSplit
  <2> QED BY <2>2 DEF D
<1>10. Cardinality(S) = Cardinality(A) + (Cardinality(B) + Cardinality(C))
  BY <1>4, <1>8, <1>9
<1>11. Avail(free) + Cardinality(B) + Cardinality(C) = Cardinality(S)
  BY SMTT(30), <1>7, <1>8, <1>9, <1>10
<1> QED BY <1>5, <1>6, <1>7, <1>9, <1>11 DEF PoolTotal

\* The balance of _check_pic_memory in any state where each slot has one user and the
\* counters count the slots of requests.
LEMMA BalanceHolds == IInv /\ SlotInv => MemoryBalance
<1> SUFFICES ASSUME IInv, SlotInv PROVE MemoryBalance
  OBVIOUS
<1> DEFINE C == Cached(entry)
           F == KVOf(C)
           G == MbOf(C)
           f == [x \in Taken(kv) |-> kv[x[1]][x[2]]]
           g == [x \in Taken(mb) |-> mb[x[1]][x[2]]]
           P == {r \in Req : PoolTag \in DOMAIN mb[r]}
<1>0. TypeOK /\ Shape /\ Counted /\ SlotsExclusive
  BY DEF IInv, SlotInv
<1>1. DOMAIN F = C /\ DOMAIN G = C /\ IsFiniteSet(C)
  BY CachedFinite DEF KVOf, MbOf
<1>2. \A h \in C : F[h] \in KV /\ G[h] \in Mamba
  <2> SUFFICES ASSUME NEW h \in C PROVE entry[h].kv \in KV /\ entry[h].mb \in Mamba
    BY DEF KVOf, MbOf
  <2>1. entry[h] \in [kv : KV, mb : Mamba]
    BY <1>0 DEF TypeOK, Cached
  <2> QED BY SMTT(30), <2>1
<1>3. IsFiniteSet(Taken(kv)) /\ IsFiniteSet(Taken(mb))
  <2>1. \A q \in Req : IsFiniteSet(DOMAIN kv[q]) /\ IsFiniteSet(DOMAIN mb[q])
    BY <1>0 DEF Shape
  <2> QED BY <2>1, TakenFinite
<1>4. /\ \A x \in Taken(kv) : kv[x[1]][x[2]] \in KV
      /\ \A x \in Taken(mb) : mb[x[1]][x[2]] \in Mamba
  <2>1. ASSUME NEW x \in Taken(kv) PROVE kv[x[1]][x[2]] \in KV
    <3>1. PICK r \in Req : x \in {r} \X DOMAIN kv[r]
      BY DEF Taken
    <3>2. x[1] = r /\ x[2] \in DOMAIN kv[r]
      BY SMTT(30), <3>1
    <3> QED BY <1>0, <3>2 DEF TypeOK
  <2>2. ASSUME NEW x \in Taken(mb) PROVE mb[x[1]][x[2]] \in Mamba
    <3>1. PICK r \in Req : x \in {r} \X DOMAIN mb[r]
      BY DEF Taken
    <3>2. x[1] = r /\ x[2] \in DOMAIN mb[r]
      BY SMTT(30), <3>1
    <3> QED BY <1>0, <3>2 DEF TypeOK
  <2> QED BY <2>1, <2>2
<1>5. \A s : Cardinality(Takers(kv, s)) = Occ(f, s) /\ Cardinality(Takers(mb, s)) = Occ(g, s)
  <2>1. ASSUME NEW s PROVE Takers(kv, s) = {x \in DOMAIN f : f[x] = s}
    BY DEF Takers
  <2>2. ASSUME NEW s PROVE Takers(mb, s) = {x \in DOMAIN g : g[x] = s}
    BY DEF Takers
  <2> HIDE DEF f, g
  <2> QED BY <2>1, <2>2 DEF Occ
<1>6. PoolTotal(KV, kvFree, F, f)
  <2>1. \A s \in KV : kvFree[s] + Occ(F, s) + Occ(f, s) = 1
    BY <1>0, <1>5, UsesOcc DEF SlotsExclusive
  <2>2. /\ IsFiniteSet(DOMAIN F) /\ (\A h \in DOMAIN F : F[h] \in KV)
        /\ IsFiniteSet(DOMAIN f) /\ (\A x \in DOMAIN f : f[x] \in KV)
        /\ IsFiniteSet(KV) /\ kvFree \in [KV -> Nat]
    BY <1>0, <1>1, <1>2, <1>3, <1>4, SegAssumption DEF TypeOK
  <2> HIDE DEF F, f
  <2> QED BY <2>1, <2>2, UsersTotal
<1>7. PoolTotal(Mamba, mbFree, G, g)
  <2>1. \A s \in Mamba : mbFree[s] + Occ(G, s) + Occ(g, s) = 1
    BY <1>0, <1>5, UsesOcc DEF SlotsExclusive
  <2>2. /\ IsFiniteSet(DOMAIN G) /\ (\A h \in DOMAIN G : G[h] \in Mamba)
        /\ IsFiniteSet(DOMAIN g) /\ (\A x \in DOMAIN g : g[x] \in Mamba)
        /\ IsFiniteSet(Mamba) /\ mbFree \in [Mamba -> Nat]
    BY <1>0, <1>1, <1>2, <1>3, <1>4, SegAssumption DEF TypeOK
  <2> HIDE DEF G, g
  <2> QED BY <2>1, <2>2, UsersTotal
<1>8. Cardinality(Taken(mb)) = inflMb + Cardinality(P) /\ inflMb \in Nat /\ Cardinality(P) \in Nat
  <2> DEFINE X == {x \in Taken(mb) : x[2] # PoolTag}
             Y == {x \in Taken(mb) : x[2] = PoolTag}
             m == [r \in P |-> <<r, PoolTag>>]
  <2>1. Taken(mb) = X \cup Y /\ X \cap Y = {} /\ IsFiniteSet(X) /\ IsFiniteSet(Y)
    BY <1>3, FS_Subset
  <2>2. IsFiniteSet(P)
    BY SegAssumption, FS_Subset
  <2>3. m \in [P -> Y] /\ (\A x, y \in P : m[x] = m[y] => x = y) /\ (\A b \in Y : \E x \in P : m[x] = b)
    BY SMTT(30) DEF Taken
  <2>4. inflMb = Cardinality(X)
    BY <1>0 DEF Counted
  <2> HIDE DEF X, Y, m, P
  <2>5. Cardinality(Y) = Cardinality(P)
    <3>1. Pairs(m, P, Y)
      BY <2>3 DEF Pairs
    <3> QED BY <2>2, <3>1, CardSame
  <2>6. Cardinality(X \cup Y) = Cardinality(X) + Cardinality(Y) /\ Cardinality(X) \in Nat /\ Cardinality(Y) \in Nat
    BY <2>1, CardSplit
  <2> QED BY <2>1, <2>4, <2>5, <2>6
<1>9. DOMAIN f = Taken(kv) /\ DOMAIN g = Taken(mb) /\ inflKV = Cardinality(Taken(kv))
  BY <1>0 DEF Counted
<1> HIDE DEF C, F, G, f, g, P
<1>10. Avail(kvFree) + Cardinality(C) + inflKV = Cardinality(KV)
  BY <1>1, <1>6, <1>9 DEF PoolTotal
<1>11. Avail(mbFree) + Cardinality(C) + (inflMb + Cardinality(P)) = Cardinality(Mamba)
  BY <1>1, <1>7, <1>8, <1>9 DEF PoolTotal
<1>12. Avail(mbFree) + Cardinality(C) + inflMb + Cardinality(P) = Cardinality(Mamba)
  <2>1. Avail(mbFree) \in Nat /\ Cardinality(C) \in Nat
    BY <1>1, <1>7, FS_CardinalityType DEF PoolTotal
  <2> QED BY SMTT(30), <1>8, <1>11, <2>1
<1> QED BY <1>10, <1>12 DEF MemoryBalance, C, P

\* _check_pic_memory never fails in that loop: the free slots, the slots of entries and
\* the inflight counters add up to both pools at all times.
THEOREM BalanceAlways ==
  ASSUME Depth = 1, MaxDecode = 0, ShortReleased
  PROVE  Spec => []MemoryBalance
BY BalanceHolds, SlotsInductive, PTL
=============================================================================
