---------------------------- MODULE ScatterTypes ----------------------------
(***************************************************************************)
(* The types of Scatter under all faults, for every topology, pool size    *)
(* and composition mode; the facts about its operators that all proofs     *)
(* about it share.                                                         *)
(***************************************************************************)
EXTENDS Scatter, FiniteSetTheorems, WellFoundedInduction, TLAPS

\* Leaves are given to Zenon; those that need arithmetic or nested function updates name SMT.
USE ZenonT(40) DEF cacheVars, reqVars, xferVars, envVars

-----------------------------------------------------------------------------
(* What the operators return *)

\* The forwards hold slots of the pool; a sub-request in a forward has one for
\* its segment.
Held ==
  /\ \A r \in Key \cup Comb : slots[r] \in [DOMAIN slots[r] -> Slot]
  /\ \A k \in Key : sub[k] = "running" => <<"public", SegOf(k)>> \in DOMAIN slots[k]

TypeInv == TypeOK /\ Held

\* A key names a segment, an engine that computes it and one that combines it.
LEMMA KeyType ==
  ASSUME NEW k \in Key
  PROVE  /\ k[1] \in Comb /\ SegOf(k) \in Seg /\ Worker[k] \in Eng /\ HomeOf(k) \in Eng
         /\ k[2] \in DOMAIN Prompt[k[1]] /\ k \notin Comb /\ k = <<k[1], k[2]>>
         /\ SegOf(k) \in Gated(k[1])
<1>1. PICK c \in Comb : k \in {c} \X DOMAIN Prompt[c]
  BY DEF Key
<1>2. k[1] = c /\ k[2] \in DOMAIN Prompt[c] /\ k = <<k[1], k[2]>>
  BY SMTT(30), <1>1
<1>3. Prompt[c] \in Seq(Seg)
  BY ScatterAssumption
<1>4. Prompt[c][k[2]] \in Seg
  BY SMTT(30), <1>2, <1>3
<1>5. Worker[k] \in Eng /\ Home[c] \in Eng /\ k \notin Comb
  BY ScatterAssumption
<1> QED BY <1>1, <1>2, <1>4, <1>5 DEF SegOf, HomeOf, Gated, Range

\* The image of a finite set under a function is finite.
LEMMA FiniteImage ==
  ASSUME NEW S, IsFiniteSet(S), NEW f, DOMAIN f = S
  PROVE  IsFiniteSet({f[x] : x \in S})
<1> DEFINE T == {f[x] : x \in S}
           g == [x \in S |-> f[x]]
<1>1. g \in Surjection(S, T)
  BY DEF Surjection
<1> QED BY <1>1, FS_Surjection

\* There are finitely many keys.
LEMMA KeyFinite == IsFiniteSet(Key)
<1> DEFINE f == [c \in Comb |-> {c} \X DOMAIN Prompt[c]]
<1>1. \A c \in Comb : IsFiniteSet(f[c])
  <2> SUFFICES ASSUME NEW c \in Comb PROVE IsFiniteSet({c} \X DOMAIN Prompt[c])
    OBVIOUS
  <2>1. Prompt[c] \in Seq(Seg)
    BY ScatterAssumption
  <2>2. Len(Prompt[c]) \in Nat /\ DOMAIN Prompt[c] = 1 .. Len(Prompt[c])
    BY SMTT(30), <2>1
  <2>3. IsFiniteSet(DOMAIN Prompt[c])
    BY SMTT(30), <2>2, FS_Interval
  <2>4. IsFiniteSet({c})
    BY FS_Singleton
  <2> QED BY <2>3, <2>4, FS_Product
<1>2. IsFiniteSet({f[c] : c \in Comb})
  <2>1. DOMAIN f = Comb
    OBVIOUS
  <2> HIDE DEF f
  <2> QED BY SMTT(30), <2>1, FiniteImage, ScatterAssumption
<1> DEFINE F == {f[c] : c \in Comb}
<1>3. \A T \in F : IsFiniteSet(T)
  BY <1>1
<1>4. Key = UNION F
  BY DEF Key
<1> HIDE DEF f, F
<1> QED BY <1>2, <1>3, <1>4, FS_UNION DEF F

\* A request needs finitely many slots.
LEMMA NeedsFinite ==
  ASSUME NEW r \in Key \cup Comb
  PROVE  IsFiniteSet(Needs(r))
<1>1. \A N \in SUBSET Seg : IsFiniteSet(Public(N)) /\ IsFiniteSet(Private(N))
  <2> SUFFICES ASSUME NEW N \in SUBSET Seg PROVE IsFiniteSet(Public(N)) /\ IsFiniteSet(Private(N))
    OBVIOUS
  <2>1. IsFiniteSet(N)
    BY ScatterAssumption, FS_Subset
  <2>2. IsFiniteSet({"public"}) /\ IsFiniteSet({"private"}) /\ IsFiniteSet({})
    BY FS_Singleton, FS_EmptySet
  <2> QED BY <2>1, <2>2, FS_Product DEF Public, Private
<1>2. CASE r \in Comb
  <2>1. Gated(r) \subseteq Seg
    <3>1. Prompt[r] \in Seq(Seg)
      BY <1>2, ScatterAssumption
    <3> QED BY SMTT(30), <3>1 DEF Gated, Range
  <2>2. Gated(r) \ Hits(r) \subseteq Seg
    BY <2>1
  <2>3. /\ IsFiniteSet(Public(Gated(r) \ Hits(r))) /\ IsFiniteSet(Private(Gated(r)))
        /\ IsFiniteSet({Query})
    BY <1>1, <2>1, <2>2, FS_Singleton
  <2> QED BY <1>2, <2>3, FS_Union DEF Needs
<1>3. CASE r \notin Comb
  <2>1. {SegOf(r)} \in SUBSET Seg
    BY <1>3, KeyType
  <2>2. IsFiniteSet(Public({SegOf(r)})) /\ IsFiniteSet(Private({SegOf(r)}))
    BY <1>1, <2>1
  <2> QED BY <1>3, <2>2, FS_Union DEF Needs
<1> QED BY <1>2, <1>3

\* So does a batch.
LEMMA BatchNeedsFinite ==
  ASSUME NEW R \in SUBSET (Key \cup Comb)
  PROVE  IsFiniteSet(BatchNeeds(R))
<1> DEFINE f == [r \in R |-> {r} \X Needs(r)]
<1>1. IsFiniteSet(R)
  <2>1. IsFiniteSet(Key \cup Comb)
    BY KeyFinite, FS_Union, ScatterAssumption
  <2> QED BY <2>1, FS_Subset
<1>2. \A r \in R : IsFiniteSet(f[r])
  BY NeedsFinite, FS_Singleton, FS_Product
<1>3. IsFiniteSet({f[r] : r \in R})
  <2>1. DOMAIN f = R
    OBVIOUS
  <2> HIDE DEF f
  <2> QED BY <1>1, <2>1, FiniteImage
<1> DEFINE F == {f[r] : r \in R}
<1>4. \A T \in F : IsFiniteSet(T)
  BY <1>2
<1>5. BatchNeeds(R) = UNION F
  BY DEF BatchNeeds
<1> HIDE DEF f, F
<1> QED BY <1>3, <1>4, <1>5, FS_UNION DEF F

\* A pool that is large enough can be given out: each need gets a slot of its own.
LEMMA GivenExists ==
  ASSUME NEW N, NEW P, IsFiniteSet(N), IsFiniteSet(P), Cardinality(N) <= Cardinality(P)
  PROVE  /\ Given(P, N) \in [N -> P]
         /\ \A a, b \in N : Given(P, N)[a] = Given(P, N)[b] => a = b
<1> DEFINE n == Cardinality(N)
           p == Cardinality(P)
<1>1. n \in Nat /\ p \in Nat /\ n <= p
  BY FS_CardinalityType
<1>2. PICK f : f \in Bijection(1 .. n, N)
  BY FS_CardinalityType DEF ExistsBijection
<1>3. PICK g : g \in Bijection(1 .. p, P)
  BY FS_CardinalityType DEF ExistsBijection
<1>4. /\ f \in [1 .. n -> N] /\ \A x \in N : \E i \in 1 .. n : f[i] = x
      /\ g \in [1 .. p -> P] /\ \A i, j \in 1 .. p : g[i] = g[j] => i = j
  BY <1>2, <1>3 DEF Bijection, Injection, Surjection, IsInjective
<1> DEFINE pos(x) == CHOOSE i \in 1 .. n : f[i] = x
           u == [x \in N |-> g[pos(x)]]
<1>5. \A x \in N : pos(x) \in 1 .. n /\ f[pos(x)] = x /\ pos(x) \in 1 .. p
  <2> SUFFICES ASSUME NEW x \in N PROVE pos(x) \in 1 .. n /\ f[pos(x)] = x
    BY SMTT(30), <1>1
  <2> QED BY <1>4
<1>6. u \in [N -> P]
  BY <1>4, <1>5
<1>7. \A a, b \in N : u[a] = u[b] => a = b
  <2> SUFFICES ASSUME NEW a \in N, NEW b \in N, g[pos(a)] = g[pos(b)] PROVE a = b
    BY SMTT(30)
  <2>1. pos(a) = pos(b)
    BY <1>4, <1>5
  <2> QED BY <1>5, <2>1
<1> HIDE DEF u
<1>8. \E v \in [N -> P] : IsInjective(v)
  BY <1>6, <1>7 DEF IsInjective
<1>9. Given(P, N) \in [N -> P] /\ IsInjective(Given(P, N))
  BY <1>8 DEF Given
<1> QED BY <1>9 DEF IsInjective

\* The largest of zero and an integer.
LEMMA MaxZero ==
  ASSUME NEW x \in Int
  PROVE  Max({0, x}) = IF x > 0 THEN x ELSE 0
<1>1. CASE x > 0
  <2>1. x \in {0, x} /\ \A y \in {0, x} : x >= y
    BY SMTT(30), <1>1
  <2>2. \A z \in {0, x} : (\A y \in {0, x} : z >= y) => z = x
    BY SMTT(30), <1>1
  <2> QED BY <1>1, <2>1, <2>2 DEF Max
<1>2. CASE ~(x > 0)
  <2>1. 0 \in {0, x} /\ \A y \in {0, x} : 0 >= y
    BY SMTT(30), <1>2
  <2>2. \A z \in {0, x} : (\A y \in {0, x} : z >= y) => z = 0
    BY SMTT(30), <1>2
  <2> QED BY SMTT(30), <1>2, <2>1, <2>2 DEF Max
<1> QED BY <1>1, <1>2

\* How often a prompt has a segment is a number, positive if it has it.
LEMMA Occurrences ==
  ASSUME NEW c \in Comb, NEW h \in Seg
  PROVE  LET n == Cardinality({i \in DOMAIN Prompt[c] : Prompt[c][i] = h})
         IN n \in Nat /\ (n = 0 <=> h \notin Gated(c))
<1> DEFINE I == {i \in DOMAIN Prompt[c] : Prompt[c][i] = h}
<1>1. Prompt[c] \in Seq(Seg)
  BY ScatterAssumption
<1>2. Len(Prompt[c]) \in Nat /\ DOMAIN Prompt[c] = 1 .. Len(Prompt[c])
  BY SMTT(30), <1>1
<1>3. IsFiniteSet(1 .. Len(Prompt[c]))
  BY SMTT(30), <1>2, FS_Interval
<1>4. IsFiniteSet(I)
  BY <1>2, <1>3, FS_Subset
<1>5. I = {} <=> h \notin Gated(c)
  BY DEF Gated, Range
<1> QED BY <1>4, <1>5, FS_CardinalityType, FS_EmptySet

\* Dropping the holds of a prompt leaves a lock_ref a number and what it does not
\* name alone.
LEMMA DropHoldsType ==
  ASSUME NEW c \in Comb, NEW l \in [Seg -> Nat]
  PROVE  /\ DropHolds(l, c) \in [Seg -> Nat]
         /\ \A h \in Seg \ Gated(c) : DropHolds(l, c)[h] = l[h]
         /\ \A h \in Seg : DropHolds(l, c)[h] <= l[h]
<1> DEFINE n(h) == Cardinality({i \in DOMAIN Prompt[c] : Prompt[c][i] = h})
<1>1. \A h \in Seg : n(h) \in Nat /\ (n(h) = 0 <=> h \notin Gated(c))
  BY Occurrences
<1>2. \A h \in Seg : DropHolds(l, c)[h] = Max({0, l[h] - n(h)})
  BY DEF DropHolds
<1> HIDE DEF n
<1>3. \A h \in Seg : l[h] - n(h) \in Int /\ l[h] \in Nat
  BY SMTT(30), <1>1
<1>4. \A h \in Seg : DropHolds(l, c)[h] = IF l[h] - n(h) > 0 THEN l[h] - n(h) ELSE 0
  BY <1>2, <1>3, MaxZero
<1>5. \A h \in Seg : DropHolds(l, c)[h] \in Nat
  BY SMTT(30), <1>1, <1>3, <1>4
<1>6. DropHolds(l, c) \in [Seg -> Nat]
  BY <1>5 DEF DropHolds
<1> QED BY SMTT(30), <1>1, <1>3, <1>4, <1>6

\* The lock_refs of an engine stay numbers when they are raised or lowered.
LEMMA IncDecType ==
  ASSUME NEW l \in [Seg -> Nat], NEW S
  PROVE  Inc(l, S) \in [Seg -> Nat] /\ Dec(l, S) \in [Seg -> Nat]
BY SMTT(30) DEF Inc, Dec

\* What an eviction takes is cached and unlocked, and makes room for the needs.
LEMMA EvictionFacts ==
  ASSUME TypeOK, NEW e \in Eng, NEW n \in Nat, NEW S, NEW V \in Evictions(e, n, S)
  PROVE  /\ V \subseteq Seg /\ V \cap S = {}
         /\ \A h \in V : entry[e][h] # None /\ lock[e][h] = 0 /\ entry[e][h] \in Slot
         /\ Pool(e, V) \subseteq Slot /\ IsFiniteSet(Pool(e, V)) /\ Cardinality(Pool(e, V)) >= n
         /\ Without(e, V) \in [Seg -> Slot \cup {None}]
<1>1. V \subseteq Unlocked(e) \ S /\ Cardinality(Pool(e, V)) >= n
  BY DEF Evictions, Pool
<1>2. V \subseteq Seg /\ V \cap S = {} /\ \A h \in V : entry[e][h] # None /\ lock[e][h] = 0
  BY <1>1 DEF Unlocked, Cached
<1>3. entry[e] \in [Seg -> Slot \cup {None}] /\ free[e] \subseteq Slot
  BY DEF TypeOK
<1>4. \A h \in V : entry[e][h] \in Slot
  BY <1>2, <1>3
<1>5. Pool(e, V) \subseteq Slot
  BY <1>3, <1>4 DEF Pool
<1>6. IsFiniteSet(Pool(e, V))
  BY <1>5, FS_Subset, ScatterAssumption
<1>7. Without(e, V) \in [Seg -> Slot \cup {None}]
  BY <1>3 DEF Without
<1> QED BY <1>1, <1>2, <1>4, <1>5, <1>6, <1>7

\* The slot prealloc reserves comes from the pool.
LEMMA ReservedFromPool ==
  ASSUME TypeOK, NEW e \in Eng, NEW V \in Evictions(e, 1, {})
  PROVE  (CHOOSE s \in Pool(e, V) : TRUE) \in Pool(e, V)
<1>1. IsFiniteSet(Pool(e, V)) /\ Cardinality(Pool(e, V)) >= 1
  BY SMTT(30), EvictionFacts
<1>2. Pool(e, V) # {}
  BY SMTT(30), <1>1, FS_EmptySet
<1> QED BY <1>2

\* A batch that Batches admits gets a slot of the pool for every need, no two the
\* same.
LEMMA LaunchGives ==
  ASSUME TypeOK, NEW e \in Eng, NEW R \in Batches(e),
         NEW V \in Evictions(e, Cardinality(BatchNeeds(R)), BatchHits(R))
  PROVE  LET f == Given(Pool(e, V), BatchNeeds(R))
         IN /\ R \subseteq Waiting(e) /\ R \subseteq Key \cup Comb /\ Cardinality(BatchNeeds(R)) \in Nat
            /\ f \in [BatchNeeds(R) -> Pool(e, V)]
            /\ \A a, b \in BatchNeeds(R) : f[a] = f[b] => a = b
            /\ \A r \in R : \A n \in Needs(r) : <<r, n>> \in BatchNeeds(R)
<1>1. R \subseteq Waiting(e) /\ R \subseteq Key \cup Comb
  BY DEF Batches, Waiting
<1>2. IsFiniteSet(BatchNeeds(R)) /\ Cardinality(BatchNeeds(R)) \in Nat
  BY <1>1, BatchNeedsFinite, FS_CardinalityType
<1>3. IsFiniteSet(Pool(e, V)) /\ Cardinality(Pool(e, V)) >= Cardinality(BatchNeeds(R))
  BY SMTT(30), <1>2, EvictionFacts
<1>4. Cardinality(Pool(e, V)) \in Nat
  BY <1>3, FS_CardinalityType
<1>5. Cardinality(BatchNeeds(R)) <= Cardinality(Pool(e, V))
  BY <1>2, <1>3, <1>4
<1>6. \A r \in R : \A n \in Needs(r) : <<r, n>> \in BatchNeeds(R)
  BY SMTT(30) DEF BatchNeeds
<1> QED BY <1>1, <1>2, <1>3, <1>5, <1>6, GivenExists

\* The loop goes to a phase it has.
LEMMA NextPhaseType ==
  ASSUME TypeOK, NEW e \in Eng
  PROVE  NextPhase(e) \in DOMAIN Rank
<1> DEFINE later == {p \in DOMAIN Rank \ {"retired", "resulted"} :
                       Rank[p] > Rank[at[e]] /\ Enters(e, p, at[e])}
           T == {Rank[p] : p \in later}
<1>1. CASE later = {}
  BY <1>1 DEF NextPhase, Rank
<1>2. CASE later # {}
  <2>1. \A p \in DOMAIN Rank : Rank[p] \in Nat
    BY SMTT(30) DEF Rank
  <2>2. T \subseteq Nat /\ T # {} /\ later \subseteq DOMAIN Rank
    BY <1>2, <2>1
  <2>3. PICK x \in T : \A y \in T : ~(<<y, x>> \in OpToRel(<, Nat))
    <3> HIDE DEF T
    <3> QED BY <2>2, NatLessThanWellFounded, WFMin
  <2>4. PICK p \in later : x = Rank[p]
    OBVIOUS
  <2>5. \A q \in later : Rank[p] <= Rank[q]
    <3> SUFFICES ASSUME NEW q \in later PROVE Rank[p] <= Rank[q]
      OBVIOUS
    <3>1. Rank[q] \in T /\ Rank[q] \in Nat /\ Rank[p] \in Nat
      BY <2>1
    <3>2. ~(Rank[q] < Rank[p])
      BY <2>3, <2>4, <3>1 DEF OpToRel
    <3> QED BY SMTT(30), <3>1, <3>2
  <2>6. NextPhase(e) = CHOOSE r \in later : \A q \in later : Rank[r] <= Rank[q]
    BY <1>2 DEF NextPhase
  <2> HIDE DEF later
  <2>7. NextPhase(e) \in later
    BY <2>5, <2>6
  <2> QED BY <2>2, <2>7
<1> QED BY <1>1, <1>2

-----------------------------------------------------------------------------
(* Every step *)

\* At the start every variable has its type.
LEMMA TypeInit == Init => TypeInv
<1> SUFFICES ASSUME Init PROVE TypeInv
  OBVIOUS
<1>1. at \in [Eng -> DOMAIN Rank \cup {"gate"}]
  BY DEF Init, Rank
<1>2. /\ entry \in [Eng -> [Seg -> Slot \cup {None}]] /\ lock \in [Eng -> [Seg -> Nat]]
      /\ free \in [Eng -> SUBSET Slot]
  BY DEF Init
<1>3. TypeOK
  BY <1>1, <1>2 DEF Init, TypeOK
<1>4. Held
  BY DEF Init, Held, NoSlots
<1> QED BY <1>3, <1>4 DEF TypeInv

\* The locks of one engine are set to numbers.
LEMMA LockType ==
  ASSUME TypeOK, NEW e \in Eng, NEW l \in [Seg -> Nat], lock' = [lock EXCEPT ![e] = l]
  PROVE  lock' \in [Eng -> [Seg -> Nat]]
BY DEF TypeOK

\* _fire_write.
LEMMA FireType ==
  ASSUME TypeOK, NEW k \in Key, NEW s \in Slot, Fire(k, s)
  PROVE  /\ handle' \in [Key -> {"none", "noroom", "sent", "lost", "here", "used"}]
         /\ src' \in [Key -> Slot \cup {None}] /\ infl' \subseteq Key
         /\ wire' \in [Key -> [Part -> {"none", "posted", "done", "err"}]]
<1>1. PICK n \in [Part -> {"posted", "none"}] : wire' = [wire EXCEPT ![k] = n]
  BY DEF Fire
<1>2. wire' \in [Key -> [Part -> {"none", "posted", "done", "err"}]]
  BY SMTT(30), <1>1 DEF TypeOK
<1>3. /\ handle' \in [Key -> {"none", "noroom", "sent", "lost", "here", "used"}]
      /\ src' \in [Key -> Slot \cup {None}] /\ infl' \subseteq Key
  BY DEF TypeOK, Fire
<1> QED BY <1>2, <1>3

\* pic_scatter_retire.
LEMMA RetireType ==
  ASSUME TypeOK, NEW k \in Key, NEW E \in [Seg -> Slot \cup {None}], NEW l \in [Seg -> Nat],
         Retire(k, E, l)
  PROVE  /\ handle' \in [Key -> {"none", "noroom", "sent", "lost", "here", "used"}]
         /\ src' \in [Key -> Slot \cup {None}] /\ infl' \subseteq Key /\ push' \subseteq Key
         /\ wire' \in [Key -> [Part -> {"none", "posted", "done", "err"}]]
         /\ lock' \in [Eng -> [Seg -> Nat]] /\ at' \in [Eng -> DOMAIN Rank \cup {"gate"}]
         /\ sub' = [sub EXCEPT ![k] = "retired"]
<1>1. SegOf(k) \in Seg /\ Worker[k] \in Eng
  BY KeyType
<1>2. lock' \in [Eng -> [Seg -> Nat]]
  <2>1. Inc(l, {SegOf(k)}) \in [Seg -> Nat]
    BY IncDecType
  <2>2. Handover(l, SegOf(k)) \in [Seg -> Nat]
    BY <2>1, IncDecType DEF Handover
  <2>3. (IF E[SegOf(k)] = None THEN l ELSE Handover(l, SegOf(k))) \in [Seg -> Nat]
    BY <2>2
  <2>4. lock' = [lock EXCEPT ![Worker[k]] = IF E[SegOf(k)] = None THEN l ELSE Handover(l, SegOf(k))]
    BY DEF Retire
  <2> QED BY <1>1, <2>3, <2>4, LockType
<1>3. at' \in [Eng -> DOMAIN Rank \cup {"gate"}]
  <2>1. PICK p : p \in {at[Worker[k]], "retired", "resulted"} /\ at' = [at EXCEPT ![Worker[k]] = p]
    BY DEF Retire, Goto
  <2> QED BY SMTT(30), <1>1, <2>1 DEF TypeOK, Rank
<1>4. CASE E[SegOf(k)] # None /\ Fire(k, E[SegOf(k)]) /\ UNCHANGED push
  <2>1. E[SegOf(k)] \in Slot
    BY <1>1, <1>4
  <2> QED BY <1>2, <1>3, <1>4, <2>1, FireType DEF TypeOK, Retire
<1>5. CASE (push' = push \cup {k} \/ push' = push) /\ UNCHANGED <<infl, wire, src, handle>>
  BY <1>2, <1>3, <1>5 DEF TypeOK, Retire
<1> QED BY <1>4, <1>5 DEF Retire

\* The forwards are untouched.
LEMMA HeldQuiet ==
  ASSUME Held, UNCHANGED slots, \A k \in Key : sub'[k] = "running" => sub[k] = "running"
  PROVE  Held'
BY DEF Held

\* What a forward registers has the type of the entries.
LEMMA RegisterType ==
  ASSUME TypeInv, NEW e \in Eng, NEW r \in Key \cup Comb, NEW M \in SUBSET Seg,
         Public(M) \subseteq DOMAIN slots[r]
  PROVE  /\ Registered(e, r, M) \in [Seg -> Slot \cup {None}]
         /\ Protected(e, M) \in [Seg -> Nat]
         /\ GivenBack(e, r, M) \subseteq Slot
<1>1. slots[r] \in [DOMAIN slots[r] -> Slot]
  BY DEF TypeInv, Held
<1>2. entry[e] \in [Seg -> Slot \cup {None}] /\ lock[e] \in [Seg -> Nat]
  BY DEF TypeInv, TypeOK
<1>3. \A n \in Public(M) : slots[r][n] \in Slot
  BY <1>1
<1>4. \A h \in M : <<"public", h>> \in Public(M)
  BY DEF Public
<1>5. Registered(e, r, M) \in [Seg -> Slot \cup {None}]
  BY <1>2, <1>3, <1>4 DEF Registered, NewSegs
<1>6. Protected(e, M) \in [Seg -> Nat]
  BY <1>2, IncDecType DEF Protected
<1>7. GivenBack(e, r, M) \subseteq Slot
  <2>1. Public(M \ NewSegs(e, M)) \subseteq Public(M)
    BY DEF Public
  <2> QED BY <1>3, <2>1 DEF GivenBack
<1> QED BY <1>5, <1>6, <1>7

\* The steps of the engine a segment was given to.
LEMMA WorkerType ==
  ASSUME TypeInv, NEW k \in Key, WorkerStep(k)
  PROVE  TypeInv'
<1>0. SegOf(k) \in Seg /\ Worker[k] \in Eng /\ TypeOK /\ Held
  BY KeyType DEF TypeInv
<1>1. lock[Worker[k]] \in [Seg -> Nat] /\ entry[Worker[k]] \in [Seg -> Slot \cup {None}]
  BY <1>0 DEF TypeOK
<1>2. \A S : /\ Inc(lock[Worker[k]], S) \in [Seg -> Nat] /\ Dec(lock[Worker[k]], S) \in [Seg -> Nat]
             /\ Inc(Dec(lock[Worker[k]], S), S) \in [Seg -> Nat]
  BY <1>1, IncDecType
<1>3. CASE RecvSub(k)
  <2>1. lock' \in [Eng -> [Seg -> Nat]]
    BY <1>0, <1>2, <1>3, LockType DEF RecvSub, TypeOK
  <2>2. sub' \in [Key -> {"sent", "lost", "hit", "waiting", "running", "retired"}]
    BY SMTT(30), <1>0, <1>3 DEF RecvSub, TypeOK
  <2>3. TypeOK'
    BY <1>0, <1>3, <2>1, <2>2 DEF RecvSub, TypeOK
  <2>4. Held'
    BY SMTT(30), <1>0, <1>3, HeldQuiet DEF RecvSub, TypeOK
  <2> QED BY <2>3, <2>4 DEF TypeInv
<1>4. CASE RecvHandle(k)
  <2>1. handle' \in [Key -> {"none", "noroom", "sent", "lost", "here", "used"}]
    BY <1>0, <1>4 DEF RecvHandle, TypeOK
  <2>2. TypeOK'
    BY <1>0, <1>4, <2>1 DEF RecvHandle, TypeOK
  <2>3. Held'
    BY <1>0, <1>4, HeldQuiet DEF RecvHandle
  <2> QED BY <2>2, <2>3 DEF TypeInv
<1>5. CASE PushPending(k)
  <2>1. push' \subseteq Key /\ UNCHANGED <<at, entry, free, sub, comb, slots, live, dst, to, late, peer, told>>
    BY <1>0, <1>5 DEF PushPending, TypeOK
  <2>2. lock' \in [Eng -> [Seg -> Nat]]
    BY <1>0, <1>2, <1>5, LockType DEF PushPending, TypeOK
  <2>3. /\ handle' \in [Key -> {"none", "noroom", "sent", "lost", "here", "used"}]
        /\ src' \in [Key -> Slot \cup {None}] /\ infl' \subseteq Key
        /\ wire' \in [Key -> [Part -> {"none", "posted", "done", "err"}]]
    <3>1. CASE entry[Worker[k]][SegOf(k)] # None /\ Fire(k, entry[Worker[k]][SegOf(k)])
      <4>1. entry[Worker[k]][SegOf(k)] \in Slot
        BY <1>0, <1>1, <3>1
      <4> QED BY <1>0, <3>1, <4>1, FireType
    <3>2. CASE UNCHANGED <<handle, src, infl, wire>>
      BY <1>0, <3>2 DEF TypeOK
    <3> QED BY <1>5, <3>1, <3>2 DEF PushPending
  <2>4. TypeOK'
    BY <1>0, <2>1, <2>2, <2>3 DEF TypeOK
  <2>5. Held'
    BY <1>0, <2>1, HeldQuiet
  <2> QED BY <2>4, <2>5 DEF TypeInv
<1>6. CASE Reap(k)
  <2>1. lock' \in [Eng -> [Seg -> Nat]]
    BY <1>0, <1>2, <1>6, LockType DEF Reap
  <2>2. TypeOK'
    BY <1>0, <1>6, <2>1 DEF Reap, TypeOK
  <2>3. Held'
    BY <1>0, <1>6, HeldQuiet DEF Reap
  <2> QED BY <2>2, <2>3 DEF TypeInv
<1>7. CASE HitRetire(k)
  <2>1. /\ Retire(k, entry[Worker[k]], lock[Worker[k]])
        /\ UNCHANGED <<entry, free, comb, slots, live, dst, to, envVars>>
    BY <1>7 DEF HitRetire
  <2>2. /\ handle' \in [Key -> {"none", "noroom", "sent", "lost", "here", "used"}]
        /\ src' \in [Key -> Slot \cup {None}] /\ infl' \subseteq Key /\ push' \subseteq Key
        /\ wire' \in [Key -> [Part -> {"none", "posted", "done", "err"}]]
        /\ lock' \in [Eng -> [Seg -> Nat]] /\ at' \in [Eng -> DOMAIN Rank \cup {"gate"}]
        /\ sub' = [sub EXCEPT ![k] = "retired"]
    BY <1>0, <1>1, <2>1, RetireType
  <2>3. TypeOK'
    BY <1>0, <2>1, <2>2 DEF TypeOK
  <2>4. Held'
    BY <1>0, <2>1, <2>2, HeldQuiet DEF TypeOK
  <2> QED BY <2>3, <2>4 DEF TypeInv
<1>8. CASE SubResult(k)
  <2> DEFINE M == {SegOf(k)} \ Short
             e == Worker[k]
  <2>1. /\ Retire(k, Registered(e, k, M), Protected(e, M)) /\ sub[k] = "running"
        /\ entry' = [entry EXCEPT ![e] = Registered(e, k, M)]
        /\ free' = [free EXCEPT ![e] = @ \cup GivenBack(e, k, M)]
        /\ slots' = [slots EXCEPT ![k] = NoSlots]
        /\ UNCHANGED <<comb, live, dst, to, envVars>>
    BY <1>8 DEF SubResult
  <2>2. M \in SUBSET Seg /\ Public(M) \subseteq DOMAIN slots[k]
    BY SMTT(30), <1>0, <2>1 DEF Held, Public
  <2> HIDE DEF M
  <2>3. /\ Registered(e, k, M) \in [Seg -> Slot \cup {None}] /\ Protected(e, M) \in [Seg -> Nat]
        /\ GivenBack(e, k, M) \subseteq Slot
    BY <1>0, <2>2, RegisterType
  <2>4. /\ handle' \in [Key -> {"none", "noroom", "sent", "lost", "here", "used"}]
        /\ src' \in [Key -> Slot \cup {None}] /\ infl' \subseteq Key /\ push' \subseteq Key
        /\ wire' \in [Key -> [Part -> {"none", "posted", "done", "err"}]]
        /\ lock' \in [Eng -> [Seg -> Nat]] /\ at' \in [Eng -> DOMAIN Rank \cup {"gate"}]
        /\ sub' = [sub EXCEPT ![k] = "retired"]
    BY <1>0, <2>1, <2>3, RetireType
  <2>5. entry' \in [Eng -> [Seg -> Slot \cup {None}]] /\ free' \in [Eng -> SUBSET Slot]
    BY <1>0, <2>1, <2>3 DEF TypeOK
  <2>6. TypeOK'
    BY <1>0, <2>1, <2>4, <2>5 DEF TypeOK
  <2>7. Held'
    BY <1>0, <2>1, <2>4 DEF Held, TypeOK, NoSlots
  <2> QED BY <2>6, <2>7 DEF TypeInv
<1> QED BY <1>3, <1>4, <1>5, <1>6, <1>7, <1>8 DEF WorkerStep

\* The steps of the engine that combines.
LEMMA HomeType ==
  ASSUME TypeInv, NEW k \in Key, HomeStep(k)
  PROVE  TypeInv'
<1> DEFINE e == HomeOf(k)
<1>0. SegOf(k) \in Seg /\ e \in Eng /\ TypeOK /\ Held /\ e = Home[k[1]]
  BY KeyType DEF TypeInv, HomeOf
<1>1. CASE Prealloc(k)
  <2>1. UNCHANGED <<at, lock, sub, comb, slots, push, infl, wire, src, late, peer, told>>
    BY <1>1 DEF Prealloc
  <2>2. Held'
    BY <1>0, <2>1, HeldQuiet
  <2>3. CASE handle' = [handle EXCEPT ![k] = "noroom"] /\ UNCHANGED <<entry, free, live, dst, to>>
    <3>1. TypeOK'
      BY <1>0, <2>1, <2>3 DEF TypeOK
    <3> QED BY <2>2, <3>1 DEF TypeInv
  <2>4. ASSUME NEW V \in Evictions(e, 1, {}),
               entry' = [entry EXCEPT ![e] = Without(e, V)],
               free' = [free EXCEPT ![e] = Pool(e, V) \ {CHOOSE s \in Pool(e, V) : TRUE}],
               live' = [d \in Comb |-> IF Home[d] = e THEN live[d] \ V ELSE live[d]],
               dst' = [dst EXCEPT ![k] = CHOOSE s \in Pool(e, V) : TRUE],
               to' = [to EXCEPT ![k] = CHOOSE s \in Pool(e, V) : TRUE],
               \E post \in {"sent", "lost"} : handle' = [handle EXCEPT ![k] = post]
        PROVE  TypeInv'
    <3> DEFINE s == CHOOSE s \in Pool(e, V) : TRUE
    <3>1. s \in Pool(e, V) /\ Pool(e, V) \subseteq Slot /\ Without(e, V) \in [Seg -> Slot \cup {None}]
      BY SMTT(30), <1>0, <2>4, ReservedFromPool, EvictionFacts
    <3> HIDE DEF s
    <3>2. /\ dst' \in [Key -> Slot \cup {None}] /\ to' \in [Key -> Slot \cup {None}]
          /\ handle' \in [Key -> {"none", "noroom", "sent", "lost", "here", "used"}]
      BY SMTT(30), <1>0, <2>4, <3>1 DEF TypeOK, s
    <3>3. entry' \in [Eng -> [Seg -> Slot \cup {None}]] /\ free' \in [Eng -> SUBSET Slot]
      BY <1>0, <2>4, <3>1 DEF TypeOK
    <3>4. live' \in [Comb -> SUBSET Seg]
      BY <1>0, <2>4 DEF TypeOK
    <3>5. TypeOK'
      BY <1>0, <2>1, <3>2, <3>3, <3>4 DEF TypeOK
    <3> QED BY <2>2, <3>5 DEF TypeInv
  <2> QED BY SMTT(30), <1>0, <1>1, <2>3, <2>4 DEF Prealloc
<1>2. CASE Inject(k)
  <2>1. /\ dst' = [dst EXCEPT ![k] = None] /\ lock' = [lock EXCEPT ![e] = Inc(@, {SegOf(k)})]
        /\ UNCHANGED <<at, reqVars, to, handle, push, infl, wire, src, envVars>>
    BY <1>2 DEF Inject
  <2>2. dst[k] \in Slot
    BY SMTT(30), <1>0, <1>2 DEF Inject, Items, Pending, TypeOK
  <2>3. entry' \in [Eng -> [Seg -> Slot \cup {None}]] /\ free' \in [Eng -> SUBSET Slot]
    <3>1. CASE free' = [free EXCEPT ![e] = @ \cup {dst[k]}] /\ UNCHANGED entry
      BY SMTT(30), <1>0, <2>2, <3>1 DEF TypeOK
    <3>2. CASE entry' = [entry EXCEPT ![e][SegOf(k)] = dst[k]] /\ UNCHANGED free
      BY <1>0, <2>2, <3>2 DEF TypeOK
    <3> QED BY <1>2, <3>1, <3>2 DEF Inject
  <2>4. lock' \in [Eng -> [Seg -> Nat]]
    <3>1. lock[e] \in [Seg -> Nat]
      BY <1>0 DEF TypeOK
    <3> QED BY <1>0, <2>1, <3>1, IncDecType, LockType
  <2>5. TypeOK'
    BY <1>0, <2>1, <2>3, <2>4 DEF TypeOK
  <2>6. Held'
    BY <1>0, <2>1, HeldQuiet
  <2> QED BY <2>5, <2>6 DEF TypeInv
<1> QED BY <1>1, <1>2 DEF HomeStep

\* The steps of a combine request.
LEMMA CombineType ==
  ASSUME TypeInv, NEW c \in Comb, CombineStep(c)
  PROVE  TypeInv'
<1> DEFINE e == Home[c]
<1>0. e \in Eng /\ TypeOK /\ Held
  BY ScatterAssumption DEF TypeInv
<1>1. lock[e] \in [Seg -> Nat]
  BY <1>0 DEF TypeOK
<1>2. CASE RecvCombine(c)
  <2>1. at' \in [Eng -> DOMAIN Rank \cup {"gate"}]
    BY <1>0, <1>2 DEF RecvCombine, Goto, TypeOK
  <2>2. TypeOK' /\ Held'
    BY <1>0, <1>2, <2>1, HeldQuiet DEF RecvCombine, TypeOK
  <2> QED BY <2>2 DEF TypeInv
<1>3. CASE Gate(c)
  <2>1. at' \in [Eng -> DOMAIN Rank \cup {"gate"}]
    BY <1>0, <1>3 DEF Gate, Goto, TypeOK, Rank
  <2>2. TypeOK' /\ Held'
    BY <1>0, <1>3, <2>1, HeldQuiet DEF Gate, TypeOK
  <2> QED BY <2>2 DEF TypeInv
<1>4. CASE Release(c)
  <2>1. UNCHANGED <<at, entry, sub, slots, live, to, handle, push, infl, wire, src, late>>
    BY <1>4 DEF Release
  <2>2. Held'
    BY <1>0, <2>1, HeldQuiet
  <2>3. CASE ~Late(c)
    <3>1. comb' = [comb EXCEPT ![c] = "queued"] /\ UNCHANGED <<dst, free, lock, told, peer>>
      BY <1>4, <2>3 DEF Release
    <3>2. TypeOK'
      BY <1>0, <2>1, <3>1 DEF TypeOK
    <3> QED BY <2>2, <3>2 DEF TypeInv
  <2>4. CASE Late(c)
    <3>1. /\ FreePending(c) /\ lock' = [lock EXCEPT ![e] = DropHolds(@, c)] /\ AbortRequest(c)
          /\ comb' = [comb EXCEPT ![c] = "gone"]
      BY <1>4, <2>4 DEF Release
    <3>2. lock' \in [Eng -> [Seg -> Nat]]
      BY <1>0, <1>1, <3>1, DropHoldsType, LockType
    <3>3. dst' \in [Key -> Slot \cup {None}]
      BY <1>0, <3>1 DEF FreePending, TypeOK
    <3>4. free' \in [Eng -> SUBSET Slot]
      <4>1. \A k \in KeysOf(c) : dst[k] \in Slot \cup {None}
        BY <1>0 DEF KeysOf, TypeOK
      <4>2. {dst[k] : k \in KeysOf(c)} \ {None} \subseteq Slot
        BY <4>1
      <4> QED BY <1>0, <3>1, <4>2 DEF FreePending, TypeOK
    <3>5. told' \subseteq Comb /\ peer' \in [Comb -> {"none", "ok", "failed", "sent"}]
      BY <1>0, <3>1 DEF AbortRequest, TypeOK
    <3>6. TypeOK'
      BY <1>0, <2>1, <3>1, <3>2, <3>3, <3>4, <3>5 DEF TypeOK
    <3> QED BY <2>2, <3>6 DEF TypeInv
  <2> QED BY <2>3, <2>4
<1>5. CASE Bootstrapped(c)
  <2>1. TypeOK' /\ Held'
    BY SMTT(30), <1>0, <1>5, HeldQuiet DEF Bootstrapped, TypeOK
  <2> QED BY <2>1 DEF TypeInv
<1> DEFINE M == Missed(c)
<1>6. M \in SUBSET Seg /\ Public(M) \subseteq DOMAIN slots[c]
  BY SMTT(30) DEF Missed, Public
<1> HIDE DEF M
<1>7. /\ Registered(e, c, M) \in [Seg -> Slot \cup {None}] /\ Protected(e, M) \in [Seg -> Nat]
      /\ GivenBack(e, c, M) \subseteq Slot
  BY <1>0, <1>6, RegisterType
<1>8. CASE CombineResult(c)
  <2>1. /\ entry' = [entry EXCEPT ![e] = Registered(e, c, M)]
        /\ free' = [free EXCEPT ![e] = @ \cup GivenBack(e, c, M)]
        /\ lock' = [lock EXCEPT ![e] = DropHolds(Protected(e, M), c)]
        /\ live' = [live EXCEPT ![c] = @ \cup M]
        /\ comb' = [comb EXCEPT ![c] = "sending"]
        /\ UNCHANGED <<at, sub, slots, xferVars, envVars>>
    BY <1>8 DEF CombineResult, M
  <2>2. lock' \in [Eng -> [Seg -> Nat]]
    BY <1>0, <1>7, <2>1, DropHoldsType, LockType
  <2>3. entry' \in [Eng -> [Seg -> Slot \cup {None}]] /\ free' \in [Eng -> SUBSET Slot]
    BY <1>0, <1>7, <2>1 DEF TypeOK
  <2>4. live' \in [Comb -> SUBSET Seg]
    BY <1>0, <1>6, <2>1 DEF TypeOK
  <2>5. TypeOK'
    BY <1>0, <2>1, <2>2, <2>3, <2>4 DEF TypeOK
  <2>6. Held'
    BY <1>0, <2>1, HeldQuiet
  <2> QED BY <2>5, <2>6 DEF TypeInv
<1>9. CASE SendDone(c)
  <2>1. /\ entry' = [entry EXCEPT ![e] = Registered(e, c, M)]
        /\ free' = [free EXCEPT ![e] = @ \cup GivenBack(e, c, M) \cup {slots[c][n] : n \in EndFreed(c)}]
        /\ lock' = [lock EXCEPT ![e] = Dec(Protected(e, M), live[c] \cup M)]
        /\ live' = [live EXCEPT ![c] = {}]
        /\ slots' = [slots EXCEPT ![c] = NoSlots]
        /\ comb' = [comb EXCEPT ![c] = "done"] /\ told' = told \cup {c}
        /\ UNCHANGED <<at, sub, xferVars, late, peer>>
    BY <1>9 DEF SendDone, M
  <2>2. lock' \in [Eng -> [Seg -> Nat]]
    BY <1>0, <1>7, <2>1, IncDecType, LockType
  <2>3. {slots[c][n] : n \in EndFreed(c)} \subseteq Slot
    BY SMTT(30), <1>0 DEF Held, EndFreed
  <2>4. entry' \in [Eng -> [Seg -> Slot \cup {None}]] /\ free' \in [Eng -> SUBSET Slot]
    BY <1>0, <1>7, <2>1, <2>3 DEF TypeOK
  <2>5. TypeOK'
    BY <1>0, <2>1, <2>2, <2>4 DEF TypeOK
  <2>6. Held'
    <3>1. \A k \in Key : k # c
      BY KeyType
    <3> QED BY <1>0, <2>1, <3>1 DEF Held, TypeOK, NoSlots
  <2> QED BY <2>5, <2>6 DEF TypeInv
<1> QED BY <1>2, <1>3, <1>4, <1>5, <1>8, <1>9 DEF CombineStep

\* The loop and its batches.
LEMMA TickType ==
  ASSUME TypeInv, NEW e \in Eng, Tick(e)
  PROVE  TypeInv'
<1>0. TypeOK /\ Held
  BY DEF TypeInv
<1>1. CASE Move(e)
  <2>1. at' \in [Eng -> DOMAIN Rank \cup {"gate"}]
    BY <1>0, <1>1, NextPhaseType DEF Move, Goto, TypeOK
  <2>2. TypeOK' /\ Held'
    BY <1>0, <1>1, <2>1, HeldQuiet DEF Move, TypeOK
  <2> QED BY <2>2 DEF TypeInv
<1>2. CASE Launch(e)
  <2>1. PICK R \in Batches(e) : \E V \in Evictions(e, Cardinality(BatchNeeds(R)), BatchHits(R)) :
           LET f == Given(Pool(e, V), BatchNeeds(R))
           IN /\ entry' = [entry EXCEPT ![e] = Without(e, V)]
              /\ free' = [free EXCEPT ![e] = Pool(e, V) \ Range(f)]
              /\ slots' = [r \in Key \cup Comb |->
                             IF r \in R THEN [n \in Needs(r) |-> f[<<r, n>>]] ELSE slots[r]]
              /\ lock' = [lock EXCEPT ![e] =
                             [h \in Seg |-> @[h] + Cardinality({c \in R \cap Comb : h \in Hits(c)})]]
              /\ live' = [c \in Comb |-> IF c \in R THEN Hits(c)
                                         ELSE IF Home[c] = e THEN live[c] \ V ELSE live[c]]
              /\ sub' = [k \in Key |-> IF k \in R THEN "running" ELSE sub[k]]
              /\ comb' = [c \in Comb |-> IF c \in R THEN "running" ELSE comb[c]]
    BY <1>2 DEF Launch
  <2>2. PICK V \in Evictions(e, Cardinality(BatchNeeds(R)), BatchHits(R)) :
           LET f == Given(Pool(e, V), BatchNeeds(R))
           IN /\ entry' = [entry EXCEPT ![e] = Without(e, V)]
              /\ free' = [free EXCEPT ![e] = Pool(e, V) \ Range(f)]
              /\ slots' = [r \in Key \cup Comb |->
                             IF r \in R THEN [n \in Needs(r) |-> f[<<r, n>>]] ELSE slots[r]]
              /\ lock' = [lock EXCEPT ![e] =
                             [h \in Seg |-> @[h] + Cardinality({c \in R \cap Comb : h \in Hits(c)})]]
              /\ live' = [c \in Comb |-> IF c \in R THEN Hits(c)
                                         ELSE IF Home[c] = e THEN live[c] \ V ELSE live[c]]
              /\ sub' = [k \in Key |-> IF k \in R THEN "running" ELSE sub[k]]
              /\ comb' = [c \in Comb |-> IF c \in R THEN "running" ELSE comb[c]]
    BY <2>1
  <2> DEFINE f == Given(Pool(e, V), BatchNeeds(R))
             n(h) == Cardinality({c \in R \cap Comb : h \in Hits(c)})
  <2>3. /\ R \subseteq Waiting(e) /\ R \subseteq Key \cup Comb /\ Cardinality(BatchNeeds(R)) \in Nat
        /\ f \in [BatchNeeds(R) -> Pool(e, V)]
        /\ \A r \in R : \A x \in Needs(r) : <<r, x>> \in BatchNeeds(R)
    BY <1>0, LaunchGives
  <2>4. Pool(e, V) \subseteq Slot /\ Without(e, V) \in [Seg -> Slot \cup {None}]
    BY SMTT(30), <1>0, <2>3, EvictionFacts
  <2>5. \A h \in Seg : n(h) \in Nat
    <3> SUFFICES ASSUME NEW h \in Seg PROVE n(h) \in Nat
      OBVIOUS
    <3>1. IsFiniteSet({c \in R \cap Comb : h \in Hits(c)})
      BY FS_Subset, ScatterAssumption
    <3> QED BY <3>1, FS_CardinalityType
  <2> HIDE DEF f, n
  <2>6. lock' \in [Eng -> [Seg -> Nat]]
    <3>1. lock' = [lock EXCEPT ![e] = [h \in Seg |-> lock[e][h] + n(h)]]
      BY <2>2 DEF n
    <3>2. [h \in Seg |-> lock[e][h] + n(h)] \in [Seg -> Nat]
      BY SMTT(30), <1>0, <2>5 DEF TypeOK
    <3> QED BY <1>0, <3>1, <3>2, LockType
  <2>7. entry' \in [Eng -> [Seg -> Slot \cup {None}]] /\ free' \in [Eng -> SUBSET Slot]
    BY <1>0, <2>2, <2>4 DEF TypeOK
  <2>8. live' \in [Comb -> SUBSET Seg]
    <3>1. \A c \in Comb : Hits(c) \subseteq Seg
      <4> SUFFICES ASSUME NEW c \in Comb PROVE Gated(c) \subseteq Seg
        BY DEF Hits
      <4>1. Prompt[c] \in Seq(Seg)
        BY ScatterAssumption
      <4> QED BY SMTT(30), <4>1 DEF Gated, Range
    <3> QED BY <1>0, <2>2, <3>1 DEF TypeOK
  <2>9. /\ sub' \in [Key -> {"sent", "lost", "hit", "waiting", "running", "retired"}]
        /\ comb' \in [Comb -> {"sent", "arriving", "parked", "queued", "waiting",
                               "running", "sending", "done", "gone"}]
        /\ DOMAIN slots' = Key \cup Comb
    BY <1>0, <2>2 DEF TypeOK
  <2>10. at' \in [Eng -> DOMAIN Rank \cup {"gate"}] /\ UNCHANGED <<xferVars, envVars>>
    BY <1>0, <1>2 DEF Launch, Goto, TypeOK, Rank
  <2>11. TypeOK'
    BY <1>0, <2>6, <2>7, <2>8, <2>9, <2>10 DEF TypeOK
  <2>12. Held'
    <3>1. \A r \in Key \cup Comb : slots'[r] = IF r \in R THEN [x \in Needs(r) |-> f[<<r, x>>]] ELSE slots[r]
      BY <2>2 DEF f
    <3>2. \A r \in R : [x \in Needs(r) |-> f[<<r, x>>]] \in [Needs(r) -> Slot]
      BY <2>3, <2>4
    <3>3. \A r \in Key \cup Comb : slots'[r] \in [DOMAIN slots'[r] -> Slot]
      BY <1>0, <3>1, <3>2 DEF Held
    <3>4. \A k \in Key : k \in R => <<"public", SegOf(k)>> \in Needs(k)
      BY KeyType DEF Needs, Public
    <3>5. \A k \in Key : sub'[k] = "running" => <<"public", SegOf(k)>> \in DOMAIN slots'[k]
      BY <1>0, <2>2, <3>1, <3>4 DEF Held
    <3> QED BY <3>3, <3>5 DEF Held
  <2> QED BY <2>11, <2>12 DEF TypeInv
<1> QED BY <1>1, <1>2 DEF Tick

\* Everything else: a flush, a lost sub-request, the client and the world.
LEMMA OutsideType ==
  ASSUME TypeInv, \/ \E e \in Eng : Flush(e) \/ Spin(e)
                  \/ \E k \in Key : LoseSub(k)
                  \/ \E c \in Comb : ClientAbort(c)
                  \/ World
  PROVE  TypeInv'
<1>0. TypeOK /\ Held
  BY DEF TypeInv
<1>1. ASSUME NEW e \in Eng, Flush(e) PROVE TypeInv'
  <2>1. TypeOK' /\ Held'
    BY <1>0, <1>1, HeldQuiet DEF Flush, TypeOK
  <2> QED BY <2>1 DEF TypeInv
<1>2. ASSUME NEW e \in Eng, Spin(e) PROVE TypeInv'
  BY <1>2 DEF Spin, vars, TypeInv, TypeOK, Held
<1>3. ASSUME NEW k \in Key, LoseSub(k) PROVE TypeInv'
  <2>1. TypeOK' /\ Held'
    BY <1>0, <1>3, HeldQuiet DEF LoseSub, TypeOK
  <2> QED BY <2>1 DEF TypeInv
<1>4. ASSUME NEW c \in Comb, ClientAbort(c) PROVE TypeInv'
  <2>1. TypeOK' /\ Held'
    BY <1>0, <1>4, HeldQuiet DEF ClientAbort, AbortRequest, TypeOK
  <2> QED BY <2>1 DEF TypeInv
<1>5. ASSUME NEW k \in Key, NEW p \in Part, Land(k, p) PROVE TypeInv'
  <2>1. PICK end \in {"done", "err"} : wire' = [wire EXCEPT ![k][p] = end]
    BY <1>5 DEF Land
  <2>2. wire' \in [Key -> [Part -> {"none", "posted", "done", "err"}]]
    BY <1>0, <2>1 DEF TypeOK
  <2>3. TypeOK' /\ Held'
    BY <1>0, <1>5, <2>2, HeldQuiet DEF Land, TypeOK
  <2> QED BY <2>3 DEF TypeInv
<1>6. ASSUME NEW d, Deadline(d) PROVE TypeInv'
  <2>1. TypeOK' /\ Held'
    BY <1>0, <1>6, HeldQuiet DEF Deadline, TypeOK
  <2> QED BY <2>1 DEF TypeInv
<1>7. ASSUME NEW c \in Comb, Peer(c) PROVE TypeInv'
  <2>1. peer' \in [Comb -> {"none", "ok", "failed", "sent"}]
    BY SMTT(30), <1>0, <1>7 DEF Peer, TypeOK
  <2>2. TypeOK' /\ Held'
    BY <1>0, <1>7, <2>1, HeldQuiet DEF Peer, TypeOK
  <2> QED BY <2>2 DEF TypeInv
<1> QED BY <1>1, <1>2, <1>3, <1>4, <1>5, <1>6, <1>7 DEF World

\* Every step keeps the types.
LEMMA TypeStep == TypeInv /\ [Next]_vars => TypeInv'
<1> SUFFICES ASSUME TypeInv, [Next]_vars PROVE TypeInv'
  OBVIOUS
<1>1. CASE UNCHANGED vars
  BY <1>1 DEF vars, TypeInv, TypeOK, Held
<1>2. ASSUME NEW e \in Eng, EngineStep(e) PROVE TypeInv'
  BY <1>2, TickType, WorkerType, HomeType, CombineType DEF EngineStep
<1> QED BY <1>1, <1>2, OutsideType DEF Next

\* For every topology, pool and set of faults the model's variables keep their
\* types: in particular a batch always gets the slots that Batches found for it,
\* what a forward registers or gives back is a slot it holds, and no lock_ref
\* becomes negative.
THEOREM ScatterTyped == Spec => []TypeOK
<1>1. TypeInv => TypeOK
  BY DEF TypeInv
<1> QED BY <1>1, TypeInit, TypeStep, PTL DEF Spec

-----------------------------------------------------------------------------
(* The order of reservation, handle, push and write *)

\* Nothing is reserved before prealloc_and_push_handles, nothing posted or in
\* flight before _fire_write, nothing pushed or written before the retire.
Fresh ==
  \A k \in Key : /\ handle[k] = "none" => dst[k] = None
                 /\ handle[k] # "used" => k \notin infl /\ \A p \in Part : wire[k][p] = "none"
                 /\ handle[k] = "used" => k \notin push /\ sub[k] = "retired"
                 /\ k \in push => sub[k] = "retired"

\* No step disturbs that.
LEMMA FreshStep ==
  ASSUME TypeInv, Fresh, Next
  PROVE  Fresh'
<1>0. TypeOK
  BY DEF TypeInv
<1>1. ASSUME UNCHANGED <<dst, handle, wire, push, infl>>,
             \A j \in Key : sub[j] = "retired" => sub'[j] = "retired"
      PROVE  Fresh'
  BY <1>1 DEF Fresh
<1>2. ASSUME NEW k \in Key, NEW s, Fire(k, s), UNCHANGED dst, handle[k] # "used",
             push' = push \/ push' = push \ {k}, k \notin push', sub'[k] = "retired",
             \A j \in Key : sub[j] = "retired" => sub'[j] = "retired"
      PROVE  Fresh'
  <2>1. PICK n : wire' = [wire EXCEPT ![k] = n]
    BY <1>2 DEF Fire
  <2>2. infl' \subseteq infl \cup {k} /\ handle' = [handle EXCEPT ![k] = "used"]
    BY <1>2 DEF Fire
  <2> QED BY SMTT(30), <1>0, <1>2, <2>1, <2>2 DEF Fresh, TypeOK
<1>3. ASSUME NEW k \in Key, NEW E, NEW l, Retire(k, E, l), UNCHANGED dst, sub[k] # "retired"
      PROVE  Fresh'
  <2>1. sub' = [sub EXCEPT ![k] = "retired"] /\ handle[k] # "used" /\ k \notin push
    BY <1>3 DEF Retire, Fresh
  <2>2. CASE Fire(k, E[SegOf(k)]) /\ UNCHANGED push
    BY <1>0, <1>2, <1>3, <2>1, <2>2 DEF TypeOK
  <2>3. CASE (push' = push \cup {k} \/ push' = push) /\ UNCHANGED <<infl, wire, src, handle>>
    BY SMTT(30), <1>0, <1>3, <2>1, <2>3 DEF Fresh, TypeOK
  <2> QED BY <1>3, <2>2, <2>3 DEF Retire
<1>4. ASSUME NEW k \in Key, WorkerStep(k) PROVE Fresh'
  <2>1. CASE RecvSub(k)
    BY <1>0, <1>1, <2>1 DEF RecvSub, TypeOK
  <2>2. CASE RecvHandle(k)
    BY SMTT(30), <1>0, <2>2 DEF RecvHandle, Fresh, TypeOK
  <2>3. CASE PushPending(k)
    <3>1. /\ k \in push /\ push' = push \ {k} /\ UNCHANGED <<sub, dst>> /\ sub[k] = "retired"
          /\ handle[k] # "used"
      BY <2>3 DEF PushPending, Items, Fresh
    <3>2. CASE Fire(k, entry[Worker[k]][SegOf(k)])
      BY <1>2, <3>1, <3>2
    <3>3. CASE UNCHANGED <<handle, src, infl, wire>>
      BY SMTT(30), <3>1, <3>3 DEF Fresh
    <3> QED BY <2>3, <3>2, <3>3 DEF PushPending
  <2>4. CASE Reap(k)
    BY SMTT(30), <2>4 DEF Reap, Fresh
  <2>5. CASE HitRetire(k) \/ SubResult(k)
    BY <1>3, <2>5 DEF HitRetire, SubResult
  <2> QED BY <1>4, <2>1, <2>2, <2>3, <2>4, <2>5 DEF WorkerStep
<1>5. ASSUME NEW k \in Key, HomeStep(k) PROVE Fresh'
  <2>1. CASE Prealloc(k)
    <3>1. UNCHANGED <<sub, wire, push, infl>> /\ handle[k] = "none"
      BY <2>1 DEF Prealloc, ToPrealloc
    <3>2. PICK p \in {"sent", "lost", "noroom"} : handle' = [handle EXCEPT ![k] = p]
      BY <2>1 DEF Prealloc
    <3>3. \A j \in Key : j # k => dst'[j] = dst[j]
      BY SMTT(30), <1>0, <2>1 DEF Prealloc, TypeOK
    <3> QED BY SMTT(30), <1>0, <3>1, <3>2, <3>3 DEF Fresh, TypeOK
  <2>2. CASE Inject(k)
    BY SMTT(30), <1>0, <2>2 DEF Inject, Fresh, TypeOK
  <2> QED BY <1>5, <2>1, <2>2 DEF HomeStep
<1>6. ASSUME NEW c \in Comb, CombineStep(c) PROVE Fresh'
  <2>1. CASE FreePending(c) /\ UNCHANGED <<sub, handle, wire, push, infl>>
    BY <2>1 DEF FreePending, Fresh
  <2>2. CASE UNCHANGED <<sub, dst, handle, wire, push, infl>>
    BY <1>1, <2>2
  <2> QED
    BY <1>6, <2>1, <2>2 DEF CombineStep, RecvCombine, Gate, Release, Bootstrapped, CombineResult, SendDone
<1>7. ASSUME NEW k \in Key, NEW p \in Part, Land(k, p) PROVE Fresh'
  <2>1. PICK end : wire' = [wire EXCEPT ![k][p] = end]
    BY <1>7 DEF Land
  <2>2. handle[k] = "used"
    BY <1>7 DEF Land, Fresh
  <2> QED BY SMTT(30), <1>0, <1>7, <2>1, <2>2 DEF Land, Fresh, TypeOK
<1>8. ASSUME NEW e \in Eng, Launch(e) PROVE Fresh'
  <2>1. PICK R \in Batches(e) : sub' = [k \in Key |-> IF k \in R THEN "running" ELSE sub[k]]
    BY <1>8 DEF Launch
  <2>2. \A k \in Key : k \in R => sub[k] = "waiting"
    BY KeyType DEF Batches, Waiting
  <2> QED BY <1>1, <1>8, <2>1, <2>2 DEF Launch
<1>9. ASSUME NEW e \in Eng, Move(e) \/ Spin(e) \/ Flush(e) PROVE Fresh'
  BY <1>1, <1>9 DEF Move, Spin, Flush, vars
<1>10. ASSUME NEW k \in Key, LoseSub(k) PROVE Fresh'
  BY <1>0, <1>1, <1>10 DEF LoseSub, TypeOK
<1>11. ASSUME NEW c \in Comb, ClientAbort(c) \/ Peer(c) PROVE Fresh'
  BY <1>1, <1>11 DEF ClientAbort, Peer
<1>12. ASSUME NEW d, Deadline(d) PROVE Fresh'
  BY <1>1, <1>12 DEF Deadline
<1> QED
  BY <1>4, <1>5, <1>6, <1>7, <1>8, <1>9, <1>10, <1>11, <1>12 DEF Next, EngineStep, Tick, World
=============================================================================
