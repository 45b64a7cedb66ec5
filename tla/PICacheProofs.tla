--------------------------- MODULE PICacheProofs ----------------------------
(***************************************************************************)
(* Proofs about PICache, for every set of segments, requests and slots and *)
(* every mode and allocation order: the types, that no lock_ref outlives   *)
(* the requests it is for, and, for event_loop_normal with requests that   *)
(* end at their prefill, that the cached segments a request was admitted   *)
(* with stay cached until it is done.                                      *)
(***************************************************************************)
EXTENDS PICache, FiniteSetTheorems, TLAPS

\* Leaves are given to Zenon; those that need arithmetic or nested function updates name SMT.
USE ZenonT(40)

----------------------------------------------------------------------------
(* The inductive invariant *)

\* What match_prefix and the allocation leave on a request.
Shape ==
  \A r \in Req : /\ hit[r] \subseteq Pos(r)
                 /\ IsFiniteSet(DOMAIN kv[r]) /\ IsFiniteSet(DOMAIN mb[r])
                 /\ phase[r] \in {"idle", "waiting"} => live[r] = {} /\ hit[r] = {}

\* A request of the running batch has the slots it was launched with.
Holding ==
  \A r \in Batch : KVNeeds(r) \subseteq DOMAIN kv[r] /\ MbNeeds(r) \subseteq DOMAIN mb[r]

\* Outstanding results are of requests that are still in the running batch.
Queue ==
  /\ \A i \in DOMAIN launched : launched[i] \subseteq Batch
  /\ loop = "results" => launched # <<>>

IInv == TypeOK /\ Shape /\ Holding /\ Queue /\ NoLockLeak

----------------------------------------------------------------------------
(* Pools *)

\* The number of times a slot occurs in a finite allocation is a natural number.
LEMMA OccNat ==
  ASSUME NEW f, IsFiniteSet(DOMAIN f), NEW s
  PROVE  Occ(f, s) \in Nat
BY FS_Subset, FS_CardinalityType DEF Occ

\* Freeing slots keeps a free list a bag.
LEMMA GiveType ==
  ASSUME NEW S, NEW bag \in [S -> Nat], NEW f, IsFiniteSet(DOMAIN f)
  PROVE  Give(bag, f) \in [S -> Nat]
BY SMTT(30), OccNat DEF Give

\* Allocating slots that are there keeps a free list a bag.
LEMMA TakeType ==
  ASSUME NEW S, NEW bag \in [S -> Nat], NEW f, IsFiniteSet(DOMAIN f), Fits(bag, f)
  PROVE  Take(bag, f) \in [S -> Nat]
BY SMTT(30), OccNat DEF Take, Fits

\* The clamped subtraction of remove_inflight stays a natural number.
LEMMA SubType ==
  ASSUME NEW m \in Nat, NEW n \in Nat
  PROVE  Sub(m, n) \in Nat
BY SMTT(30) DEF Sub

----------------------------------------------------------------------------
(* Finiteness *)

\* The image of a finite set under a function is finite.
LEMMA FiniteImage ==
  ASSUME NEW S, IsFiniteSet(S), NEW f, DOMAIN f = S
  PROVE  IsFiniteSet({f[x] : x \in S})
<1> DEFINE T == {f[x] : x \in S}
           g == [x \in S |-> f[x]]
<1>1. g \in Surjection(S, T)
  BY DEF Surjection
<1> QED BY <1>1, FS_Surjection

\* The positions of a prompt are finitely many, and so are all sets of them.
LEMMA PosFinite ==
  ASSUME TypeOK, NEW r \in Req
  PROVE  /\ IsFiniteSet(Pos(r)) /\ Pos(r) \subseteq Nat
         /\ Len(prompt[r]) \in Nat /\ prompt[r] \in Seq(Seg)
         /\ \A i \in Pos(r) : prompt[r][i] \in Seg
<1>1. prompt[r] \in Seq(Seg)
  <2>1. prompt[r] \in Prompts \cup {<<>>}
    BY DEF TypeOK, NoPrompt
  <2>2. <<>> \in Seq(Seg)
    BY SMTT(30)
  <2> QED BY ZenonT(30), <2>1, <2>2, SegAssumption
<1>2. Len(prompt[r]) \in Nat /\ \A i \in Pos(r) : prompt[r][i] \in Seg
  BY SMTT(30), <1>1 DEF Pos
<1>3. IsFiniteSet(Pos(r))
  BY SMTT(30), <1>2, FS_Interval DEF Pos
<1> QED BY SMTT(30), <1>1, <1>2, <1>3 DEF Pos

\* A request needs finitely many slots, each under a tag.
LEMMA NeedsFinite ==
  ASSUME TypeOK, NEW r \in Req
  PROVE  /\ IsFiniteSet(KVNeeds(r)) /\ IsFiniteSet(MbNeeds(r))
         /\ KVNeeds(r) \subseteq Tags /\ MbNeeds(r) \subseteq Tags
<1> DEFINE P == Pos(r)
           Q == {i \in Miss(r) : ~IsQuery(r, i)}
           M == {i \in Miss(r) : Rope \/ i = Len(prompt[r]) \/ ~IsShort(r, i)}
<1>1. IsFiniteSet(P) /\ P \subseteq Nat
  BY PosFinite
<1>2. Q \subseteq P /\ M \subseteq P /\ Miss(r) \subseteq P
  BY DEF Miss
<1>3. IsFiniteSet(Q) /\ IsFiniteSet(M) /\ IsFiniteSet(Miss(r))
  BY <1>1, <1>2, FS_Subset
<1>4. \A k : IsFiniteSet({k})
  BY FS_Singleton
<1>5. /\ IsFiniteSet({"priv"} \X P) /\ IsFiniteSet({"pub"} \X Q)
      /\ IsFiniteSet({"priv"} \X Miss(r)) /\ IsFiniteSet({"seg"} \X M)
  BY ZenonT(30), <1>1, <1>3, <1>4, FS_Product
<1>6. IsFiniteSet(({"priv"} \X P) \cup ({"pub"} \X Q))
  BY ZenonT(30), <1>5, FS_Union
<1>7. KVNeeds(r) \subseteq Tags /\ MbNeeds(r) \subseteq Tags
  BY <1>1, <1>2 DEF KVNeeds, MbNeeds, Tags
<1> QED BY <1>5, <1>6, <1>7 DEF KVNeeds, MbNeeds

\* So does a batch.
LEMMA BatchNeedsFinite ==
  ASSUME TypeOK
  PROVE  IsFiniteSet(SlotNeeds) /\ IsFiniteSet(SegNeeds) /\ IsFiniteSet(PoolNeeds)
<1> DEFINE f == [r \in Admitted |-> {r} \X KVNeeds(r)]
           g == [r \in Admitted |-> {r} \X MbNeeds(r)]
<1>1. IsFiniteSet(Admitted) /\ Admitted \subseteq Req
  BY SegAssumption, FS_Subset DEF Admitted
<1>2. \A r \in Admitted : IsFiniteSet(f[r]) /\ IsFiniteSet(g[r])
  BY ZenonT(30), <1>1, NeedsFinite, FS_Singleton, FS_Product
<1>3. IsFiniteSet({f[r] : r \in Admitted}) /\ IsFiniteSet({g[r] : r \in Admitted})
  <2>1. DOMAIN f = Admitted /\ DOMAIN g = Admitted
    OBVIOUS
  <2> HIDE DEF f, g
  <2> QED BY <1>1, <2>1, FiniteImage
<1>4. IsFiniteSet(UNION {f[r] : r \in Admitted}) /\ IsFiniteSet(UNION {g[r] : r \in Admitted})
  <2> DEFINE F == {f[r] : r \in Admitted}
             G == {g[r] : r \in Admitted}
  <2>1. (\A T \in F : IsFiniteSet(T)) /\ (\A T \in G : IsFiniteSet(T))
    BY ZenonT(30), <1>2
  <2> HIDE DEF F, G
  <2> QED BY ZenonT(30), <1>3, <2>1, FS_UNION DEF F, G
<1>5. SlotNeeds = UNION {f[r] : r \in Admitted} /\ SegNeeds = UNION {g[r] : r \in Admitted}
  BY DEF SlotNeeds, SegNeeds
<1>6. IsFiniteSet(PoolNeeds)
  BY ZenonT(30), <1>1, FS_Singleton, FS_Product DEF PoolNeeds
<1> QED BY <1>4, <1>5, <1>6

----------------------------------------------------------------------------
(* Steps of the invariant *)

\* The initial state satisfies the invariant.
LEMMA InitInd == Init => IInv
<1> SUFFICES ASSUME Init PROVE IInv
  OBVIOUS
<1>1. TypeOK
  BY SMTT(30) DEF Init, TypeOK, NoSlots, NoPrompt
<1>2. Shape
  BY FS_EmptySet DEF Init, Shape, NoSlots
<1>3. Holding /\ Queue
  BY SMTT(30) DEF Init, Holding, Queue, Batch
<1>4. NoLockLeak
  <2> SUFFICES ASSUME NEW h \in Seg
               PROVE  lock[h] = 0 /\ Cardinality({r \in Req : h \in live[r]}) = 0
    BY SMTT(30) DEF NoLockLeak
  <2>1. {r \in Req : h \in live[r]} = {} /\ lock[h] = 0
    BY DEF Init
  <2> QED BY <2>1, FS_EmptySet
<1> QED BY <1>1, <1>2, <1>3, <1>4 DEF IInv

\* Actions that touch neither the cache nor the slots, nor add to the queue.
LEMMA ArriveInd ==
  ASSUME IInv, NEW r \in Req, NEW p \in Prompts, Arrive(r, p)
  PROVE  IInv'
<1> USE DEF Arrive, cacheVars, poolVars, loopVars
<1>1. TypeOK'
  BY DEF IInv, TypeOK
<1>2. Batch' = Batch /\ r \notin Batch
  BY DEF Batch, IInv, TypeOK
<1>3. Shape'
  BY DEF IInv, Shape, Pos, TypeOK
<1>4. Holding'
  BY SMTT(30), <1>2 DEF IInv, Holding, TypeOK, KVNeeds, MbNeeds, Pos, Miss, IsQuery, IsShort, Multi, Batch
<1>5. Queue' /\ NoLockLeak'
  BY <1>2 DEF IInv, Queue, NoLockLeak
<1> QED BY <1>1, <1>3, <1>4, <1>5 DEF IInv

\* abort_request on a waiting request keeps the invariant.
LEMMA AbortWaitingInd ==
  ASSUME IInv, NEW r \in Req, AbortWaiting(r)
  PROVE  IInv'
<1> USE DEF AbortWaiting, cacheVars, poolVars, loopVars
<1>1. TypeOK'
  BY DEF IInv, TypeOK
<1>2. Batch' = Batch /\ r \notin Batch
  BY DEF Batch, IInv, TypeOK
<1>3. Shape'
  BY DEF IInv, Shape, Pos, TypeOK
<1>4. Holding'
  BY SMTT(30), <1>2 DEF IInv, Holding, TypeOK, KVNeeds, MbNeeds, Pos, Miss, IsQuery, IsShort, Multi, Batch
<1>5. Queue' /\ NoLockLeak'
  BY <1>2 DEF IInv, Queue, NoLockLeak
<1> QED BY <1>1, <1>3, <1>4, <1>5 DEF IInv

\* Requests referring to an entry are finitely many.
LEMMA HoldersFinite ==
  ASSUME NEW lv, NEW h
  PROVE  /\ IsFiniteSet({r \in Req : h \in lv[r]})
         /\ Cardinality({r \in Req : h \in lv[r]}) \in Nat
BY SegAssumption, FS_Subset, FS_CardinalityType

\* Admission: one more lock on each hit, and one more holder.
LEMMA AdmitInd ==
  ASSUME IInv, NEW r \in Req, Admit(r)
  PROVE  IInv'
<1> DEFINE I == Matched(prompt[r])
           H == {prompt[r][i] : i \in I}
<1> USE DEF Admit, poolVars, loopVars
<1>1. I \subseteq Pos(r) /\ I \subseteq Nat /\ H \subseteq Seg /\ H \subseteq Cached(entry)
  BY SMTT(30), PosFinite DEF IInv, Matched, Pos, Cached
<1>2. TypeOK'
  <2>1. older' \subseteq Seg \X Seg
    BY DEF Accessed, Cached
  <2>2. lock' \in [Seg -> Nat]
    BY SMTT(30) DEF IInv, TypeOK
  <2> QED BY <1>1, <2>1, <2>2 DEF IInv, TypeOK
<1>3. Batch' = Batch /\ r \notin Batch
  BY DEF Batch, IInv, TypeOK
<1>4. Shape'
  BY <1>1 DEF IInv, Shape, Pos, TypeOK
<1>5. Holding'
  BY SMTT(30), <1>3 DEF IInv, Holding, TypeOK, KVNeeds, MbNeeds, Pos, Miss, IsQuery, IsShort, Multi, Batch
<1>6. Queue'
  BY <1>3 DEF IInv, Queue
<1>7. NoLockLeak'
  <2> SUFFICES ASSUME NEW h \in Seg
               PROVE  /\ lock'[h] <= Cardinality({q \in Req : h \in live'[q]})
                      /\ lock'[h] > 0 => entry'[h] # None
    BY DEF NoLockLeak
  <2> DEFINE A == {q \in Req : h \in live[q]}
             B == {q \in Req : h \in live'[q]}
  <2>1. lock[h] <= Cardinality(A) /\ (lock[h] > 0 => entry[h] # None) /\ lock[h] \in Nat
    BY DEF IInv, NoLockLeak, TypeOK
  <2>2. live[r] = {} /\ live' = [live EXCEPT ![r] = H] /\ live \in [Req -> SUBSET Seg]
    BY DEF IInv, Shape, TypeOK
  <2>3. CASE h \in H
    <3>1. B = A \cup {r} /\ r \notin A
      BY <2>2, <2>3
    <3>2. IsFiniteSet(A) /\ Cardinality(A) \in Nat
      BY ZenonT(30), HoldersFinite
    <3>3. Cardinality(B) = Cardinality(A) + 1
      <4> HIDE DEF A, B
      <4> QED BY ZenonT(30), <3>1, <3>2, FS_AddElement
    <3>4. lock'[h] = lock[h] + 1 /\ entry'[h] # None
      BY <1>1, <2>3 DEF Cached
    <3> QED BY SMTT(30), <2>1, <3>2, <3>3, <3>4
  <2>4. CASE h \notin H
    <3>1. B = A /\ lock'[h] = lock[h] /\ entry' = entry
      BY <2>2, <2>4
    <3> QED BY ZenonT(30), <2>1, <3>1
  <2> QED BY <2>3, <2>4
<1> QED BY <1>2, <1>4, <1>5, <1>6, <1>7 DEF IInv

\* Actions that only move the loop, the recency order or the queue of results.
LEMMA LoopMoveInd ==
  ASSUME IInv, UNCHANGED <<entry, lock, poolVars, reqVars>>,
         older' \subseteq Seg \X Seg, Queue',
         loop' \in {"form", "full", "retract", "results", "down"},
         launched' \in Seq(SUBSET Req)
  PROVE  IInv'
<1> USE DEF poolVars, reqVars
<1>1. TypeOK'
  BY DEF IInv, TypeOK
<1>2. Shape'
  BY DEF IInv, Shape, Pos
<1>3. Holding'
  BY DEF IInv, Holding, KVNeeds, MbNeeds, Pos, Miss, IsQuery, IsShort, Multi, Batch
<1>4. NoLockLeak'
  BY DEF IInv, NoLockLeak
<1> QED BY <1>1, <1>2, <1>3, <1>4 DEF IInv

\* A rejected admission keeps the invariant.
LEMMA RejectInd ==
  ASSUME IInv, NEW r \in Req, Reject(r)
  PROVE  IInv'
<1>1. older' \subseteq Seg \X Seg
  BY DEF Reject, Accessed, Cached
<1>2. Queue' /\ launched' \in Seq(SUBSET Req)
  BY DEF Reject, Queue, IInv, TypeOK, reqVars, Batch
<1> QED BY <1>1, <1>2, LoopMoveInd DEF Reject

\* A round without a batch, or one whose allocation raises, keeps the invariant.
LEMMA NoBatchInd ==
  ASSUME IInv, NoBatch \/ LaunchFails
  PROVE  IInv'
<1>1. older' \subseteq Seg \X Seg
  BY DEF NoBatch, LaunchFails, cacheVars, IInv, TypeOK
<1>2. Queue' /\ launched' \in Seq(SUBSET Req)
  BY DEF NoBatch, LaunchFails, Queue, IInv, TypeOK, reqVars, Batch
<1> QED BY <1>1, <1>2, LoopMoveInd DEF NoBatch, LaunchFails, cacheVars

\* The end of a batch of results keeps the invariant.
LEMMA EndBatchInd ==
  ASSUME IInv, EndBatch
  PROVE  IInv'
<1>1. older' \subseteq Seg \X Seg
  BY DEF EndBatch, cacheVars, IInv, TypeOK
<1>2. launched \in Seq(SUBSET Req) /\ launched # <<>>
  BY DEF EndBatch, IInv, TypeOK, Queue
<1>3. launched' \in Seq(SUBSET Req) /\ \A i \in DOMAIN launched' : i + 1 \in DOMAIN launched /\ launched'[i] = launched[i + 1]
  BY SMTT(30), <1>2 DEF EndBatch
<1>4. Batch' = Batch
  BY DEF EndBatch, reqVars, Batch
<1>5. Queue'
  BY <1>3, <1>4 DEF EndBatch, Queue, IInv
<1> QED BY <1>1, <1>3, <1>5, LoopMoveInd DEF EndBatch, cacheVars

\* Taking a request out of the batch whose result is processed.
LEMMA HeadRemoved ==
  ASSUME IInv, NEW r \in Req, loop = "results"
  PROVE  LET L == [launched EXCEPT ![1] = @ \ {r}]
         IN /\ L \in Seq(SUBSET Req) /\ L # <<>> /\ DOMAIN L = DOMAIN launched
            /\ \A i \in DOMAIN launched : L[i] \subseteq launched[i]
<1>1. launched \in Seq(SUBSET Req) /\ launched # <<>>
  BY DEF IInv, TypeOK, Queue
<1>2. 1 \in DOMAIN launched /\ launched[1] \ {r} \in SUBSET Req
  BY SMTT(30), <1>1
<1> QED BY SMTT(30), <1>1, <1>2

\* Taking a request out of every outstanding batch.
LEMMA DropType ==
  ASSUME launched \in Seq(SUBSET Req), NEW r \in Req
  PROVE  /\ Drop(r) \in Seq(SUBSET Req)
         /\ DOMAIN Drop(r) = DOMAIN launched
         /\ Drop(r) = <<>> <=> launched = <<>>
         /\ \A i \in DOMAIN launched : Drop(r)[i] = launched[i] \ {r}
<1>1. Len(launched) \in Nat /\ DOMAIN launched = 1 .. Len(launched)
  BY SMTT(30)
<1>2. \A i \in 1 .. Len(launched) : launched[i] \ {r} \in SUBSET Req
  BY SMTT(30)
<1>3. Drop(r) = [i \in 1 .. Len(launched) |-> launched[i] \ {r}]
  BY ZenonT(30), <1>1 DEF Drop
<1> QED BY SMTT(30), <1>1, <1>2, <1>3

\* A decode result of a request that goes on keeps the invariant.
LEMMA DecodeContinueInd ==
  ASSUME IInv, NEW r \in Req, DecodeContinue(r)
  PROVE  IInv'
<1>1. older' \subseteq Seg \X Seg
  BY DEF DecodeContinue, cacheVars, IInv, TypeOK
<1>2. /\ launched' \in Seq(SUBSET Req) /\ launched' # <<>>
      /\ \A i \in DOMAIN launched' : i \in DOMAIN launched /\ launched'[i] \subseteq launched[i]
  BY HeadRemoved DEF DecodeContinue
<1>3. Batch' = Batch
  BY DEF DecodeContinue, reqVars, Batch
<1>4. Queue'
  BY <1>2, <1>3 DEF Queue, IInv
<1> QED BY ZenonT(30), <1>1, <1>2, <1>4, LoopMoveInd DEF DecodeContinue, cacheVars, IInv, TypeOK

\* flush_cache keeps the invariant.
LEMMA FlushInd ==
  ASSUME IInv, Flush
  PROVE  IInv'
<1> USE DEF Flush, reqVars, loopVars
<1>1. TypeOK'
  BY DEF IInv, TypeOK
<1>2. Shape'
  BY DEF IInv, Shape, Pos
<1>3. Holding' /\ Queue'
  BY DEF IInv, Holding, Queue, Batch
<1>4. NoLockLeak'
  <2> SUFFICES ASSUME NEW h \in Seg
               PROVE  lock'[h] <= Cardinality({q \in Req : h \in live'[q]}) /\ lock'[h] = 0
    BY SMTT(30) DEF NoLockLeak
  <2>1. Cardinality({q \in Req : h \in live'[q]}) \in Nat
    BY ZenonT(30), HoldersFinite
  <2>2. lock'[h] = 0
    OBVIOUS
  <2> QED BY SMTT(30), <2>1, <2>2
<1> QED BY ZenonT(30), <1>1, <1>2, <1>3, <1>4 DEF IInv

\* Evicting entries keeps the free lists bags and the index an index.
LEMMA EvictPools ==
  ASSUME TypeOK, NEW V \in SUBSET Seg
  PROVE  /\ Give(kvFree, KVOf(V)) \in [KV -> Nat]
         /\ Give(mbFree, MbOf(V)) \in [Mamba -> Nat]
         /\ Without(entry, V) \in [Seg -> [kv : KV, mb : Mamba] \cup {None}]
<1>1. IsFiniteSet(V)
  BY SegAssumption, FS_Subset
<1>2. IsFiniteSet(DOMAIN KVOf(V)) /\ IsFiniteSet(DOMAIN MbOf(V))
  BY <1>1 DEF KVOf, MbOf
<1>3. kvFree \in [KV -> Nat] /\ mbFree \in [Mamba -> Nat]
  BY DEF TypeOK
<1>4. Without(entry, V) \in [Seg -> [kv : KV, mb : Mamba] \cup {None}]
  BY DEF Without, TypeOK
<1> QED BY <1>2, <1>3, <1>4, GiveType

\* Evicting only unlocked entries takes no lock away from its holders.
LEMMA EvictLocks ==
  ASSUME IInv, NEW V \in SUBSET Unlocked(entry, lock),
         entry' = Without(entry, V), lock' = lock,
         live' = [r \in Req |-> live[r] \ V]
  PROVE  NoLockLeak'
<1> SUFFICES ASSUME NEW h \in Seg
             PROVE  /\ lock'[h] <= Cardinality({q \in Req : h \in live'[q]})
                    /\ lock'[h] > 0 => entry'[h] # None
  BY DEF NoLockLeak
<1>1. /\ lock[h] <= Cardinality({q \in Req : h \in live[q]})
      /\ (lock[h] > 0 => entry[h] # None) /\ lock[h] \in Nat
  BY ZenonT(30) DEF IInv, NoLockLeak, TypeOK
<1>2. CASE h \in V
  <2>1. lock'[h] = 0
    BY <1>2 DEF Unlocked
  <2>2. Cardinality({q \in Req : h \in live'[q]}) \in Nat
    BY HoldersFinite
  <2> QED BY SMTT(30), <2>1, <2>2
<1>3. CASE h \notin V
  <2>1. {q \in Req : h \in live'[q]} = {q \in Req : h \in live[q]} /\ entry'[h] = entry[h]
    BY <1>3 DEF Without
  <2> QED BY ZenonT(30), <1>1, <2>1
<1> QED BY <1>2, <1>3

-----------------------------------------------------------------------------
(* The steps that allocate: pic_alloc_for_extend and its launch, and decode *)

\* pic_alloc_for_extend: evict, allocate for the batch, launch it.
LEMMA LaunchInd ==
  ASSUME IInv, Launch
  PROVE  IInv'
<1> DEFINE V == Oldest(Unlocked(entry, lock), AllocPlan.evict)
           kvBag == Give(kvFree, KVOf(V))
           mbBag == Give(mbFree, MbOf(V))
<1>0. TypeOK
  BY DEF IInv
<1>1. V \subseteq Unlocked(entry, lock) /\ V \subseteq Seg
  BY DEF Oldest, Unlocked, Cached
<1>2. kvBag \in [KV -> Nat] /\ mbBag \in [Mamba -> Nat]
  BY <1>0, <1>1, EvictPools
<1>3. PICK f \in Alloc(kvBag, SlotNeeds), g \in Alloc(mbBag, PoolNeeds \cup SegNeeds) :
        /\ kvFree' = Take(kvBag, f) /\ mbFree' = Take(mbBag, g)
        /\ kv' = [r \in Req |-> IF r \in Admitted
                                  THEN [t \in KVNeeds(r) |-> f[<<r, t>>]] ELSE kv[r]]
        /\ mb' = [r \in Req |-> IF r \in Admitted
                                  THEN [t \in {PoolTag} \cup MbNeeds(r) |-> g[<<r, t>>]]
                                  ELSE mb[r]]
  BY ZenonT(30) DEF Launch
<1>4. /\ entry' = Without(entry, V) /\ lock' = lock
      /\ older' = older \cap (Cached(entry') \X Cached(entry'))
      /\ live' = [r \in Req |-> live[r] \ V]
      /\ inflKV' = inflKV + Cardinality(SlotNeeds)
      /\ inflMb' = inflMb + Cardinality(SegNeeds)
      /\ phase' = [r \in Req |-> IF r \in Admitted THEN "running" ELSE phase[r]]
      /\ launched' = Append(launched, Admitted) /\ loop' = AfterLaunch(launched')
      /\ prompt' = prompt /\ hit' = hit
  BY DEF Launch
<1>5. /\ f \in [SlotNeeds -> KV] /\ Fits(kvBag, f)
      /\ g \in [PoolNeeds \cup SegNeeds -> Mamba] /\ Fits(mbBag, g)
  BY <1>2, <1>3 DEF Alloc
<1>6. IsFiniteSet(SlotNeeds) /\ IsFiniteSet(SegNeeds) /\ IsFiniteSet(PoolNeeds \cup SegNeeds)
  BY ZenonT(30), <1>0, BatchNeedsFinite, FS_Union
<1>7. kvFree' \in [KV -> Nat] /\ mbFree' \in [Mamba -> Nat]
  <2>1. IsFiniteSet(DOMAIN f) /\ IsFiniteSet(DOMAIN g)
    BY <1>5, <1>6
  <2> HIDE DEF kvBag, mbBag
  <2> QED BY <1>2, <1>3, <1>5, <2>1, TakeType
<1> HIDE DEF V, kvBag, mbBag
<1>8. Admitted \subseteq Req /\ Batch' = Batch \cup Admitted /\ Batch \cap Admitted = {}
  BY <1>4 DEF Admitted, Batch
<1>9. \A r \in Req : KVNeeds(r)' = KVNeeds(r) /\ MbNeeds(r)' = MbNeeds(r) /\ Pos(r)' = Pos(r)
  BY <1>4 DEF KVNeeds, MbNeeds, Pos, Miss, IsQuery, IsShort, Multi
<1>10. \A r \in Req : /\ kv'[r] \in [DOMAIN kv'[r] -> KV] /\ DOMAIN kv'[r] \subseteq Tags
                      /\ mb'[r] \in [DOMAIN mb'[r] -> Mamba] /\ DOMAIN mb'[r] \subseteq Tags
                      /\ IsFiniteSet(DOMAIN kv'[r]) /\ IsFiniteSet(DOMAIN mb'[r])
  <2> SUFFICES ASSUME NEW r \in Req
               PROVE  /\ kv'[r] \in [DOMAIN kv'[r] -> KV] /\ DOMAIN kv'[r] \subseteq Tags
                      /\ mb'[r] \in [DOMAIN mb'[r] -> Mamba] /\ DOMAIN mb'[r] \subseteq Tags
                      /\ IsFiniteSet(DOMAIN kv'[r]) /\ IsFiniteSet(DOMAIN mb'[r])
    OBVIOUS
  <2>1. CASE r \notin Admitted
    <3>1. kv'[r] = kv[r] /\ mb'[r] = mb[r]
      BY <1>3, <2>1
    <3> QED BY <3>1 DEF IInv, TypeOK, Shape
  <2>2. CASE r \in Admitted
    <3>1. /\ kv'[r] = [t \in KVNeeds(r) |-> f[<<r, t>>]]
          /\ mb'[r] = [t \in {PoolTag} \cup MbNeeds(r) |-> g[<<r, t>>]]
      BY <1>3, <2>2
    <3>2. \A t \in KVNeeds(r) : <<r, t>> \in SlotNeeds
      BY SMTT(30), <2>2 DEF SlotNeeds
    <3>3. \A t \in {PoolTag} \cup MbNeeds(r) : <<r, t>> \in PoolNeeds \cup SegNeeds
      BY SMTT(30), <2>2 DEF PoolNeeds, SegNeeds
    <3>4. PoolTag \in Tags
      BY DEF PoolTag, Tags
    <3>5. IsFiniteSet({PoolTag} \cup MbNeeds(r)) /\ IsFiniteSet(KVNeeds(r))
      BY ZenonT(30), <1>0, NeedsFinite, FS_Union, FS_Singleton
    <3>6. KVNeeds(r) \subseteq Tags /\ MbNeeds(r) \subseteq Tags
      BY <1>0, NeedsFinite
    <3> QED BY <1>5, <3>1, <3>2, <3>3, <3>4, <3>5, <3>6
  <2> QED BY <2>1, <2>2
<1>11. launched' \in Seq(SUBSET Req) /\ launched' # <<>>
       /\ \A i \in DOMAIN launched' : launched'[i] = Admitted \/ (i \in DOMAIN launched /\ launched'[i] = launched[i])
  BY SMTT(30), <1>4, <1>8 DEF IInv, TypeOK
<1>12. TypeOK'
  <2>1. inflKV' \in Nat /\ inflMb' \in Nat
    BY SMTT(30), <1>4, <1>6, FS_CardinalityType DEF IInv, TypeOK
  <2>2. entry' \in [Seg -> [kv : KV, mb : Mamba] \cup {None}]
    BY <1>0, <1>1, <1>4, EvictPools
  <2>3. loop' \in {"form", "results"}
    BY <1>4 DEF AfterLaunch
  <2>4. lock' \in [Seg -> Nat] /\ older' \subseteq Seg \X Seg
        /\ phase' \in [Req -> {"idle", "waiting", "admitted", "running", "decoding"}]
        /\ prompt' \in [Req -> Prompts \cup {NoPrompt}] /\ hit' \in [Req -> SUBSET Nat]
        /\ live' \in [Req -> SUBSET Seg]
    BY <1>0, <1>4 DEF TypeOK
  <2>5. DOMAIN kv' = Req /\ DOMAIN mb' = Req
    BY ZenonT(30), <1>3
  <2> QED BY ZenonT(30), <1>7, <1>10, <1>11, <2>1, <2>2, <2>3, <2>4, <2>5 DEF TypeOK
<1>13. Shape'
  BY <1>4, <1>9, <1>10, <1>8 DEF IInv, Shape, TypeOK, Admitted
<1>14. Holding'
  <2> SUFFICES ASSUME NEW r \in Batch'
               PROVE  KVNeeds(r)' \subseteq DOMAIN kv'[r] /\ MbNeeds(r)' \subseteq DOMAIN mb'[r]
    BY DEF Holding
  <2>1. r \in Req
    BY DEF Batch
  <2>2. CASE r \in Admitted
    BY <1>3, <1>9, <2>1, <2>2
  <2>3. CASE r \notin Admitted
    BY <1>3, <1>8, <1>9, <2>1, <2>3 DEF IInv, Holding
  <2> QED BY <2>2, <2>3
<1>15. Queue'
  BY <1>8, <1>11 DEF IInv, Queue
<1>16. NoLockLeak'
  BY <1>1, <1>4, EvictLocks
<1> QED BY <1>12, <1>13, <1>14, <1>15, <1>16 DEF IInv

\* A decode step: one more slot per running request, evicting for them if needed.
LEMMA DecodeStepInd ==
  ASSUME IInv, DecodeStep
  PROVE  IInv'
<1> DEFINE n == Cardinality(Batch)
           V == IF Avail(kvFree) < n THEN Oldest(Unlocked(entry, lock), n) ELSE {}
           bag == Give(kvFree, KVOf(V))
           D == {<<r, DecTag(r)>> : r \in Batch}
<1>0. TypeOK
  BY DEF IInv
<1>1. V \subseteq Unlocked(entry, lock) /\ V \subseteq Seg
  BY DEF Oldest, Unlocked, Cached
<1>2. bag \in [KV -> Nat] /\ Give(mbFree, MbOf(V)) \in [Mamba -> Nat]
  BY ZenonT(30), <1>0, <1>1, EvictPools
<1>3. PICK f \in Alloc(bag, D) :
        /\ kvFree' = Take(bag, f)
        /\ kv' = [r \in Req |-> IF r \in Batch
                                  THEN [t \in DOMAIN kv[r] \cup {DecTag(r)} |->
                                          IF t = DecTag(r) THEN f[<<r, t>>] ELSE kv[r][t]]
                                  ELSE kv[r]]
  BY ZenonT(30) DEF DecodeStep
<1>4. /\ entry' = Without(entry, V) /\ lock' = lock
      /\ older' = older \cap (Cached(entry') \X Cached(entry'))
      /\ live' = [r \in Req |-> live[r] \ V]
      /\ launched' = Append(launched, Batch) /\ loop' = AfterLaunch(launched')
      /\ mbFree' = Give(mbFree, MbOf(V))
      /\ UNCHANGED <<inflKV, inflMb, phase, prompt, hit, mb>>
  BY DEF DecodeStep
<1>5. f \in [D -> KV] /\ Fits(bag, f)
  BY <1>2, <1>3 DEF Alloc
<1>6. IsFiniteSet(D)
  <2> DEFINE p == [r \in Batch |-> <<r, DecTag(r)>>]
  <2>1. IsFiniteSet(Batch)
    BY SegAssumption, FS_Subset DEF Batch
  <2>2. D = {p[r] : r \in Batch} /\ DOMAIN p = Batch
    OBVIOUS
  <2> HIDE DEF p, D
  <2> QED BY <2>1, <2>2, FiniteImage
<1>7. kvFree' \in [KV -> Nat]
  <2>1. IsFiniteSet(DOMAIN f)
    BY <1>5, <1>6
  <2> HIDE DEF bag, D
  <2> QED BY <1>2, <1>3, <1>5, <2>1, TakeType
<1> HIDE DEF V, bag
<1>8. \A r \in Req : /\ kv'[r] \in [DOMAIN kv'[r] -> KV] /\ DOMAIN kv'[r] \subseteq Tags
                     /\ IsFiniteSet(DOMAIN kv'[r]) /\ DOMAIN kv[r] \subseteq DOMAIN kv'[r]
  <2> SUFFICES ASSUME NEW r \in Req
               PROVE  /\ kv'[r] \in [DOMAIN kv'[r] -> KV] /\ DOMAIN kv'[r] \subseteq Tags
                      /\ IsFiniteSet(DOMAIN kv'[r]) /\ DOMAIN kv[r] \subseteq DOMAIN kv'[r]
    OBVIOUS
  <2>0. kv[r] \in [DOMAIN kv[r] -> KV] /\ DOMAIN kv[r] \subseteq Tags /\ IsFiniteSet(DOMAIN kv[r])
    BY DEF IInv, TypeOK, Shape
  <2>1. CASE r \notin Batch
    BY <1>3, <2>0, <2>1
  <2>2. CASE r \in Batch
    <3>1. kv'[r] = [t \in DOMAIN kv[r] \cup {DecTag(r)} |->
                      IF t = DecTag(r) THEN f[<<r, t>>] ELSE kv[r][t]]
      BY <1>3, <2>2
    <3>2. DecTag(r) \in Tags
      <4>1. Cardinality(Decs(r)) \in Nat
        BY <2>0, FS_Subset, FS_CardinalityType DEF Decs
      <4> QED BY SMTT(30), <4>1 DEF DecTag, Tags
    <3>3. IsFiniteSet(DOMAIN kv[r] \cup {DecTag(r)})
      BY ZenonT(30), <2>0, FS_Singleton, FS_Union
    <3>4. f[<<r, DecTag(r)>>] \in KV
      BY <1>5, <2>2
    <3> QED BY <2>0, <3>1, <3>2, <3>3, <3>4
  <2> QED BY <2>1, <2>2
<1>9. Batch' = Batch /\ Batch \subseteq Req
  BY <1>4 DEF Batch
<1>10. launched' \in Seq(SUBSET Req) /\ launched' # <<>>
       /\ \A i \in DOMAIN launched' : launched'[i] = Batch \/ (i \in DOMAIN launched /\ launched'[i] = launched[i])
  <2>1. launched \in Seq(SUBSET Req) /\ Batch \in SUBSET Req
    BY <1>0, <1>9 DEF TypeOK
  <2>2. launched' = Append(launched, Batch)
    BY ZenonT(30), <1>4
  <2> HIDE DEF D, n
  <2> QED BY SMTT(30), <2>1, <2>2
<1>11. TypeOK'
  <2>1. entry' \in [Seg -> [kv : KV, mb : Mamba] \cup {None}]
    BY ZenonT(30), <1>0, <1>1, <1>4, EvictPools
  <2>2. loop' \in {"form", "results"}
    BY ZenonT(30), <1>4 DEF AfterLaunch
  <2>3. lock' \in [Seg -> Nat] /\ older' \subseteq Seg \X Seg /\ live' \in [Req -> SUBSET Seg]
    BY ZenonT(30), <1>0, <1>4 DEF TypeOK
  <2>4. DOMAIN kv' = Req
    BY <1>3
  <2> QED BY ZenonT(30), <1>0, <1>2, <1>4, <1>7, <1>8, <1>10, <2>1, <2>2, <2>3, <2>4 DEF TypeOK
<1>12. Shape'
  BY <1>4, <1>8 DEF IInv, Shape, Pos
<1>13. Holding'
  BY <1>4, <1>8, <1>9 DEF IInv, Holding, KVNeeds, MbNeeds, Pos, Miss, IsQuery, IsShort, Multi
<1>14. Queue'
  BY ZenonT(30), <1>9, <1>10 DEF IInv, Queue
<1>15. NoLockLeak'
  BY <1>1, <1>4, EvictLocks
<1> QED BY <1>11, <1>12, <1>13, <1>14, <1>15 DEF IInv

----------------------------------------------------------------------------
(* Registering *)

\* What registering the missed segments of a running request does to the index
\* and the pools: only absent segments get an entry, found duplicates are freed.
LEMMA RegisterEffect ==
  ASSUME IInv, NEW r \in Batch, NEW M, M = Cacheable(r)
  PROVE  /\ M \subseteq Pos(r) /\ IsFiniteSet(M) /\ Segs(r, M) \subseteq Seg
         /\ Registered(r, M) \in [Seg -> [kv : KV, mb : Mamba] \cup {None}]
         /\ Give(kvFree, DupKV(r, M)) \in [KV -> Nat]
         /\ Give(mbFree, DupMb(r, M)) \in [Mamba -> Nat]
         /\ \A h \in Segs(r, NewlyOwned(r, M)) : /\ h \in Segs(r, M) /\ lock[h] = 0
                                                 /\ Registered(r, M)[h] # None
         /\ \A h \in Seg \ Segs(r, NewlyOwned(r, M)) : Registered(r, M)[h] = entry[h]
<1>0. TypeOK /\ r \in Req
  BY DEF IInv, Batch
<1>1. /\ IsFiniteSet(Pos(r)) /\ Pos(r) \subseteq Nat
      /\ \A i \in Pos(r) : prompt[r][i] \in Seg
  BY <1>0, PosFinite
<1>2. M \subseteq Pos(r) /\ IsFiniteSet(M) /\ Segs(r, M) \subseteq Seg
  <2>1. M \subseteq Pos(r)
    BY DEF Cacheable, Miss
  <2> QED BY <1>1, <2>1, FS_Subset DEF Segs
<1>3. NewlyOwned(r, M) \subseteq M
  BY DEF NewlyOwned
<1>4. \A i \in M : [kv |-> kv[r][EntryTag(i)], mb |-> mb[r][SegTag(i)]] \in [kv : KV, mb : Mamba]
  <2> SUFFICES ASSUME NEW i \in M
               PROVE  kv[r][EntryTag(i)] \in KV /\ mb[r][SegTag(i)] \in Mamba
    OBVIOUS
  <2>1. KVNeeds(r) \subseteq DOMAIN kv[r] /\ MbNeeds(r) \subseteq DOMAIN mb[r]
    BY DEF IInv, Holding
  <2>2. EntryTag(i) \in KVNeeds(r)
    BY DEF EntryTag, EntryKind, KVNeeds, Cacheable
  <2>3. SegTag(i) \in MbNeeds(r)
    BY DEF SegTag, MbNeeds, Cacheable
  <2>4. kv[r] \in [DOMAIN kv[r] -> KV] /\ mb[r] \in [DOMAIN mb[r] -> Mamba]
    BY <1>0 DEF TypeOK
  <2> QED BY <2>1, <2>2, <2>3, <2>4
<1>5. \A h \in Seg : IF h \in Segs(r, NewlyOwned(r, M))
                       THEN Registered(r, M)[h] \in [kv : KV, mb : Mamba]
                       ELSE Registered(r, M)[h] = entry[h]
  <2> SUFFICES ASSUME NEW h \in Seg
               PROVE  IF h \in Segs(r, NewlyOwned(r, M))
                        THEN Registered(r, M)[h] \in [kv : KV, mb : Mamba]
                        ELSE Registered(r, M)[h] = entry[h]
    OBVIOUS
  <2> DEFINE j == CHOOSE k \in NewlyOwned(r, M) : prompt[r][k] = h
  <2>1. CASE h \in Segs(r, NewlyOwned(r, M))
    <3>1. j \in NewlyOwned(r, M)
      BY <2>1 DEF Segs
    <3>2. Registered(r, M)[h] = [kv |-> kv[r][EntryTag(j)], mb |-> mb[r][SegTag(j)]]
      BY <2>1 DEF Segs, Registered
    <3> HIDE DEF j
    <3> QED BY <1>3, <1>4, <2>1, <3>1, <3>2
  <2>2. CASE h \notin Segs(r, NewlyOwned(r, M))
    BY <2>2 DEF Segs, Registered
  <2> QED BY <2>1, <2>2
<1>6. Registered(r, M) \in [Seg -> [kv : KV, mb : Mamba] \cup {None}]
  <2>1. \E e : Registered(r, M) = [h \in Seg |-> e[h]]
    <3> DEFINE e == Registered(r, M)
    <3>1. e = [h \in Seg |-> e[h]]
      BY DEF Registered
    <3> QED BY <3>1
  <2> QED BY <1>0, <1>5, <2>1 DEF TypeOK
<1>7. \A h \in Segs(r, NewlyOwned(r, M)) : h \in Segs(r, M) /\ lock[h] = 0
  <2> SUFFICES ASSUME NEW i \in NewlyOwned(r, M)
               PROVE  prompt[r][i] \in Segs(r, M) /\ lock[prompt[r][i]] = 0
    BY DEF Segs
  <2>1. prompt[r][i] \in Segs(r, M) /\ entry[prompt[r][i]] = None
    BY <1>3 DEF Segs, NewlyOwned
  <2>2. lock[prompt[r][i]] \in Nat /\ ~(lock[prompt[r][i]] > 0)
    BY ZenonT(30), <1>0, <1>2, <2>1 DEF IInv, NoLockLeak, TypeOK
  <2> QED BY SMTT(30), <2>1, <2>2
<1>8. Give(kvFree, DupKV(r, M)) \in [KV -> Nat] /\ Give(mbFree, DupMb(r, M)) \in [Mamba -> Nat]
  <2>1. IsFiniteSet(M \ NewlyOwned(r, M))
    BY <1>2, FS_Subset
  <2>2. \A k : IsFiniteSet({k} \X (M \ NewlyOwned(r, M)))
    BY ZenonT(30), <2>1, FS_Singleton, FS_Product
  <2>3. IsFiniteSet(DOMAIN DupKV(r, M)) /\ IsFiniteSet(DOMAIN DupMb(r, M))
    BY ZenonT(30), <2>2 DEF DupKV, DupMb, Restrict
  <2>4. kvFree \in [KV -> Nat] /\ mbFree \in [Mamba -> Nat]
    BY <1>0 DEF TypeOK
  <2> QED BY <2>3, <2>4, GiveType
<1>9. \A h \in Segs(r, NewlyOwned(r, M)) : Registered(r, M)[h] # None
  BY <1>2, <1>5, <1>7, SegAssumption
<1> QED BY <1>2, <1>5, <1>6, <1>7, <1>8, <1>9

\* A prefill result of a request that goes on: cache_unfinished_req.
LEMMA PrefillContinueInd ==
  ASSUME IInv, NEW r \in Req, PrefillContinue(r)
  PROVE  IInv'
<1> DEFINE M == Cacheable(r)
           N == Segs(r, NewlyOwned(r, M))
<1>0. TypeOK /\ r \in Batch
  BY DEF IInv, Batch, PrefillContinue
<1>1. /\ entry' = Registered(r, M) /\ lock' = LockNew(r, M)
      /\ older' = Accessed(prompt[r], M, Cached(entry'))
      /\ kvFree' = Give(kvFree, DupKV(r, M)) /\ mbFree' = Give(mbFree, DupMb(r, M))
      /\ inflKV' = IF Transition THEN Sub(inflKV, Cardinality(M)) ELSE inflKV
      /\ inflMb' = IF Transition THEN Sub(inflMb, Cardinality(M)) ELSE inflMb
      /\ live' = [live EXCEPT ![r] = @ \cup Segs(r, M)]
      /\ phase' = [phase EXCEPT ![r] = "decoding"]
      /\ launched' = [launched EXCEPT ![1] = @ \ {r}]
      /\ UNCHANGED <<prompt, hit, kv, mb, loop>> /\ loop = "results" /\ phase[r] = "running"
  BY DEF PrefillContinue
<1>2. /\ IsFiniteSet(M) /\ Segs(r, M) \subseteq Seg
      /\ Registered(r, M) \in [Seg -> [kv : KV, mb : Mamba] \cup {None}]
      /\ Give(kvFree, DupKV(r, M)) \in [KV -> Nat]
      /\ Give(mbFree, DupMb(r, M)) \in [Mamba -> Nat]
      /\ \A h \in N : h \in Segs(r, M) /\ lock[h] = 0 /\ Registered(r, M)[h] # None
      /\ \A h \in Seg \ N : Registered(r, M)[h] = entry[h]
  BY SMTT(30), <1>0, RegisterEffect
<1> HIDE DEF M
<1>3. lock' = [h \in Seg |-> IF Transition /\ h \in N THEN lock[h] + 1 ELSE lock[h]]
  BY <1>1 DEF LockNew
<1> HIDE DEF N
<1>4. /\ launched' \in Seq(SUBSET Req) /\ launched' # <<>>
      /\ \A i \in DOMAIN launched' : i \in DOMAIN launched /\ launched'[i] \subseteq launched[i]
  BY <1>1, HeadRemoved
<1>5. Batch' = Batch
  BY ZenonT(30), <1>0, <1>1 DEF Batch, TypeOK
<1>6. TypeOK'
  <2>1. older' \subseteq Seg \X Seg
    BY <1>1 DEF Accessed, Cached
  <2>2. inflKV' \in Nat /\ inflMb' \in Nat
    <3>1. Cardinality(M) \in Nat /\ inflKV \in Nat /\ inflMb \in Nat
      BY <1>0, <1>2, FS_CardinalityType DEF TypeOK
    <3> QED BY <1>1, <3>1, SubType
  <2>3. lock' \in [Seg -> Nat]
    BY SMTT(30), <1>0, <1>3 DEF TypeOK
  <2>4. /\ live' \in [Req -> SUBSET Seg]
        /\ phase' \in [Req -> {"idle", "waiting", "admitted", "running", "decoding"}]
    BY ZenonT(30), <1>0, <1>1, <1>2 DEF TypeOK
  <2> QED BY ZenonT(30), <1>0, <1>1, <1>2, <1>4, <2>1, <2>2, <2>3, <2>4 DEF TypeOK
<1>7. Shape'
  BY ZenonT(30), <1>0, <1>1 DEF IInv, Shape, Pos, TypeOK
<1>8. Holding'
  BY <1>1, <1>5 DEF IInv, Holding, KVNeeds, MbNeeds, Pos, Miss, IsQuery, IsShort, Multi
<1>9. Queue'
  BY <1>4, <1>5 DEF IInv, Queue
<1>10. NoLockLeak'
  <2> SUFFICES ASSUME NEW h \in Seg
               PROVE  /\ lock'[h] <= Cardinality({q \in Req : h \in live'[q]})
                      /\ lock'[h] > 0 => entry'[h] # None
    BY DEF NoLockLeak
  <2> DEFINE A == {q \in Req : h \in live[q]}
             B == {q \in Req : h \in live'[q]}
  <2>1. lock[h] <= Cardinality(A) /\ (lock[h] > 0 => entry[h] # None) /\ lock[h] \in Nat
    BY ZenonT(30) DEF IInv, NoLockLeak, TypeOK
  <2>2. /\ IsFiniteSet(A) /\ Cardinality(A) \in Nat
        /\ IsFiniteSet(B) /\ Cardinality(B) \in Nat
    BY ZenonT(30), HoldersFinite
  <2>3. A \subseteq B /\ (h \in Segs(r, M) => r \in B)
    BY <1>0, <1>1, <1>2 DEF TypeOK
  <2>4. Cardinality(A) <= Cardinality(B)
    <3> HIDE DEF A, B
    <3> QED BY <2>2, <2>3, FS_Subset
  <2>5. r \in B => Cardinality(B) >= 1
    <3> HIDE DEF A, B
    <3> QED BY SMTT(30), <2>2, FS_EmptySet
  <2>6. CASE h \in N
    <3>1. lock'[h] <= 1 /\ entry'[h] # None /\ r \in B
      BY SMTT(30), <1>1, <1>2, <1>3, <2>3, <2>6
    <3>2. lock'[h] \in Nat
      BY <1>6 DEF TypeOK
    <3> QED BY SMTT(30), <2>2, <2>5, <3>1, <3>2
  <2>7. CASE h \notin N
    <3>1. lock'[h] = lock[h] /\ entry'[h] = entry[h]
      BY <1>1, <1>2, <1>3, <2>7
    <3> QED BY SMTT(30), <2>1, <2>2, <2>4, <3>1
  <2> QED BY <2>6, <2>7
<1> QED BY <1>6, <1>7, <1>8, <1>9, <1>10 DEF IInv

----------------------------------------------------------------------------
(* Releasing *)

\* The fields of a request whose slots were given back, and the queue without it.
LEMMA Released ==
  ASSUME IInv, NEW r \in Batch, NEW ph \in {"idle", "waiting"},
         NEW p \in Prompts \cup {NoPrompt}, Cleared(r, ph, p), launched' = Drop(r),
         live' \in [Req -> SUBSET Seg], live'[r] = {}, \A q \in Req : live'[q] \subseteq live[q],
         loop' = "results" => launched # <<>>
  PROVE  /\ Shape' /\ Holding' /\ Queue'
         /\ phase' \in [Req -> {"idle", "waiting", "admitted", "running", "decoding"}]
         /\ prompt' \in [Req -> Prompts \cup {NoPrompt}] /\ hit' \in [Req -> SUBSET Nat]
         /\ DOMAIN kv' = Req /\ DOMAIN mb' = Req
         /\ \A q \in Req : /\ kv'[q] \in [DOMAIN kv'[q] -> KV] /\ DOMAIN kv'[q] \subseteq Tags
                           /\ mb'[q] \in [DOMAIN mb'[q] -> Mamba] /\ DOMAIN mb'[q] \subseteq Tags
         /\ launched' \in Seq(SUBSET Req)
<1>0. TypeOK /\ r \in Req
  BY DEF IInv, Batch
<1>1. /\ phase' = [phase EXCEPT ![r] = ph] /\ prompt' = [prompt EXCEPT ![r] = p]
      /\ hit' = [hit EXCEPT ![r] = {}]
  BY DEF Cleared
<1>2. \A q \in Req : /\ kv'[q] = IF q = r THEN NoSlots ELSE kv[q]
                     /\ mb'[q] = IF q = r THEN NoSlots ELSE mb[q]
  BY <1>0 DEF Cleared, TypeOK
<1>12. DOMAIN kv' = Req /\ DOMAIN mb' = Req
  BY <1>0 DEF Cleared, TypeOK
<1>3. DOMAIN NoSlots = {} /\ NoSlots \in [{} -> KV] /\ NoSlots \in [{} -> Mamba] /\ IsFiniteSet({})
  BY FS_EmptySet DEF NoSlots
<1>4. Batch' = Batch \ {r}
  BY <1>0, <1>1 DEF Batch, TypeOK
<1>5. /\ launched' \in Seq(SUBSET Req) /\ (launched' = <<>> <=> launched = <<>>)
      /\ DOMAIN launched' = DOMAIN launched
      /\ \A i \in DOMAIN launched : launched'[i] = launched[i] \ {r}
  BY <1>0, DropType DEF TypeOK
<1>6. /\ phase' \in [Req -> {"idle", "waiting", "admitted", "running", "decoding"}]
      /\ prompt' \in [Req -> Prompts \cup {NoPrompt}] /\ hit' \in [Req -> SUBSET Nat]
  BY ZenonT(30), <1>0, <1>1 DEF TypeOK
<1>7. \A q \in Req : /\ kv'[q] \in [DOMAIN kv'[q] -> KV] /\ DOMAIN kv'[q] \subseteq Tags
                     /\ mb'[q] \in [DOMAIN mb'[q] -> Mamba] /\ DOMAIN mb'[q] \subseteq Tags
                     /\ IsFiniteSet(DOMAIN kv'[q]) /\ IsFiniteSet(DOMAIN mb'[q])
  BY ZenonT(30), <1>0, <1>2, <1>3 DEF IInv, TypeOK, Shape
<1>8. \A q \in Req \ {r} : prompt'[q] = prompt[q] /\ hit'[q] = hit[q] /\ phase'[q] = phase[q]
  BY <1>0, <1>1 DEF TypeOK
<1>9. Shape'
  <2> SUFFICES ASSUME NEW q \in Req
               PROVE  /\ hit'[q] \subseteq Pos(q)'
                      /\ phase'[q] \in {"idle", "waiting"} => live'[q] = {} /\ hit'[q] = {}
    BY <1>7 DEF Shape
  <2>1. CASE q = r
    BY ZenonT(30), <1>0, <1>1, <2>1 DEF TypeOK
  <2>2. CASE q # r
    BY <1>8, <2>2 DEF IInv, Shape, Pos
  <2> QED BY <2>1, <2>2
<1>10. Holding'
  <2> SUFFICES ASSUME NEW q \in Batch'
               PROVE  KVNeeds(q)' \subseteq DOMAIN kv'[q] /\ MbNeeds(q)' \subseteq DOMAIN mb'[q]
    BY DEF Holding
  <2>1. q \in Batch /\ q # r /\ q \in Req
    BY <1>4 DEF Batch
  <2>2. KVNeeds(q)' = KVNeeds(q) /\ MbNeeds(q)' = MbNeeds(q)
    BY ZenonT(30), <1>8, <2>1 DEF KVNeeds, MbNeeds, Pos, Miss, IsQuery, IsShort, Multi
  <2> QED BY <1>2, <2>1, <2>2 DEF IInv, Holding
<1>11. Queue'
  BY SMTT(30), <1>4, <1>5 DEF IInv, Queue
<1> QED BY <1>12, <1>5, <1>6, <1>7, <1>9, <1>10, <1>11

\* What the end of a request frees, and the amount that leaves the inflight counters.
LEMMA EndType ==
  ASSUME TypeOK, Shape, NEW r \in Req, NEW M, IsFiniteSet(M)
  PROVE  /\ IsFiniteSet(DOMAIN EndKV(r)) /\ IsFiniteSet(DOMAIN EndMb(r))
         /\ EndInflKV(r, M) \in Nat /\ EndInflMb(r, M) \in Nat
<1>1. IsFiniteSet(Pos(r))
  BY PosFinite
<1>2. /\ EndFreed(r) \subseteq Pos(r) /\ Miss(r) \subseteq Pos(r)
      /\ {i \in Pos(r) : IsQuery(r, i)} \subseteq Pos(r)
  BY DEF EndFreed, Miss
<1>3. IsFiniteSet(EndFreed(r)) /\ IsFiniteSet(Miss(r)) /\ IsFiniteSet({i \in Pos(r) : IsQuery(r, i)})
  BY <1>1, <1>2, FS_Subset
<1>4. IsFiniteSet(Decs(r)) /\ IsFiniteSet(DOMAIN mb[r] \ {PoolTag})
  BY FS_Subset DEF Decs, Shape
<1>5. /\ IsFiniteSet({"priv"} \X EndFreed(r))
      /\ IsFiniteSet({"seg"} \X {i \in Pos(r) : IsQuery(r, i)}) /\ IsFiniteSet({PoolTag})
  BY ZenonT(30), <1>3, FS_Singleton, FS_Product
<1>6. /\ IsFiniteSet(({"priv"} \X EndFreed(r)) \cup Decs(r))
      /\ IsFiniteSet({PoolTag} \cup ({"seg"} \X {i \in Pos(r) : IsQuery(r, i)}))
  BY ZenonT(30), <1>4, <1>5, FS_Union
<1>7. IsFiniteSet(DOMAIN EndKV(r)) /\ IsFiniteSet(DOMAIN EndMb(r))
  BY <1>6 DEF EndKV, EndMb, Restrict
<1>8. /\ Cardinality(M) \in Nat /\ Cardinality(EndFreed(r)) \in Nat
      /\ Cardinality(Miss(r)) \in Nat /\ Cardinality(DOMAIN mb[r] \ {PoolTag}) \in Nat
  BY <1>3, <1>4, FS_CardinalityType
<1> QED BY SMTT(30), <1>7, <1>8 DEF EndInflKV, EndInflMb

\* When r lets go of an entry and its lock_ref goes down unless it is 0, the
\* remaining locks are still accounted for by the remaining holders.
LEMMA HolderGone ==
  ASSUME IInv, NEW r \in Req, NEW h \in Seg, NEW l \in Nat,
         \/ l = 0
         \/ h \in live[r] /\ lock[h] > 0 /\ l = lock[h] - 1
         \/ h \notin live[r] /\ l <= lock[h]
  PROVE  l <= Cardinality({q \in Req : h \in live[q]} \ {r})
<1> DEFINE A == {q \in Req : h \in live[q]}
<1>1. lock[h] <= Cardinality(A) /\ lock[h] \in Nat
  BY DEF IInv, NoLockLeak, TypeOK
<1>2. IsFiniteSet(A) /\ Cardinality(A) \in Nat
  BY HoldersFinite
<1>3. h \in live[r] <=> r \in A
  OBVIOUS
<1> SUFFICES l <= Cardinality(A \ {r})
  OBVIOUS
<1> HIDE DEF A
<1>4. CASE r \in A
  <2>1. Cardinality(A \ {r}) = Cardinality(A) - 1
    BY ZenonT(30), <1>2, <1>4, FS_RemoveElement
  <2>2. Cardinality(A \ {r}) \in Nat
    BY <1>2, FS_RemoveElement, FS_CardinalityType
  <2> QED BY SMTT(30), <1>1, <1>2, <1>3, <1>4, <2>1, <2>2
<1>5. CASE r \notin A
  <2>1. A \ {r} = A
    BY <1>5
  <2>2. Cardinality(A \ {r}) = Cardinality(A)
    BY <2>1, Zenon
  <2>3. l <= lock[h]
    BY SMTT(30), <1>1, <1>3, <1>5
  <2> QED BY SMTT(30), <1>1, <1>2, <2>2, <2>3
<1> QED BY <1>4, <1>5

-----------------------------------------------------------------------------
(* Every step, and the first two theorems *)

\* A result that ends its request: register once more, free, unlock.
LEMMA FinishInd ==
  ASSUME IInv, NEW r \in Req, Finish(r)
  PROVE  IInv'
<1> DEFINE M == Cacheable(r)
           N == Segs(r, NewlyOwned(r, M))
<1>0. TypeOK /\ Shape /\ r \in Batch
  <2>1. launched \in Seq(SUBSET Req) /\ launched # <<>> /\ r \in Head(launched)
    BY DEF IInv, TypeOK, Queue, Finish
  <2>2. 1 \in DOMAIN launched /\ r \in launched[1]
    BY SMTT(30), <2>1
  <2> QED BY <2>2 DEF IInv, Queue
<1>1. /\ entry' = Registered(r, M) /\ lock' = Dec(LockNew(r, M), live[r] \cup Segs(r, M))
      /\ older' = Accessed(prompt[r], M, Cached(entry'))
      /\ kvFree' = Give(Give(kvFree, DupKV(r, M)), EndKV(r))
      /\ mbFree' = Give(Give(mbFree, DupMb(r, M)), EndMb(r))
      /\ inflKV' = Sub(inflKV, EndInflKV(r, M)) /\ inflMb' = Sub(inflMb, EndInflMb(r, M))
      /\ live' = [live EXCEPT ![r] = {}] /\ Cleared(r, "idle", NoPrompt)
      /\ launched' = Drop(r) /\ loop' = loop
  BY DEF Finish
<1>2. /\ IsFiniteSet(M) /\ Segs(r, M) \subseteq Seg
      /\ Registered(r, M) \in [Seg -> [kv : KV, mb : Mamba] \cup {None}]
      /\ Give(kvFree, DupKV(r, M)) \in [KV -> Nat]
      /\ Give(mbFree, DupMb(r, M)) \in [Mamba -> Nat]
      /\ \A h \in N : h \in Segs(r, M) /\ lock[h] = 0 /\ Registered(r, M)[h] # None
      /\ \A h \in Seg \ N : Registered(r, M)[h] = entry[h]
  BY SMTT(30), <1>0, RegisterEffect
<1> HIDE DEF M
<1>3. LockNew(r, M) = [h \in Seg |-> IF Transition /\ h \in N THEN lock[h] + 1 ELSE lock[h]]
  BY DEF LockNew
<1> HIDE DEF N
<1>4. LockNew(r, M) \in [Seg -> Nat]
  BY SMTT(30), <1>0, <1>3 DEF TypeOK
<1>5. lock' \in [Seg -> Nat]
  BY SMTT(30), <1>1, <1>4 DEF Dec
<1>6. /\ live' \in [Req -> SUBSET Seg] /\ live'[r] = {}
      /\ \A q \in Req : live'[q] = IF q = r THEN {} ELSE live[q]
  BY <1>0, <1>1 DEF TypeOK
<1>7. /\ Shape' /\ Holding' /\ Queue'
      /\ phase' \in [Req -> {"idle", "waiting", "admitted", "running", "decoding"}]
      /\ prompt' \in [Req -> Prompts \cup {NoPrompt}] /\ hit' \in [Req -> SUBSET Nat]
      /\ DOMAIN kv' = Req /\ DOMAIN mb' = Req
      /\ \A q \in Req : /\ kv'[q] \in [DOMAIN kv'[q] -> KV] /\ DOMAIN kv'[q] \subseteq Tags
                        /\ mb'[q] \in [DOMAIN mb'[q] -> Mamba] /\ DOMAIN mb'[q] \subseteq Tags
      /\ launched' \in Seq(SUBSET Req)
  <2>1. \A q \in Req : live'[q] \subseteq live[q]
    BY <1>6
  <2>2. loop' = "results" => launched # <<>>
    BY <1>1 DEF IInv, Queue
  <2>3. NoPrompt \in Prompts \cup {NoPrompt} /\ "idle" \in {"idle", "waiting"}
    OBVIOUS
  <2> QED BY <1>0, <1>1, <1>6, <2>1, <2>2, <2>3, Released
<1>8. TypeOK'
  <2>1. older' \subseteq Seg \X Seg
    BY <1>1 DEF Accessed, Cached
  <2>2. kvFree' \in [KV -> Nat] /\ mbFree' \in [Mamba -> Nat]
    BY <1>0, <1>1, <1>2, EndType, GiveType
  <2>3. inflKV' \in Nat /\ inflMb' \in Nat
    <3>1. EndInflKV(r, M) \in Nat /\ EndInflMb(r, M) \in Nat /\ inflKV \in Nat /\ inflMb \in Nat
      BY <1>0, <1>2, EndType DEF TypeOK
    <3> QED BY <1>1, <3>1, SubType
  <2>4. loop' \in {"form", "full", "retract", "results", "down"}
    BY <1>0, <1>1 DEF TypeOK
  <2> QED BY ZenonT(30), <1>1, <1>2, <1>5, <1>6, <1>7, <2>1, <2>2, <2>3, <2>4 DEF TypeOK
<1>9. NoLockLeak'
  <2> SUFFICES ASSUME NEW h \in Seg
               PROVE  /\ lock'[h] <= Cardinality({q \in Req : h \in live'[q]})
                      /\ lock'[h] > 0 => entry'[h] # None
    BY DEF NoLockLeak
  <2>1. {q \in Req : h \in live'[q]} = {q \in Req : h \in live[q]} \ {r}
    BY <1>6
  <2>2. lock'[h] = IF h \in live[r] \cup Segs(r, M) /\ LockNew(r, M)[h] > 0
                     THEN LockNew(r, M)[h] - 1 ELSE LockNew(r, M)[h]
    BY <1>1 DEF Dec
  <2>3. lock'[h] \in Nat /\ lock[h] \in Nat /\ (lock[h] > 0 => entry[h] # None)
    BY ZenonT(30), <1>5 DEF IInv, TypeOK, NoLockLeak
  <2>4. CASE h \in N
    <3>1. lock'[h] = 0
      BY SMTT(30), <1>2, <1>3, <2>2, <2>4
    <3> QED BY SMTT(30), <2>1, <2>3, <3>1, HolderGone
  <2>5. CASE h \notin N
    <3>1. LockNew(r, M)[h] = lock[h] /\ entry'[h] = entry[h]
      BY <1>1, <1>2, <1>3, <2>5
    <3>2. \/ lock'[h] = 0
          \/ h \in live[r] /\ lock[h] > 0 /\ lock'[h] = lock[h] - 1
          \/ h \notin live[r] /\ lock'[h] <= lock[h]
      BY SMTT(30), <2>2, <2>3, <3>1
    <3>3. lock'[h] <= Cardinality({q \in Req : h \in live[q]} \ {r})
      BY <2>3, <3>2, HolderGone
    <3>4. lock'[h] > 0 => lock[h] > 0
      BY SMTT(30), <2>3, <3>2
    <3> QED BY <2>1, <2>3, <3>1, <3>3, <3>4
  <2> QED BY <2>4, <2>5
<1> QED BY <1>7, <1>8, <1>9 DEF IInv

\* One round of retract_decode: evict, release r without inserting, evict again.
LEMMA RetractInd ==
  ASSUME IInv, NEW r \in Req, Retract(r)
  PROVE  IInv'
<1> DEFINE V0 == Unlocked(entry, lock)
           locks == Dec(lock, live[r] \ V0)
           n == (Cardinality(Batch) - 1) * RetractSteps
           bag == Give(Give(kvFree, KVOf(V0)), EndKV(r))
           V1 == IF Avail(bag) < n THEN Oldest(Unlocked(Without(entry, V0), locks), n) ELSE {}
           V == V0 \cup V1
<1>0. TypeOK /\ Shape /\ r \in Batch
  BY ZenonT(30) DEF IInv, Retract
<1>1. /\ entry' = Without(entry, V) /\ lock' = locks
      /\ older' = older \cap (Cached(entry') \X Cached(entry'))
      /\ kvFree' = Give(bag, KVOf(V1))
      /\ mbFree' = Give(Give(mbFree, EndMb(r)), MbOf(V))
      /\ inflKV' = Sub(inflKV, EndInflKV(r, {})) /\ inflMb' = Sub(inflMb, EndInflMb(r, {}))
      /\ live' = [q \in Req |-> IF q = r THEN {} ELSE live[q] \ V]
      /\ launched' = Drop(r)
  BY ZenonT(30) DEF Retract
<1>2. /\ \E ph \in {"idle", "waiting"}, p \in Prompts \cup {NoPrompt} : Cleared(r, ph, p)
      /\ loop' \in {"retract", "form", "results"}
      /\ loop' = "results" => launched # <<>>
  <2>1. prompt[r] \in Prompts \cup {NoPrompt}
    BY ZenonT(30), <1>0 DEF TypeOK
  <2>2. \/ Cleared(r, "waiting", prompt[r]) /\ loop' = "retract"
        \/ Cleared(r, "idle", NoPrompt) /\ loop' = IF launched = <<>> THEN "form" ELSE "results"
    BY ZenonT(30) DEF Retract
  <2> QED BY ZenonT(30), <2>1, <2>2
<1>3. V0 \subseteq Seg /\ V1 \subseteq Seg /\ V \subseteq Seg
  BY DEF Unlocked, Cached, Oldest
<1>4. /\ \A h \in V0 : lock[h] = 0
      /\ \A h \in V1 : locks[h] = 0
  BY DEF Unlocked, Oldest
<1>5. bag \in [KV -> Nat]
  <2>1. Give(kvFree, KVOf(V0)) \in [KV -> Nat]
    BY <1>0, <1>3, EvictPools
  <2>2. IsFiniteSet(DOMAIN EndKV(r))
    BY <1>0, EndType, FS_EmptySet
  <2> QED BY <2>1, <2>2, GiveType
<1> HIDE DEF bag, V0, V1, n
<1>6. kvFree' \in [KV -> Nat] /\ mbFree' \in [Mamba -> Nat]
  <2>1. IsFiniteSet(V1) /\ IsFiniteSet(V)
    BY <1>3, SegAssumption, FS_Subset
  <2>2. IsFiniteSet(DOMAIN KVOf(V1)) /\ IsFiniteSet(DOMAIN MbOf(V))
    BY <2>1 DEF KVOf, MbOf
  <2>3. IsFiniteSet(DOMAIN EndMb(r))
    BY <1>0, EndType, FS_EmptySet
  <2>4. mbFree \in [Mamba -> Nat]
    BY <1>0 DEF TypeOK
  <2>5. Give(mbFree, EndMb(r)) \in [Mamba -> Nat]
    BY <2>3, <2>4, GiveType
  <2> QED BY ZenonT(30), <1>1, <1>5, <2>2, <2>5, GiveType
<1> HIDE DEF V
<1>7. locks \in [Seg -> Nat]
  BY SMTT(30), <1>0 DEF TypeOK, Dec
<1>8. /\ live' \in [Req -> SUBSET Seg] /\ live'[r] = {}
      /\ \A q \in Req : live'[q] \subseteq live[q]
  BY ZenonT(30), <1>0, <1>1 DEF TypeOK
<1>9. /\ Shape' /\ Holding' /\ Queue'
      /\ phase' \in [Req -> {"idle", "waiting", "admitted", "running", "decoding"}]
      /\ prompt' \in [Req -> Prompts \cup {NoPrompt}] /\ hit' \in [Req -> SUBSET Nat]
      /\ DOMAIN kv' = Req /\ DOMAIN mb' = Req
      /\ \A q \in Req : /\ kv'[q] \in [DOMAIN kv'[q] -> KV] /\ DOMAIN kv'[q] \subseteq Tags
                        /\ mb'[q] \in [DOMAIN mb'[q] -> Mamba] /\ DOMAIN mb'[q] \subseteq Tags
      /\ launched' \in Seq(SUBSET Req)
  BY ZenonT(30), <1>0, <1>1, <1>2, <1>8, Released
<1>10. TypeOK'
  <2>1. inflKV' \in Nat /\ inflMb' \in Nat
    <3>1. /\ EndInflKV(r, {}) \in Nat /\ EndInflMb(r, {}) \in Nat
          /\ inflKV \in Nat /\ inflMb \in Nat
      BY ZenonT(30), <1>0, EndType, FS_EmptySet DEF TypeOK
    <3> QED BY ZenonT(30), <1>1, <3>1, SubType
  <2>2. entry' \in [Seg -> [kv : KV, mb : Mamba] \cup {None}]
    BY ZenonT(30), <1>0, <1>1, <1>3, EvictPools
  <2>3. older' \subseteq Seg \X Seg
    BY ZenonT(30), <1>0, <1>1 DEF TypeOK
  <2>4. loop' \in {"form", "full", "retract", "results", "down"} /\ lock' \in [Seg -> Nat]
    BY ZenonT(30), <1>1, <1>2, <1>7
  <2> QED BY ZenonT(30), <1>6, <1>8, <1>9, <2>1, <2>2, <2>3, <2>4 DEF TypeOK
<1>11. NoLockLeak'
  <2> SUFFICES ASSUME NEW h \in Seg
               PROVE  /\ lock'[h] <= Cardinality({q \in Req : h \in live'[q]})
                      /\ lock'[h] > 0 => entry'[h] # None
    BY DEF NoLockLeak
  <2>1. lock'[h] = IF h \in live[r] \ V0 /\ lock[h] > 0 THEN lock[h] - 1 ELSE lock[h]
    BY <1>1 DEF Dec
  <2>2. lock'[h] \in Nat /\ lock[h] \in Nat /\ (lock[h] > 0 => entry[h] # None)
    BY ZenonT(30), <1>1, <1>7 DEF IInv, TypeOK, NoLockLeak
  <2>3. CASE h \in V
    <3>1. lock'[h] = 0
      BY ZenonT(30), <1>1, <1>4, <2>1, <2>3 DEF V
    <3>2. Cardinality({q \in Req : h \in live'[q]}) \in Nat
      BY ZenonT(30), HoldersFinite
    <3> QED BY SMTT(30), <3>1, <3>2
  <2>4. CASE h \notin V
    <3>1. {q \in Req : h \in live'[q]} = {q \in Req : h \in live[q]} \ {r}
      BY <1>1, <2>4
    <3>2. \/ lock'[h] = 0
          \/ h \in live[r] /\ lock[h] > 0 /\ lock'[h] = lock[h] - 1
          \/ h \notin live[r] /\ lock'[h] <= lock[h]
      BY SMTT(30), <2>1, <2>2, <2>4 DEF V
    <3>3. lock'[h] <= Cardinality({q \in Req : h \in live[q]} \ {r})
      BY <2>2, <3>2, HolderGone
    <3>4. entry'[h] = entry[h] /\ (lock'[h] > 0 => lock[h] > 0)
      BY SMTT(30), <1>1, <2>2, <2>4, <3>2 DEF Without
    <3> QED BY ZenonT(30), <2>2, <3>1, <3>3, <3>4
  <2> QED BY <2>3, <2>4
<1> QED BY <1>9, <1>10, <1>11 DEF IInv

----------------------------------------------------------------------------
(* Theorems *)

\* Every step of the engine keeps the invariant.
LEMMA NextInd ==
  ASSUME IInv, [Next]_vars
  PROVE  IInv'
<1>1. CASE UNCHANGED vars
  BY <1>1 DEF vars, cacheVars, poolVars, reqVars, loopVars, IInv, TypeOK, Shape, Holding,
     Queue, NoLockLeak, Batch, KVNeeds, MbNeeds, Pos, Miss, IsQuery, IsShort, Multi
<1>2. CASE \E r \in Req, p \in Prompts : Arrive(r, p)
  BY <1>2, ArriveInd
<1>3. CASE \E r \in Req : AbortWaiting(r)
  BY <1>3, AbortWaitingInd
<1>4. CASE Flush
  BY <1>4, FlushInd
<1>5. CASE Launch \/ LaunchFails \/ NoBatch \/ EndBatch \/ DecodeStep
  BY <1>5, LaunchInd, NoBatchInd, EndBatchInd, DecodeStepInd
<1>6. ASSUME NEW r \in Req, \/ Admit(r) \/ Reject(r) \/ PrefillContinue(r)
                            \/ DecodeContinue(r) \/ Finish(r) \/ Retract(r)
      PROVE  IInv'
  BY <1>6, AdmitInd, RejectInd, PrefillContinueInd, DecodeContinueInd, FinishInd, RetractInd
<1> QED BY ZenonT(30), <1>1, <1>2, <1>3, <1>4, <1>5, <1>6 DEF Next, LoopStep

\* IInv holds in every reachable state.
LEMMA Inductive == Spec => []IInv
BY InitInd, NextInd, PTL DEF Spec

\* Types: in particular no free-list count, lock_ref or inflight counter goes negative,
\* and every slot recorded on a request or an entry is a slot of its pool.
THEOREM TypeCorrect == Spec => []TypeOK
<1>1. IInv => TypeOK
  BY DEF IInv
<1> QED BY <1>1, Inductive, PTL

\* Locks: whatever the mode, the pool sizes, the batches in flight and the order
\* of admissions, results, retractions and evictions, no lock_ref outlives the
\* requests that will release it, and no missing entry is locked.
THEOREM LockSafety == Spec => []NoLockLeak
<1>1. IInv => NoLockLeak
  BY DEF IInv
<1> QED BY <1>1, Inductive, PTL

-----------------------------------------------------------------------------
(* The entries a request hit *)

\* One batch at a time: while requests are admitted none is running, and the only
\* batch that is out is the running one.
OneBatch ==
  /\ loop \notin {"form", "full", "down"} => Admitted = {}
  /\ loop # "results" => Batch = {} /\ launched = <<>>
  /\ loop = "results" => Len(launched) = 1 /\ launched[1] = Batch

\* What the admitted requests refer to is locked, so no eviction takes it.
AdmittedLocked == \A r \in Admitted : \A h \in live[r] : lock[h] > 0

HitInv == OneBatch /\ AdmittedLocked /\ HitsStayCached

USE DEF cacheVars, poolVars, reqVars, loopVars

\* Nothing is admitted at the start.
LEMMA HitInit == Init => HitInv
BY DEF Init, HitInv, OneBatch, AdmittedLocked, HitsStayCached, Admitted, Batch

\* A step that changes at most the recency, the pools, or requests that are idle
\* or waiting.
LEMMA HitQuiet ==
  ASSUME IInv, HitInv, UNCHANGED <<lock, hit, live, launched>>,
         \A r \in Admitted \cup Batch : prompt'[r] = prompt[r] /\ phase'[r] = phase[r],
         Admitted' = Admitted, Batch' = Batch,
         loop' = loop \/ (loop \in {"form", "full"} /\ loop' \in {"form", "full", "down"})
  PROVE  HitInv'
<1>1. OneBatch'
  BY DEF HitInv, OneBatch
<1>2. AdmittedLocked'
  BY DEF HitInv, AdmittedLocked
<1>3. HitsStayCached'
  BY SMTT(30) DEF HitInv, HitsStayCached, Segs
<1> QED BY <1>1, <1>2, <1>3 DEF HitInv

\* add_one_req locks what it matched.
LEMMA AdmitHit ==
  ASSUME IInv, HitInv, NEW r \in Req, Admit(r)
  PROVE  HitInv'
<1> DEFINE I == Matched(prompt[r])
           H == {prompt[r][i] : i \in I}
<1>1. /\ phase' = [phase EXCEPT ![r] = "admitted"] /\ phase[r] = "waiting" /\ loop = "form"
      /\ hit' = [hit EXCEPT ![r] = I] /\ live' = [live EXCEPT ![r] = H]
      /\ lock' = [h \in Seg |-> IF h \in H THEN lock[h] + 1 ELSE lock[h]]
      /\ UNCHANGED <<prompt, loop, launched>>
  BY DEF Admit
<1>2. TypeOK
  BY DEF IInv
<1>3. Admitted' = Admitted \cup {r} /\ Batch' = Batch
  BY <1>1, <1>2 DEF TypeOK, Admitted, Batch
<1>4. OneBatch'
  BY <1>1, <1>3 DEF HitInv, OneBatch
<1>5. H \subseteq Seg
  <2>1. I \subseteq Pos(r)
    BY SMTT(30), <1>2, PosFinite DEF Matched, Pos
  <2> QED BY <1>2, <2>1, PosFinite
<1>6. AdmittedLocked'
  <2> SUFFICES ASSUME NEW q \in Admitted', NEW h \in live'[q] PROVE lock'[h] > 0
    BY DEF AdmittedLocked
  <2>1. q \in Req
    BY DEF Admitted
  <2>2. CASE q = r
    <3>1. h \in H /\ h \in Seg /\ lock[h] \in Nat
      BY <1>1, <1>2, <1>5, <2>2 DEF TypeOK
    <3> QED BY SMTT(30), <1>1, <3>1
  <2>3. CASE q # r
    <3>1. q \in Admitted /\ h \in live[q] /\ h \in Seg /\ lock[h] \in Nat
      BY <1>1, <1>2, <1>3, <2>1, <2>3 DEF TypeOK
    <3>2. lock[h] > 0
      BY <3>1 DEF HitInv, AdmittedLocked
    <3> QED BY SMTT(30), <1>1, <3>1, <3>2
  <2> QED BY <2>2, <2>3
<1>7. HitsStayCached'
  <2> SUFFICES ASSUME NEW q \in Admitted' \cup Batch' PROVE (Segs(q, hit[q]) \subseteq live[q])'
    BY DEF HitsStayCached
  <2>1. q \in Req
    BY DEF Admitted, Batch
  <2>2. CASE q = r
    BY <1>1, <1>2, <2>2 DEF TypeOK, Segs
  <2>3. CASE q # r
    BY SMTT(30), <1>1, <1>2, <1>3, <2>1, <2>3 DEF TypeOK, Segs, HitInv, HitsStayCached
  <2> QED BY <2>2, <2>3
<1> QED BY <1>4, <1>6, <1>7 DEF HitInv

\* pic_alloc_for_extend evicts only unlocked entries, so none of the hits.
LEMMA LaunchHit ==
  ASSUME IInv, HitInv, Depth = 1, Launch
  PROVE  HitInv'
<1>1. PICK V \in SUBSET Unlocked(entry, lock) : live' = [r \in Req |-> live[r] \ V]
  BY DEF Launch, Oldest
<1>2. /\ loop \in {"form", "full"}
      /\ phase' = [r \in Req |-> IF r \in Admitted THEN "running" ELSE phase[r]]
      /\ launched' = Append(launched, Admitted) /\ loop' = AfterLaunch(launched')
      /\ UNCHANGED <<lock, prompt, hit>>
  BY DEF Launch
<1>3. TypeOK
  BY DEF IInv
<1>4. Batch = {} /\ launched = <<>>
  BY <1>2 DEF HitInv, OneBatch
<1>5. Admitted' = {} /\ Batch' = Admitted
  BY <1>2, <1>3, <1>4 DEF TypeOK, Admitted, Batch
<1>6. launched' = <<Admitted>> /\ loop' = "results"
  BY SMTT(30), <1>2, <1>4 DEF AfterLaunch
<1>7. OneBatch'
  BY <1>5, <1>6 DEF OneBatch
<1>8. AdmittedLocked'
  BY <1>5 DEF AdmittedLocked
<1>9. HitsStayCached'
  <2> SUFFICES ASSUME NEW q \in Admitted PROVE (Segs(q, hit[q]) \subseteq live[q])'
    BY <1>5 DEF HitsStayCached
  <2>1. q \in Req /\ Segs(q, hit[q]) \subseteq live[q] /\ \A h \in live[q] : lock[h] > 0
    BY DEF HitInv, HitsStayCached, AdmittedLocked, Admitted
  <2>2. \A h \in V : lock[h] = 0
    BY DEF Unlocked
  <2>3. live'[q] = live[q]
    BY SMTT(30), <1>1, <2>1, <2>2
  <2>4. Segs(q, hit[q])' = Segs(q, hit[q])
    BY <1>2 DEF Segs
  <2> QED BY <2>1, <2>3, <2>4
<1> QED BY <1>7, <1>8, <1>9 DEF HitInv

\* cache_finished_req of one request leaves what the others refer to.
LEMMA FinishHit ==
  ASSUME IInv, HitInv, NEW r \in Req, Finish(r)
  PROVE  HitInv'
<1>1. /\ loop = "results" /\ r \in Head(launched)
      /\ phase' = [phase EXCEPT ![r] = "idle"] /\ prompt' = [prompt EXCEPT ![r] = NoPrompt]
      /\ hit' = [hit EXCEPT ![r] = {}] /\ live' = [live EXCEPT ![r] = {}]
      /\ launched' = Drop(r) /\ UNCHANGED loop
  BY DEF Finish, Cleared
<1>2. TypeOK
  BY DEF IInv
<1>3. Admitted = {} /\ Len(launched) = 1 /\ launched[1] = Batch
  BY <1>1 DEF HitInv, OneBatch
<1>4. Admitted' = {} /\ Batch' = Batch \ {r}
  BY <1>1, <1>2, <1>3 DEF TypeOK, Admitted, Batch
<1>5. Len(launched') = 1 /\ launched'[1] = Batch \ {r}
  BY SMTT(30), <1>1, <1>2, <1>3 DEF Drop, TypeOK
<1>6. OneBatch'
  BY <1>1, <1>4, <1>5 DEF OneBatch
<1>7. AdmittedLocked'
  BY <1>4 DEF AdmittedLocked
<1>8. HitsStayCached'
  <2> SUFFICES ASSUME NEW q \in Batch \ {r} PROVE (Segs(q, hit[q]) \subseteq live[q])'
    BY <1>4 DEF HitsStayCached
  <2>1. q \in Req /\ q # r /\ Segs(q, hit[q]) \subseteq live[q]
    BY DEF Batch, HitInv, HitsStayCached
  <2>2. hit'[q] = hit[q] /\ live'[q] = live[q] /\ prompt'[q] = prompt[q]
    BY <1>1, <1>2, <2>1 DEF TypeOK
  <2> QED BY <2>1, <2>2 DEF Segs
<1> QED BY <1>6, <1>7, <1>8 DEF HitInv

\* A request whose only result is out has at least MaxDecode = 0 outputs, so that
\* its result ends it.
LEMMA NoContinue ==
  ASSUME IInv, HitInv, MaxDecode = 0, NEW r \in Req, loop = "results", r \in Head(launched)
  PROVE  ~(Outputs(r) < MaxDecode)
<1>1. Len(launched) = 1 /\ launched \in Seq(SUBSET Req)
  BY DEF HitInv, OneBatch, IInv, TypeOK
<1>2. {i \in DOMAIN launched : r \in launched[i]} \subseteq {1}
  BY SMTT(30), <1>1
<1>3. IsFiniteSet({1}) /\ Cardinality({1}) = 1
  BY FS_Singleton
<1>4. Outstanding(r) \in Nat /\ Outstanding(r) <= 1
  BY <1>2, <1>3, FS_Subset, FS_CardinalityType DEF Outstanding
<1>5. Cardinality(Decs(r)) \in Nat
  <2>1. IsFiniteSet(DOMAIN kv[r])
    BY DEF IInv, Shape
  <2>2. Decs(r) \subseteq DOMAIN kv[r]
    BY DEF Decs
  <2> QED BY <2>1, <2>2, FS_Subset, FS_CardinalityType
<1> QED BY SMTT(30), <1>4, <1>5 DEF Outputs

\* Every step of the loop and every arrival, abort and flush.
LEMMA HitStep ==
  ASSUME Depth = 1, MaxDecode = 0, IInv, HitInv, [Next]_vars
  PROVE  HitInv'
<1>1. TypeOK
  BY DEF IInv
<1>2. CASE UNCHANGED vars
  <2>1. Admitted' = Admitted /\ Batch' = Batch
    BY <1>2 DEF vars, Admitted, Batch
  <2> QED BY <1>2, <2>1, HitQuiet DEF vars
<1>3. ASSUME NEW r \in Req, NEW p \in Prompts, Arrive(r, p) PROVE HitInv'
  <2>1. /\ phase[r] = "idle" /\ phase' = [phase EXCEPT ![r] = "waiting"]
        /\ prompt' = [prompt EXCEPT ![r] = p] /\ UNCHANGED <<lock, hit, live, launched, loop>>
    BY <1>3 DEF Arrive
  <2>2. Admitted' = Admitted /\ Batch' = Batch /\ r \notin Admitted \cup Batch
    BY <1>1, <2>1 DEF TypeOK, Admitted, Batch
  <2>3. \A q \in Admitted \cup Batch : prompt'[q] = prompt[q] /\ phase'[q] = phase[q]
    BY <1>1, <2>1, <2>2 DEF TypeOK, Admitted, Batch
  <2> QED BY <2>1, <2>2, <2>3, HitQuiet
<1>4. ASSUME NEW r \in Req, AbortWaiting(r) PROVE HitInv'
  <2>1. /\ phase[r] = "waiting" /\ phase' = [phase EXCEPT ![r] = "idle"]
        /\ prompt' = [prompt EXCEPT ![r] = NoPrompt] /\ UNCHANGED <<lock, hit, live, launched, loop>>
    BY <1>4 DEF AbortWaiting
  <2>2. Admitted' = Admitted /\ Batch' = Batch /\ r \notin Admitted \cup Batch
    BY <1>1, <2>1 DEF TypeOK, Admitted, Batch
  <2>3. \A q \in Admitted \cup Batch : prompt'[q] = prompt[q] /\ phase'[q] = phase[q]
    BY <1>1, <2>1, <2>2 DEF TypeOK, Admitted, Batch
  <2> QED BY <2>1, <2>2, <2>3, HitQuiet
<1>5. CASE Flush
  <2>1. /\ UNCHANGED <<phase, prompt, hit, live, kv, mb, loop, launched>>
        /\ \A r \in Req : phase[r] = "idle"
    BY <1>5 DEF Flush
  <2>2. Admitted = {} /\ Admitted' = {} /\ Batch = {} /\ Batch' = {}
    BY <2>1 DEF Admitted, Batch
  <2>3. OneBatch'
    BY <2>1, <2>2 DEF HitInv, OneBatch
  <2> QED BY <2>2, <2>3 DEF HitInv, AdmittedLocked, HitsStayCached
<1>6. CASE Launch
  BY <1>6, LaunchHit
<1>7. ASSUME LaunchFails \/ \E r \in Req : Reject(r) PROVE HitInv'
  <2>1. /\ loop \in {"form", "full"} /\ loop' \in {"form", "full", "down"}
        /\ UNCHANGED <<phase, prompt, lock, hit, live, launched>>
    BY <1>7 DEF LaunchFails, Reject
  <2>2. Admitted' = Admitted /\ Batch' = Batch
    BY <2>1 DEF Admitted, Batch
  <2> QED BY <2>1, <2>2, HitQuiet
<1>8. CASE NoBatch
  <2>1. /\ loop \in {"form", "full"} /\ loop' = (IF launched = <<>> THEN "form" ELSE "results")
        /\ UNCHANGED <<phase, prompt, lock, hit, live, launched>>
    BY <1>8 DEF NoBatch
  <2>2. launched = <<>>
    BY <2>1 DEF HitInv, OneBatch
  <2>3. Admitted' = Admitted /\ Batch' = Batch
    BY <2>1 DEF Admitted, Batch
  <2> QED BY <2>1, <2>2, <2>3, HitQuiet
<1>9. CASE EndBatch
  <2>1. /\ loop = "results" /\ Head(launched) = {} /\ launched' = Tail(launched) /\ loop' = "form"
        /\ UNCHANGED <<phase, prompt, lock, hit, live>>
    BY <1>9 DEF EndBatch
  <2>2. Len(launched) = 1 /\ launched[1] = Batch /\ Admitted = {}
    BY <2>1 DEF HitInv, OneBatch
  <2>3. launched' = <<>> /\ Batch = {}
    BY SMTT(30), <1>1, <2>1, <2>2 DEF TypeOK
  <2>4. Admitted' = {} /\ Batch' = {}
    BY <2>1, <2>2, <2>3 DEF Admitted, Batch
  <2> QED BY <2>1, <2>3, <2>4 DEF HitInv, OneBatch, AdmittedLocked, HitsStayCached
<1>10. ASSUME DecodeStep \/ \E r \in Req : Retract(r) PROVE FALSE
  <2>1. Batch # {} /\ loop \in {"form", "full", "retract"}
    BY <1>10 DEF DecodeStep, Retract, DecodeTurn
  <2> QED BY <2>1 DEF HitInv, OneBatch
<1>11. ASSUME NEW r \in Req, PrefillContinue(r) \/ DecodeContinue(r) PROVE FALSE
  BY <1>11, NoContinue DEF PrefillContinue, DecodeContinue
<1> QED
  BY ZenonT(30), <1>2, <1>3, <1>4, <1>5, <1>6, <1>7, <1>8, <1>9, <1>10, <1>11, AdmitHit, FinishHit
     DEF Next, LoopStep

\* match_prefix to release: in the loop without overlap, with requests that end
\* at their prefill, no eviction takes a segment that an admitted or running
\* request was matched with, whatever the sizes of the pools.
THEOREM HitsAlwaysCached ==
  ASSUME Depth = 1, MaxDecode = 0
  PROVE  Spec => []HitsStayCached
<1>1. HitInv => HitsStayCached
  BY DEF HitInv
<1>2. IInv /\ HitInv /\ [Next]_vars => HitInv'
  BY HitStep
<1> QED BY <1>1, <1>2, HitInit, Inductive, PTL DEF Spec
=============================================================================
