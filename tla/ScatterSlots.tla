---------------------------- MODULE ScatterSlots ----------------------------
(***************************************************************************)
(* What a transfer reads stays pinned, and every slot of an engine has one *)
(* owner.                                                                  *)
(***************************************************************************)
EXTENDS ScatterPins

\* Leaves are given to Zenon; those that need arithmetic or nested function updates name SMT.
USE ZenonT(40) DEF cacheVars, reqVars, xferVars, envVars

-----------------------------------------------------------------------------
(* What a transfer reads *)

\* The faults after which a pin is released while its transfer is under way: a
\* write is given up, or the cache is flushed.
WritesEnd == Faults \cap {"write_late", "write_error", "write_raise", "flush"} = {}

\* No write is past its deadline and none has failed.
WritesFine ==
  \A k \in Key : <<"write", k>> \notin late /\ \A p \in Part : wire[k][p] # "err"

\* The pending hold and the write pin on the engine that computed k.
WorkPin(k) ==
  LET h == SegOf(k)
      E == entry[Worker[k]][h]
      l == lock[Worker[k]][h]
  IN ~Local(k) => /\ k \in push /\ E # None => l >= 1
                  /\ k \in infl => E # None /\ l >= 1 /\ src[k] = E
                  /\ (\E p \in Part : wire[k][p] = "posted") => k \in infl

\* No step makes a write late or lets it fail.
LEMMA WritesStep ==
  ASSUME WritesEnd, TypeInv, WritesFine, Next
  PROVE  WritesFine'
<1>0. TypeOK
  BY DEF TypeInv
<1>1. ASSUME UNCHANGED <<late, wire>> PROVE WritesFine'
  BY <1>1 DEF WritesFine
<1>2. ASSUME NEW k \in Key, NEW s, Fire(k, s), UNCHANGED late PROVE WritesFine'
  <2>1. wire' = [wire EXCEPT ![k] = [p \in Part |-> "posted"]]
    BY <1>2 DEF Fire, WritesEnd
  <2> QED BY <1>0, <1>2, <2>1 DEF WritesFine, TypeOK
<1>3. ASSUME NEW k \in Key, WorkerStep(k) PROVE WritesFine'
  <2>1. UNCHANGED late /\ ((\E s : Fire(k, s)) \/ UNCHANGED wire)
    BY <1>3 DEF WorkerStep, RecvSub, RecvHandle, PushPending, Reap, HitRetire, SubResult, Retire
  <2> QED BY <1>1, <1>2, <2>1
<1>4. ASSUME NEW k \in Key, HomeStep(k) PROVE WritesFine'
  BY <1>1, <1>4 DEF HomeStep, Prealloc, Inject
<1>5. ASSUME NEW c \in Comb, CombineStep(c) PROVE WritesFine'
  BY <1>1, <1>5 DEF CombineStep, RecvCombine, Gate, Release, Bootstrapped, CombineResult, SendDone
<1>6. ASSUME NEW k \in Key, NEW p \in Part, Land(k, p) PROVE WritesFine'
  <2>1. wire' = [wire EXCEPT ![k][p] = "done"] /\ UNCHANGED late
    BY <1>6 DEF Land, WritesEnd
  <2> QED BY <1>0, <2>1 DEF WritesFine, TypeOK
<1>7. ASSUME NEW d, Deadline(d) PROVE WritesFine'
  <2>1. late' = late \cup {d} /\ UNCHANGED wire /\ \A k \in Key : d # <<"write", k>>
    BY SMTT(30), <1>7 DEF Deadline, WritesEnd
  <2> QED BY <2>1 DEF WritesFine
<1>8. ASSUME NEW e \in Eng, Move(e) \/ Launch(e) \/ Spin(e) \/ Flush(e) PROVE WritesFine'
  BY <1>1, <1>8 DEF Move, Launch, Spin, Flush, vars
<1>9. ASSUME NEW k \in Key, LoseSub(k) PROVE WritesFine'
  BY <1>1, <1>9 DEF LoseSub
<1>10. ASSUME NEW c \in Comb, ClientAbort(c) \/ Peer(c) PROVE WritesFine'
  BY <1>1, <1>10 DEF ClientAbort, Peer
<1> QED
  BY <1>3, <1>4, <1>5, <1>6, <1>7, <1>8, <1>9, <1>10 DEF Next, EngineStep, Tick, World

\* A foreign step leaves a pinned segment where it is.
LEMMA WorkForeign ==
  ASSUME TypeInv, NEW k \in Key, WorkPin(k), Foreign(k)
  PROVE  WorkPin(k)'
<1> DEFINE h == SegOf(k)
           W == Worker[k]
<1>0. lock[W][h] \in Nat
  BY SMTT(30), KeyType DEF TypeInv, TypeOK
<1>1. /\ lock'[W][h] = lock[W][h]
      /\ entry'[W][h] = entry[W][h] \/ (lock[W][h] = 0 /\ entry'[W][h] = None)
  BY DEF Foreign, Undisturbed
<1>2. KeyKept(k)
  BY DEF Foreign
<1> QED BY SMTT(30), <1>0, <1>1, <1>2 DEF WorkPin, KeyKept

\* _fire_write from the entry while it is locked.
LEMMA WorkFire ==
  ASSUME WritesEnd, TypeInv, NEW k \in Key, Fire(k, entry'[Worker[k]][SegOf(k)]),
         entry'[Worker[k]][SegOf(k)] # None, lock'[Worker[k]][SegOf(k)] >= 1
  PROVE  WorkPin(k)'
<1>1. infl' = infl \cup {k} /\ src' = [src EXCEPT ![k] = entry'[Worker[k]][SegOf(k)]]
  BY DEF Fire, WritesEnd
<1> QED BY <1>1 DEF WorkPin, TypeInv, TypeOK

\* The steps of the engine that computes k.
LEMMA WorkWorker ==
  ASSUME Transition, WritesEnd, TypeInv, Fresh, WritesFine, NEW k \in Key, HomePin(k), WorkPin(k),
         WorkerStep(k)
  PROVE  WorkPin(k)'
<1> DEFINE h == SegOf(k)
           W == Worker[k]
<1> SUFFICES ASSUME ~Local(k) PROVE WorkPin(k)'
  BY DEF WorkPin
<1>0. /\ TypeOK /\ lock[W][h] \in Nat /\ lock[W] \in [Seg -> Nat] /\ h \in Seg /\ W \in Eng
      /\ k \notin push \/ k \notin infl
  BY SMTT(30), KeyType DEF TypeInv, TypeOK, Fresh
<1>1. CASE RecvSub(k)
  <2>1. sub[k] = "sent" /\ UNCHANGED <<entry, wire, push, infl, src>>
    BY <1>1 DEF RecvSub
  <2>2. entry[W][h] = None
    BY <2>1 DEF HomePin
  <2> QED BY <2>1, <2>2 DEF WorkPin
<1>2. CASE RecvHandle(k)
  BY <1>2 DEF RecvHandle, WorkPin
<1>3. CASE PushPending(k)
  <2>1. k \in push /\ push' = push \ {k} /\ UNCHANGED entry /\ k \notin infl
    BY <1>0, <1>3 DEF PushPending, Items
  <2>2. CASE UNCHANGED <<handle, src, infl, wire>>
    BY <2>1, <2>2 DEF WorkPin
  <2>3. CASE /\ entry[W][h] # None /\ Fire(k, entry[W][h])
             /\ lock' = [lock EXCEPT ![W] = Inc(Dec(@, {h}), {h})]
    <3>1. lock'[W][h] = Inc(Dec(lock[W], {h}), {h})[h]
      BY <1>0, <2>3 DEF TypeOK
    <3>2. Dec(lock[W], {h}) \in [Seg -> Nat]
      BY <1>0, IncDecType
    <3>3. Inc(Dec(lock[W], {h}), {h})[h] = Dec(lock[W], {h})[h] + 1
      BY <1>0 DEF Inc
    <3>4. lock'[W][h] >= 1
      <4> DEFINE n == Dec(lock[W], {h})[h]
      <4>1. n \in Nat /\ lock'[W][h] = n + 1
        BY <1>0, <3>1, <3>2, <3>3
      <4> HIDE DEF n
      <4> QED BY SMTT(30), <4>1
    <3> QED BY <2>1, <2>3, <3>4, WorkFire
  <2> QED BY <1>3, <2>2, <2>3 DEF PushPending
<1>4. CASE Reap(k)
  <2>1. k \in infl /\ infl' = infl \ {k} /\ UNCHANGED <<entry, push, wire, src>>
    BY <1>4 DEF Reap, Items
  <2>2. Written(k)
    BY <1>4 DEF Reap, Items, WritesFine
  <2>3. k \notin push
    BY <1>0, <2>1
  <2> QED BY <2>1, <2>2, <2>3 DEF WorkPin, Written
<1>5. CASE HitRetire(k)
  BY <1>5 DEF HitRetire, HomePin
<1>6. CASE SubResult(k)
  <2> DEFINE M == {h} \ Short
  <2>1. /\ sub[k] = "running"
        /\ entry' = [entry EXCEPT ![W] = Registered(W, k, M)]
        /\ Retire(k, Registered(W, k, M), Protected(W, M))
    BY <1>6 DEF SubResult
  <2>2. entry[W][h] = None /\ entry'[W][h] = Registered(W, k, M)[h]
    BY <1>0, <2>1 DEF HomePin, TypeOK
  <2>3. k \notin push /\ k \notin infl /\ \A p \in Part : wire[k][p] = "none"
    BY <2>1 DEF Fresh
  <2>4. CASE entry'[W][h] = None
    <3>1. UNCHANGED <<infl, wire>>
      BY <2>1, <2>2, <2>4 DEF Retire
    <3> QED BY <2>3, <2>4, <3>1 DEF WorkPin
  <2>5. CASE entry'[W][h] # None
    <3>1. NewSegs(W, M) = {h}
      BY <1>0, <2>2, <2>5 DEF Registered, NewSegs
    <3>2. lock' = [lock EXCEPT ![W] = Handover(Inc(lock[W], {h}), h)]
      BY <2>1, <2>2, <2>5, <3>1 DEF Retire, Protected
    <3>3. Inc(lock[W], {h}) \in [Seg -> Nat]
      BY <1>0, IncDecType
    <3>4. lock'[W][h] = Inc(lock[W], {h})[h]
      BY <1>0, <3>2, <3>3, HandoverSame DEF TypeOK
    <3>5. lock'[W][h] >= 1
      BY SMTT(30), <1>0, <3>4 DEF Inc
    <3>6. CASE Fire(k, Registered(W, k, M)[h])
      BY <2>2, <2>5, <3>5, <3>6, WorkFire
    <3>7. CASE UNCHANGED <<infl, wire>>
      BY <2>3, <3>5, <3>7 DEF WorkPin
    <3> QED BY <2>1, <3>6, <3>7 DEF Retire
  <2> QED BY <2>4, <2>5
<1> QED BY <1>1, <1>2, <1>3, <1>4, <1>5, <1>6 DEF WorkerStep

\* What happens on the other engine of k.
LEMMA WorkElsewhere ==
  ASSUME TypeInv, Fresh, NEW k \in Key, WorkPin(k), HomeStep(k) \/ CombineStep(k[1])
  PROVE  WorkPin(k)'
<1> DEFINE W == Worker[k]
           H == HomeOf(k)
<1> SUFFICES ASSUME ~Local(k) PROVE WorkPin(k)'
  BY DEF WorkPin
<1>0. TypeOK /\ W \in Eng /\ H \in Eng /\ W # H /\ H = Home[k[1]]
  BY KeyType DEF TypeInv, Local, HomeOf
<1>1. UNCHANGED <<push, infl, wire, src>>
  BY DEF HomeStep, Prealloc, Inject, CombineStep, RecvCombine, Gate, Release, Bootstrapped, CombineResult, SendDone
<1>2. entry'[W] = entry[W]
  <2>1. CASE HomeStep(k)
    BY <1>0, <2>1 DEF HomeStep, Prealloc, Inject, TypeOK
  <2>2. CASE CombineStep(k[1])
    BY <1>0, <2>2 DEF CombineStep, RecvCombine, Gate, Release, Bootstrapped, CombineResult, SendDone, TypeOK
  <2> QED BY <2>1, <2>2
<1>3. lock'[W] = lock[W]
  <2>1. CASE HomeStep(k)
    BY <1>0, <2>1 DEF HomeStep, Prealloc, Inject, TypeOK
  <2>2. CASE CombineStep(k[1])
    <3>1. UNCHANGED lock \/ \E l : lock' = [lock EXCEPT ![H] = l]
      BY <1>0, <2>2 DEF CombineStep, RecvCombine, Gate, Release, Bootstrapped, CombineResult, SendDone
    <3> QED BY <1>0, <3>1 DEF TypeOK
  <2> QED BY <2>1, <2>2
<1> QED BY <1>1, <1>2, <1>3 DEF WorkPin

\* A batch does not evict a pinned segment.
LEMMA WorkLaunch ==
  ASSUME Apart, TypeInv, NEW k \in Key, WorkPin(k), NEW e \in Eng, Launch(e)
  PROVE  WorkPin(k)'
<1>0. lock[Worker[k]][SegOf(k)] \in Nat
  BY SMTT(30), KeyType DEF TypeInv, TypeOK
<1>1. PICK R : Admits(e, R, k)
  BY LaunchAdmits
<1> QED BY SMTT(30), <1>0, <1>1 DEF WorkPin, Admits, Local

\* The world.
LEMMA WorkWorld ==
  ASSUME WritesEnd, TypeInv, NEW k \in Key, WorkPin(k),
         \/ World
         \/ \E j \in Key : LoseSub(j)
         \/ \E d \in Comb : ClientAbort(d)
         \/ \E e \in Eng : Move(e) \/ Spin(e) \/ Flush(e)
  PROVE  WorkPin(k)'
<1>1. ASSUME UNCHANGED <<entry, lock, push, infl, wire, src>> PROVE WorkPin(k)'
  BY <1>1 DEF WorkPin
<1>2. ASSUME NEW j \in Key, NEW p \in Part, Land(j, p) PROVE WorkPin(k)'
  <2>1. wire' = [wire EXCEPT ![j][p] = "done"] /\ UNCHANGED <<entry, lock, push, infl, src>>
    BY <1>2 DEF Land, WritesEnd
  <2>2. \A q \in Part : wire'[k][q] = "posted" => wire[k][q] = "posted"
    BY <2>1 DEF TypeInv, TypeOK
  <2> QED BY <2>1, <2>2 DEF WorkPin
<1>3. ASSUME NEW d, Deadline(d) PROVE WorkPin(k)'
  BY <1>1, <1>3 DEF Deadline
<1>4. ASSUME NEW d \in Comb, Peer(d) \/ ClientAbort(d) PROVE WorkPin(k)'
  BY <1>1, <1>4 DEF Peer, ClientAbort
<1>5. ASSUME NEW j \in Key, LoseSub(j) PROVE WorkPin(k)'
  BY <1>1, <1>5 DEF LoseSub
<1>6. ASSUME NEW e \in Eng, Move(e) \/ Spin(e) \/ Flush(e) PROVE WorkPin(k)'
  BY <1>1, <1>6 DEF Move, Spin, Flush, WritesEnd, vars
<1> QED BY <1>2, <1>3, <1>4, <1>5, <1>6 DEF World

\* Every step keeps the pins.
LEMMA WorkStep ==
  ASSUME Apart, Transition, WritesEnd, PinInv, WritesFine, Next, NEW k \in Key, WorkPin(k)
  PROVE  WorkPin(k)'
<1>0. TypeInv /\ Fresh /\ HomePin(k) /\ k[1] \in Comb
  BY KeyType DEF PinInv
<1>1. ASSUME NEW j \in Key, WorkerStep(j) PROVE WorkPin(k)'
  BY <1>0, <1>1, WorkWorker, ForeignWorker, WorkForeign
<1>2. ASSUME NEW j \in Key, HomeStep(j) PROVE WorkPin(k)'
  BY <1>0, <1>2, WorkElsewhere, ForeignHome, WorkForeign
<1>3. ASSUME NEW d \in Comb, CombineStep(d) PROVE WorkPin(k)'
  <2>1. CombInv(d)
    BY DEF PinInv
  <2> QED BY <1>0, <1>3, <2>1, WorkElsewhere, ForeignCombine, WorkForeign
<1>4. ASSUME NEW e \in Eng, Tick(e) \/ Spin(e) \/ Flush(e) PROVE WorkPin(k)'
  BY <1>0, <1>4, WorkLaunch, WorkWorld DEF Tick
<1>5. CASE World \/ (\E j \in Key : LoseSub(j)) \/ (\E d \in Comb : ClientAbort(d))
  BY <1>0, <1>5, WorkWorld
<1> QED BY <1>1, <1>2, <1>3, <1>4, <1>5 DEF Next, EngineStep

\* In the transition modes, and unless a write is given up or the cache flushed, a
\* transfer under way reads an entry that is cached and locked: the lock that
\* _start_write takes is not dropped by the retire, by a combine request that is
\* given up or ends, or by a push that comes too late.
THEOREM ScatterSourcePinned ==
  ASSUME Apart, Transition, WritesEnd
  PROVE  Spec => []SourcePinned
<1> DEFINE Inv == PinInv /\ WritesFine /\ \A k \in Key : WorkPin(k)
<1>0. ProtectedLocal
  BY DEF ProtectedLocal
<1>1. Init => Inv
  <2> SUFFICES ASSUME Init PROVE Inv
    OBVIOUS
  <2>1. WritesFine /\ \A k \in Key : WorkPin(k)
    BY DEF Init, WritesFine, WorkPin
  <2> QED BY <2>1, PinInit
<1>2. Inv /\ [Next]_vars => Inv'
  <2> SUFFICES ASSUME Inv, [Next]_vars PROVE Inv'
    OBVIOUS
  <2>1. PinInv'
    BY <1>0, PinStep
  <2>2. TypeInv
    BY DEF PinInv
  <2>3. CASE Next
    BY <2>1, <2>2, <2>3, WritesStep, WorkStep
  <2>4. CASE UNCHANGED vars
    BY <2>1, <2>4 DEF WritesFine, WorkPin, vars
  <2> QED BY <2>3, <2>4
<1>3. Inv => SourcePinned
  <2> SUFFICES ASSUME Inv, NEW k \in Key, NEW p \in Part, wire[k][p] = "posted"
               PROVE  entry[Worker[k]][SegOf(k)] = src[k] /\ lock[Worker[k]][SegOf(k)] > 0
    BY DEF SourcePinned
  <2>1. ~Local(k)
    BY DEF PinInv, Fresh, HomePin
  <2>2. lock[Worker[k]][SegOf(k)] \in Nat
    BY SMTT(30), KeyType DEF PinInv, TypeInv, TypeOK
  <2> QED BY SMTT(30), <2>1, <2>2 DEF WorkPin
<1> QED BY <1>1, <1>2, <1>3, PTL DEF Spec

-----------------------------------------------------------------------------
(* Slots have one owner: the steps of a key *)

\* the engine whose pool a request uses
EngOf(r) == IF r \in Comb THEN Home[r] ELSE Worker[r]

\* On one engine: no slot of an entry is free or in another entry; no reserved
\* slot is free, in an entry or reserved twice; no slot of a forward is free, in
\* an entry, reserved or given twice.
EntriesOwn(e) ==
  \A g \in Seg : entry[e][g] # None =>
    entry[e][g] \notin free[e] /\ \A h \in Seg : entry[e][h] = entry[e][g] => h = g
ReservedOwn(e) ==
  \A k \in Key : HomeOf(k) = e /\ dst[k] # None =>
    /\ dst[k] \notin free[e] /\ \A h \in Seg : entry[e][h] # dst[k]
    /\ \A j \in Key : HomeOf(j) = e /\ dst[j] = dst[k] => j = k
ForwardsOwn(e) ==
  \A r \in Key \cup Comb : EngOf(r) = e => \A n \in DOMAIN slots[r] :
    /\ slots[r][n] \notin free[e] /\ \A h \in Seg : entry[e][h] # slots[r][n]
    /\ \A k \in Key : HomeOf(k) = e => dst[k] # slots[r][n]
    /\ \A q \in Key \cup Comb : EngOf(q) = e =>
         \A m \in DOMAIN slots[q] : slots[q][m] = slots[r][n] => q = r /\ m = n
Exclusive(e) == EntriesOwn(e) /\ ReservedOwn(e) /\ ForwardsOwn(e)

\* An engine that a step does not touch.
LEMMA ExclusiveKept ==
  ASSUME NEW e \in Eng, Exclusive(e), entry'[e] = entry[e], free'[e] = free[e],
         \A k \in Key : HomeOf(k) = e => dst'[k] = dst[k],
         \A r \in Key \cup Comb : EngOf(r) = e => slots'[r] = slots[r]
  PROVE  Exclusive(e)'
<1>1. EntriesOwn(e)'
  BY SMTT(30) DEF Exclusive, EntriesOwn
<1>2. ReservedOwn(e)'
  BY SMTT(30) DEF Exclusive, ReservedOwn
<1>3. ForwardsOwn(e)'
  BY SMTT(30) DEF Exclusive, ForwardsOwn, EngOf
<1> QED BY <1>1, <1>2, <1>3 DEF Exclusive

\* What an eviction frees belongs to nobody else.
LEMMA PoolOwned ==
  ASSUME TypeInv, NEW e \in Eng, Exclusive(e), NEW n \in Nat, NEW S, NEW V \in Evictions(e, n, S)
  PROVE  /\ \A h \in Seg : h \notin V /\ entry[e][h] # None => entry[e][h] \notin Pool(e, V)
         /\ \A k \in Key : HomeOf(k) = e /\ dst[k] # None => dst[k] \notin Pool(e, V)
         /\ \A r \in Key \cup Comb : EngOf(r) = e => \A m \in DOMAIN slots[r] : slots[r][m] \notin Pool(e, V)
<1>1. V \subseteq Seg /\ \A h \in V : entry[e][h] # None
  BY SMTT(30), EvictionFacts DEF TypeInv
<1>2. \A s \in Pool(e, V) : s \in free[e] \/ \E h \in V : s = entry[e][h]
  BY DEF Pool
<1>3. ASSUME NEW h \in Seg, h \notin V, entry[e][h] # None PROVE entry[e][h] \notin Pool(e, V)
  BY <1>1, <1>2, <1>3 DEF Exclusive, EntriesOwn
<1>4. ASSUME NEW k \in Key, HomeOf(k) = e, dst[k] # None PROVE dst[k] \notin Pool(e, V)
  BY <1>1, <1>2, <1>4 DEF Exclusive, ReservedOwn
<1>5. ASSUME NEW r \in Key \cup Comb, EngOf(r) = e, NEW m \in DOMAIN slots[r]
      PROVE  slots[r][m] \notin Pool(e, V)
  BY SMTT(30), <1>1, <1>2, <1>5 DEF Exclusive, ForwardsOwn
<1> QED BY <1>3, <1>4, <1>5

\* A reservation takes its slot from the slots of the engine.
LEMMA PoolIsSlots ==
  ASSUME TypeOK, NEW e \in Eng, NEW V \in Evictions(e, 1, {})
  PROVE  Pool(e, V) \subseteq Slot
BY SMTT(30), EvictionFacts

\* A reservation.
LEMMA ExclusivePrealloc ==
  ASSUME TypeInv, Fresh, NEW k \in Key, Prealloc(k), Exclusive(HomeOf(k))
  PROVE  Exclusive(HomeOf(k))'
<1> DEFINE e == HomeOf(k)
<1>0. TypeOK /\ e \in Eng /\ e = Home[k[1]] /\ handle[k] = "none" /\ dst[k] = None
  BY KeyType DEF TypeInv, HomeOf, Prealloc, ToPrealloc, Fresh
<1>1. CASE UNCHANGED <<entry, free, dst>>
  BY <1>0, <1>1, ExclusiveKept DEF Prealloc
<1>2. ASSUME NEW V \in Evictions(e, 1, {}),
             entry' = [entry EXCEPT ![e] = Without(e, V)],
             free' = [free EXCEPT ![e] = Pool(e, V) \ {CHOOSE x \in Pool(e, V) : TRUE}],
             dst' = [dst EXCEPT ![k] = CHOOSE x \in Pool(e, V) : TRUE]
      PROVE  Exclusive(e)'
  <2> DEFINE s == CHOOSE x \in Pool(e, V) : TRUE
  <2>0. entry'[e] = Without(e, V) /\ free'[e] = Pool(e, V) \ {s} /\ dst' = [dst EXCEPT ![k] = s]
    BY <1>0, <1>2 DEF TypeOK
  <2>1. s \in Pool(e, V) /\ Pool(e, V) \subseteq Slot /\ s # None
    <3>1. s \in Pool(e, V)
      BY <1>0, ReservedFromPool
    <3>2. Pool(e, V) \subseteq Slot
      <4> HIDE DEF s, e
      <4> QED BY <1>0, PoolIsSlots
    <3> HIDE DEF s
    <3> QED BY <3>1, <3>2, ScatterAssumption
  <2> HIDE DEF s
  <2>2. /\ \A h \in Seg : entry'[e][h] = IF h \in V THEN None ELSE entry[e][h]
        /\ free'[e] = Pool(e, V) \ {s} /\ dst'[k] = s /\ \A j \in Key : j # k => dst'[j] = dst[j]
        /\ slots' = slots
    <3>1. \A h \in Seg : entry'[e][h] = IF h \in V THEN None ELSE entry[e][h]
      BY <2>0 DEF Without
    <3>2. dst'[k] = s /\ \A j \in Key : j # k => dst'[j] = dst[j]
      BY <1>0, <2>0 DEF TypeOK
    <3>3. slots' = slots
      BY DEF Prealloc
    <3> QED BY <2>0, <3>1, <3>2, <3>3
  <2>3. /\ \A h \in Seg : h \notin V /\ entry[e][h] # None => entry[e][h] \notin Pool(e, V)
        /\ \A j \in Key : HomeOf(j) = e /\ dst[j] # None => dst[j] \notin Pool(e, V)
        /\ \A r \in Key \cup Comb : EngOf(r) = e => \A m \in DOMAIN slots[r] : slots[r][m] \notin Pool(e, V)
    BY <1>0, PoolOwned
  <2>4. EntriesOwn(e)'
    BY <2>2, <2>3 DEF EntriesOwn, Exclusive
  <2>5. ReservedOwn(e)'
    <3> SUFFICES ASSUME NEW j \in Key, HomeOf(j) = e, dst'[j] # None
                 PROVE  /\ dst'[j] \notin free'[e] /\ \A h \in Seg : entry'[e][h] # dst'[j]
                        /\ \A i \in Key : HomeOf(i) = e /\ dst'[i] = dst'[j] => i = j
      BY SMTT(30) DEF ReservedOwn, HomeOf
    <3>1. CASE j = k
      BY <2>1, <2>2, <2>3, <3>1
    <3>2. CASE j # k
      <4>1. dst'[j] = dst[j] /\ dst[j] \notin Pool(e, V)
        BY <2>2, <2>3, <3>2
      <4>2. /\ \A h \in Seg : entry[e][h] # dst[j]
            /\ \A i \in Key : HomeOf(i) = e /\ dst[i] = dst[j] => i = j
        BY <4>1 DEF ReservedOwn, Exclusive
      <4>3. \A h \in Seg : entry'[e][h] # dst[j]
        BY <2>2, <4>1, <4>2
      <4>4. ASSUME NEW i \in Key, HomeOf(i) = e, dst'[i] = dst[j] PROVE i = j
        BY <2>1, <2>2, <4>1, <4>2, <4>4
      <4> QED BY <2>2, <4>1, <4>3, <4>4
    <3> QED BY <3>1, <3>2
  <2>6. ForwardsOwn(e)'
    <3> SUFFICES ASSUME NEW r \in Key \cup Comb, EngOf(r) = e, NEW n \in DOMAIN slots[r]
                 PROVE  /\ slots[r][n] \notin free'[e] /\ \A h \in Seg : entry'[e][h] # slots[r][n]
                        /\ \A j \in Key : HomeOf(j) = e => dst'[j] # slots[r][n]
                        /\ \A q \in Key \cup Comb : EngOf(q) = e =>
                             \A m \in DOMAIN slots[q] : slots[q][m] = slots[r][n] => q = r /\ m = n
      BY SMTT(30), <2>2 DEF ForwardsOwn, EngOf
    <3>1. slots[r][n] # None
      BY SMTT(30), ScatterAssumption DEF TypeInv, Held
    <3> QED BY SMTT(30), <2>1, <2>2, <2>3, <3>1 DEF ForwardsOwn, Exclusive
  <2> QED BY <2>4, <2>5, <2>6 DEF Exclusive
<1>3. \/ UNCHANGED <<entry, free, dst>>
      \/ \E V \in Evictions(e, 1, {}) :
           /\ entry' = [entry EXCEPT ![e] = Without(e, V)]
           /\ free' = [free EXCEPT ![e] = Pool(e, V) \ {CHOOSE x \in Pool(e, V) : TRUE}]
           /\ dst' = [dst EXCEPT ![k] = CHOOSE x \in Pool(e, V) : TRUE]
  BY DEF Prealloc, HomeOf
<1> QED BY <1>1, <1>2, <1>3

\* An arrival: the reservation becomes an entry or is given back.
LEMMA ExclusiveInject ==
  ASSUME TypeInv, NEW k \in Key, Inject(k), Exclusive(HomeOf(k))
  PROVE  Exclusive(HomeOf(k))'
<1> DEFINE e == HomeOf(k)
           h == SegOf(k)
<1>0. TypeOK /\ e \in Eng /\ h \in Seg
  BY KeyType DEF TypeInv
<1>1. /\ dst[k] # None /\ dst'[k] = None /\ (\A j \in Key : j # k => dst'[j] = dst[j]) /\ slots' = slots
  BY <1>0 DEF Inject, Items, Pending, TypeOK
<1>2. \/ free'[e] = free[e] \cup {dst[k]} /\ entry' = entry
      \/ /\ free'[e] = free[e] /\ entry[e][h] = None
         /\ \A g \in Seg : entry'[e][g] = IF g = h THEN dst[k] ELSE entry[e][g]
  BY SMTT(30), <1>0 DEF Inject, TypeOK
<1>3. /\ dst[k] \notin free[e] /\ \A g \in Seg : entry[e][g] # dst[k]
      /\ \A j \in Key : HomeOf(j) = e /\ dst[j] = dst[k] => j = k
      /\ \A r \in Key \cup Comb : EngOf(r) = e => \A n \in DOMAIN slots[r] : slots[r][n] # dst[k]
  BY SMTT(30), <1>1 DEF Exclusive, ReservedOwn, ForwardsOwn
<1>4. EntriesOwn(e)'
  BY SMTT(30), <1>1, <1>2, <1>3 DEF EntriesOwn, Exclusive
<1>5. ReservedOwn(e)'
  BY SMTT(30), <1>1, <1>2, <1>3 DEF ReservedOwn, Exclusive
<1>6. ForwardsOwn(e)'
  <2> SUFFICES ASSUME NEW r \in Key \cup Comb, EngOf(r) = e, NEW n \in DOMAIN slots[r]
               PROVE  /\ slots[r][n] \notin free'[e] /\ \A g \in Seg : entry'[e][g] # slots[r][n]
                      /\ \A j \in Key : HomeOf(j) = e => dst'[j] # slots[r][n]
                      /\ \A q \in Key \cup Comb : EngOf(q) = e =>
                           \A m \in DOMAIN slots[q] : slots[q][m] = slots[r][n] => q = r /\ m = n
    BY SMTT(30), <1>1 DEF ForwardsOwn, EngOf
  <2>1. slots[r][n] # None
    BY SMTT(30), ScatterAssumption DEF TypeInv, Held
  <2> QED BY SMTT(30), <1>1, <1>2, <1>3, <2>1 DEF ForwardsOwn, Exclusive
<1> QED BY <1>4, <1>5, <1>6 DEF Exclusive

\* A combine request is given up: its reservations are given back.
LEMMA ExclusiveFreePending ==
  ASSUME TypeInv, NEW c \in Comb, FreePending(c), UNCHANGED <<entry, slots>>, Exclusive(Home[c])
  PROVE  Exclusive(Home[c])'
<1> DEFINE e == Home[c]
<1>0. TypeOK /\ e \in Eng
  BY ScatterAssumption DEF TypeInv
<1>1. /\ \A k \in Key : dst'[k] = IF k[1] = c THEN None ELSE dst[k]
      /\ \A s \in free'[e] : s \in free[e] \/ \E k \in Key : k[1] = c /\ s = dst[k] /\ s # None
  BY SMTT(30), <1>0 DEF FreePending, KeysOf, TypeOK
<1>2. \A k \in Key : k[1] = c => HomeOf(k) = e
  BY DEF HomeOf
<1>3. EntriesOwn(e)'
  BY SMTT(30), <1>1, <1>2 DEF EntriesOwn, ReservedOwn, Exclusive
<1>4. ReservedOwn(e)'
  BY SMTT(30), <1>1, <1>2 DEF ReservedOwn, Exclusive
<1>5. ForwardsOwn(e)'
  <2> SUFFICES ASSUME NEW r \in Key \cup Comb, EngOf(r) = e, NEW n \in DOMAIN slots[r]
               PROVE  /\ slots[r][n] \notin free'[e] /\ \A h \in Seg : entry[e][h] # slots[r][n]
                      /\ \A k \in Key : HomeOf(k) = e => dst'[k] # slots[r][n]
                      /\ \A q \in Key \cup Comb : EngOf(q) = e =>
                           \A m \in DOMAIN slots[q] : slots[q][m] = slots[r][n] => q = r /\ m = n
    BY SMTT(30) DEF ForwardsOwn, EngOf
  <2>1. slots[r][n] # None
    BY SMTT(30), ScatterAssumption DEF TypeInv, Held
  <2> QED BY SMTT(30), <1>1, <1>2, <2>1 DEF ForwardsOwn, Exclusive
<1> QED BY <1>3, <1>4, <1>5 DEF Exclusive

\* A request leaves its forward: of its slots some become entries, others are
\* given back.
LEMMA ExclusiveLeft ==
  ASSUME TypeInv, NEW r \in Key \cup Comb, NEW e \in Eng, e = EngOf(r), Exclusive(e),
         UNCHANGED dst, slots' = [slots EXCEPT ![r] = NoSlots],
         NEW F \in SUBSET DOMAIN slots[r], NEW h \in Seg,
         free'[e] = free[e] \cup {slots[r][n] : n \in F},
         \A g \in Seg : g # h => entry'[e][g] = entry[e][g],
         \/ entry'[e][h] = entry[e][h]
         \/ \E n \in DOMAIN slots[r] \ F : entry'[e][h] = slots[r][n]
  PROVE  Exclusive(e)'
<1>1. /\ \A q \in Key \cup Comb : \A m \in DOMAIN slots'[q] : q # r /\ m \in DOMAIN slots[q]
                                                             /\ slots'[q][m] = slots[q][m]
      /\ \A s \in free'[e] : s \in free[e] \/ \E n \in F : s = slots[r][n]
  BY DEF TypeInv, TypeOK, NoSlots
<1>2. \A n \in DOMAIN slots[r] : slots[r][n] # None
  BY SMTT(30), ScatterAssumption DEF TypeInv, Held
<1>3. EntriesOwn(e)'
  BY SMTT(30), <1>1, <1>2 DEF EntriesOwn, ForwardsOwn, Exclusive
<1>4. ReservedOwn(e)'
  BY SMTT(30), <1>1, <1>2 DEF ReservedOwn, ForwardsOwn, Exclusive
<1>5. ForwardsOwn(e)'
  <2> SUFFICES ASSUME NEW p \in Key \cup Comb, EngOf(p) = e, NEW n \in DOMAIN slots'[p]
               PROVE  /\ slots'[p][n] \notin free'[e] /\ \A g \in Seg : entry'[e][g] # slots'[p][n]
                      /\ \A k \in Key : HomeOf(k) = e => dst[k] # slots'[p][n]
                      /\ \A q \in Key \cup Comb : EngOf(q) = e =>
                           \A m \in DOMAIN slots'[q] : slots'[q][m] = slots'[p][n] => q = p /\ m = n
    BY SMTT(30) DEF ForwardsOwn, EngOf
  <2>1. p # r /\ n \in DOMAIN slots[p] /\ slots'[p][n] = slots[p][n]
    BY <1>1
  <2>2. /\ slots[p][n] \notin free[e] /\ \A g \in Seg : entry[e][g] # slots[p][n]
        /\ \A k \in Key : HomeOf(k) = e => dst[k] # slots[p][n]
        /\ \A q \in Key \cup Comb : EngOf(q) = e =>
             \A m \in DOMAIN slots[q] : slots[q][m] = slots[p][n] => q = p /\ m = n
    BY <2>1 DEF ForwardsOwn, Exclusive
  <2>3. \A m \in DOMAIN slots[r] : slots[r][m] # slots[p][n]
    BY <2>1, <2>2
  <2>4. slots'[p][n] \notin free'[e]
    BY <1>1, <2>1, <2>2, <2>3
  <2>5. \A g \in Seg : entry'[e][g] # slots'[p][n]
    BY <2>1, <2>2, <2>3
  <2>6. \A q \in Key \cup Comb : EngOf(q) = e =>
          \A m \in DOMAIN slots'[q] : slots'[q][m] = slots'[p][n] => q = p /\ m = n
    <3> SUFFICES ASSUME NEW q \in Key \cup Comb, EngOf(q) = e, NEW m \in DOMAIN slots'[q],
                        slots'[q][m] = slots'[p][n]
                 PROVE  q = p /\ m = n
      OBVIOUS
    <3>1. m \in DOMAIN slots[q] /\ slots'[q][m] = slots[q][m]
      BY <1>1
    <3>2. slots[q][m] = slots[p][n]
      BY <2>1, <3>1
    <3> QED BY <2>2, <3>1, <3>2
  <2> QED BY <2>1, <2>2, <2>4, <2>5, <2>6
<1> QED BY <1>3, <1>4, <1>5 DEF Exclusive

-----------------------------------------------------------------------------
(* Slots have one owner: batches, results and ends *)

\* A batch: every need gets a slot of the pool of its own.
LEMMA ExclusiveLaunch ==
  ASSUME TypeInv, NEW e \in Eng, Launch(e), Exclusive(e)
  PROVE  Exclusive(e)'
<1>0. TypeOK
  BY DEF TypeInv
<1>1. PICK R \in Batches(e) : \E V \in Evictions(e, Cardinality(BatchNeeds(R)), BatchHits(R)) :
         /\ entry' = [entry EXCEPT ![e] = Without(e, V)]
         /\ free' = [free EXCEPT ![e] = Pool(e, V) \ Range(Given(Pool(e, V), BatchNeeds(R)))]
         /\ slots' = [r \in Key \cup Comb |->
                        IF r \in R THEN [n \in Needs(r) |-> Given(Pool(e, V), BatchNeeds(R))[<<r, n>>]]
                        ELSE slots[r]]
  BY DEF Launch
<1>2. PICK V \in Evictions(e, Cardinality(BatchNeeds(R)), BatchHits(R)) :
         /\ entry' = [entry EXCEPT ![e] = Without(e, V)]
         /\ free' = [free EXCEPT ![e] = Pool(e, V) \ Range(Given(Pool(e, V), BatchNeeds(R)))]
         /\ slots' = [r \in Key \cup Comb |->
                        IF r \in R THEN [n \in Needs(r) |-> Given(Pool(e, V), BatchNeeds(R))[<<r, n>>]]
                        ELSE slots[r]]
  BY <1>1
<1> DEFINE f == Given(Pool(e, V), BatchNeeds(R))
<1>3. /\ Cardinality(BatchNeeds(R)) \in Nat /\ f \in [BatchNeeds(R) -> Pool(e, V)]
      /\ \A a, b \in BatchNeeds(R) : f[a] = f[b] => a = b
      /\ \A r \in R : \A n \in Needs(r) : <<r, n>> \in BatchNeeds(R)
  BY <1>0, LaunchGives
<1>4. Pool(e, V) \subseteq Slot /\ UNCHANGED dst
  BY SMTT(30), <1>0, <1>3, EvictionFacts DEF Launch
<1>5. /\ \A h \in Seg : h \notin V /\ entry[e][h] # None => entry[e][h] \notin Pool(e, V)
      /\ \A k \in Key : HomeOf(k) = e /\ dst[k] # None => dst[k] \notin Pool(e, V)
      /\ \A r \in Key \cup Comb : EngOf(r) = e => \A m \in DOMAIN slots[r] : slots[r][m] \notin Pool(e, V)
  BY <1>3, PoolOwned
<1>6. /\ \A h \in Seg : entry'[e][h] = IF h \in V THEN None ELSE entry[e][h]
      /\ free'[e] = Pool(e, V) \ Range(f)
      /\ \A a \in BatchNeeds(R) : f[a] \notin free'[e] /\ f[a] \in Pool(e, V) /\ f[a] # None
      /\ free'[e] \subseteq Pool(e, V)
  BY SMTT(30), <1>0, <1>2, <1>3, <1>4, ScatterAssumption DEF Without, TypeOK, Range
<1>7. ASSUME NEW r \in Key \cup Comb, NEW n \in DOMAIN slots'[r]
      PROVE  \/ r \in R /\ <<r, n>> \in BatchNeeds(R) /\ slots'[r][n] = f[<<r, n>>]
             \/ r \notin R /\ n \in DOMAIN slots[r] /\ slots'[r][n] = slots[r][n]
  <2>1. CASE r \in R
    <3>1. slots'[r] = [m \in Needs(r) |-> f[<<r, m>>]]
      BY <1>2, <2>1
    <3> HIDE DEF f
    <3> QED BY <1>3, <1>7, <2>1, <3>1
  <2>2. CASE r \notin R
    BY <1>2, <1>7, <2>2
  <2> QED BY <2>1, <2>2
<1> HIDE DEF f
<1>8. EntriesOwn(e)'
  BY <1>5, <1>6 DEF EntriesOwn, Exclusive
<1>9. ReservedOwn(e)'
  BY <1>4, <1>5, <1>6 DEF ReservedOwn, Exclusive
<1>10. ForwardsOwn(e)'
  <2> SUFFICES ASSUME NEW r \in Key \cup Comb, EngOf(r) = e, NEW n \in DOMAIN slots'[r]
               PROVE  /\ slots'[r][n] \notin free'[e] /\ \A h \in Seg : entry'[e][h] # slots'[r][n]
                      /\ \A k \in Key : HomeOf(k) = e => dst[k] # slots'[r][n]
                      /\ \A q \in Key \cup Comb : EngOf(q) = e =>
                           \A m \in DOMAIN slots'[q] : slots'[q][m] = slots'[r][n] => q = r /\ m = n
    BY <1>4 DEF ForwardsOwn, EngOf
  <2>1. CASE r \in R
    <3>1. <<r, n>> \in BatchNeeds(R) /\ slots'[r][n] = f[<<r, n>>]
      BY <1>7, <2>1
    <3>2. slots'[r][n] \in Pool(e, V) /\ slots'[r][n] # None /\ slots'[r][n] \notin free'[e]
      BY <1>6, <3>1
    <3>3. ASSUME NEW q \in Key \cup Comb, EngOf(q) = e, NEW m \in DOMAIN slots'[q],
                 slots'[q][m] = slots'[r][n]
          PROVE  q = r /\ m = n
      <4>1. q \in R /\ <<q, m>> \in BatchNeeds(R) /\ slots'[q][m] = f[<<q, m>>]
        BY SMTT(30), <1>5, <1>7, <3>2, <3>3
      <4>2. <<q, m>> = <<r, n>>
        BY <1>3, <3>1, <3>3, <4>1
      <4> QED BY <4>2
    <3> QED BY <1>5, <1>6, <3>2, <3>3
  <2>2. CASE r \notin R
    <3>1. n \in DOMAIN slots[r] /\ slots'[r][n] = slots[r][n]
      BY <1>7, <2>2
    <3>2. slots'[r][n] \notin Pool(e, V) /\ slots'[r][n] # None
      BY SMTT(30), <1>5, <3>1, ScatterAssumption DEF TypeInv, Held
    <3>3. ASSUME NEW q \in Key \cup Comb, EngOf(q) = e, NEW m \in DOMAIN slots'[q],
                 slots'[q][m] = slots'[r][n]
          PROVE  q = r /\ m = n
      <4>1. m \in DOMAIN slots[q] /\ slots'[q][m] = slots[q][m]
        BY <1>6, <1>7, <3>2, <3>3
      <4>2. ForwardsOwn(e)
        BY DEF Exclusive
      <4>3. slots[q][m] = slots[r][n]
        BY <3>1, <3>3, <4>1
      <4>4. \A i \in DOMAIN slots[q] : slots[q][i] = slots[r][n] => q = r /\ i = n
        BY <3>1, <3>2, <3>3, <4>2 DEF ForwardsOwn
      <4> QED BY <4>1, <4>3, <4>4
    <3>4. /\ \A h \in Seg : entry[e][h] # slots[r][n]
          /\ \A k \in Key : HomeOf(k) = e => dst[k] # slots[r][n]
      BY <3>1 DEF ForwardsOwn, Exclusive
    <3>5. \A h \in Seg : entry'[e][h] # slots'[r][n]
      BY <1>6, <3>1, <3>2, <3>4
    <3>6. \A k \in Key : HomeOf(k) = e => dst[k] # slots'[r][n]
      BY <3>1, <3>4
    <3>7. slots'[r][n] \notin free'[e]
      BY <1>6, <3>2
    <3> QED BY <3>3, <3>5, <3>6, <3>7
  <2> QED BY <2>1, <2>2
<1> QED BY <1>8, <1>9, <1>10 DEF Exclusive

\* The result of a sub-request.
LEMMA ExclusiveResult ==
  ASSUME TypeInv, NEW k \in Key, SubResult(k), NEW e \in Eng, e = Worker[k], Exclusive(e)
  PROVE  Exclusive(e)'
<1> DEFINE h == SegOf(k)
           M == {h} \ Short
           n == <<"public", h>>
<1>0. TypeOK /\ h \in Seg /\ e = EngOf(k)
  BY KeyType DEF TypeInv, EngOf
<1>1. /\ sub[k] = "running" /\ UNCHANGED dst /\ slots' = [slots EXCEPT ![k] = NoSlots]
      /\ entry'[e] = Registered(e, k, M) /\ free'[e] = free[e] \cup GivenBack(e, k, M)
  BY <1>0 DEF SubResult, TypeOK
<1>2. n \in DOMAIN slots[k]
  BY <1>1 DEF TypeInv, Held
<1>3. \A g \in Seg : g # h => entry'[e][g] = entry[e][g]
  BY <1>1 DEF Registered, NewSegs
<1>4. CASE NewSegs(e, M) = M
  <2>1. GivenBack(e, k, M) = {}
    BY <1>4 DEF GivenBack, Public
  <2>2. free'[e] = free[e] \cup {slots[k][m] : m \in {}}
    BY <1>1, <2>1
  <2>3. entry'[e][h] = entry[e][h] \/ \E m \in DOMAIN slots[k] \ {} : entry'[e][h] = slots[k][m]
    BY <1>0, <1>1, <1>2 DEF Registered
  <2>4. {} \in SUBSET DOMAIN slots[k] /\ k \in Key \cup Comb
    OBVIOUS
  <2> HIDE DEF n, h, M
  <2> QED BY <2>4, <1>0, <1>1, <1>2, <1>3, <2>2, <2>3, ExclusiveLeft
<1>5. CASE NewSegs(e, M) # M
  <2>1. NewSegs(e, M) = {} /\ M = {h}
    BY <1>5 DEF NewSegs
  <2>2. Public(M \ NewSegs(e, M)) = {n}
    BY SMTT(30), <2>1 DEF Public
  <2>3. free'[e] = free[e] \cup {slots[k][m] : m \in {n}}
    BY <1>1, <2>2 DEF GivenBack
  <2>4. entry'[e][h] = entry[e][h]
    BY <1>0, <1>1, <2>1 DEF Registered
  <2>5. {n} \in SUBSET DOMAIN slots[k] /\ k \in Key \cup Comb
    BY <1>2
  <2> HIDE DEF n, h, M
  <2> QED BY <1>0, <1>1, <1>3, <2>3, <2>4, <2>5, ExclusiveLeft
<1> QED BY <1>4, <1>5

\* The end of a combine request, which has registered nothing.
LEMMA ExclusiveEnd ==
  ASSUME PinInv, NEW c \in Comb, SendDone(c), Exclusive(Home[c])
  PROVE  Exclusive(Home[c])'
<1> DEFINE e == Home[c]
<1>0. TypeOK /\ TypeInv /\ e \in Eng /\ e = EngOf(c) /\ comb[c] = "sending"
  BY ScatterAssumption DEF PinInv, TypeInv, EngOf, SendDone, Items
<1>1. Missed(c) = {} /\ entry' = entry
  BY <1>0, NothingMissed, NothingRegistered
<1>2. GivenBack(e, c, {}) = {}
  BY DEF GivenBack, NewSegs, Public
<1>3. /\ free'[e] = free[e] \cup {slots[c][n] : n \in EndFreed(c)}
      /\ slots' = [slots EXCEPT ![c] = NoSlots] /\ UNCHANGED dst
  <2>1. free' = [free EXCEPT ![e] = @ \cup GivenBack(e, c, Missed(c)) \cup {slots[c][n] : n \in EndFreed(c)}]
    BY DEF SendDone
  <2> QED BY <1>0, <1>1, <1>2, <2>1 DEF SendDone, TypeOK
<1>4. EndFreed(c) \in SUBSET DOMAIN slots[c]
  BY DEF EndFreed
<1>5. PICK h \in Seg : TRUE
  <2>1. Prompt[c] \in Seq(Seg) /\ Prompt[c] # <<>>
    BY ScatterAssumption
  <2>2. Prompt[c][1] \in Seg
    BY SMTT(30), <2>1
  <2> QED BY <2>2
<1> QED BY <1>0, <1>1, <1>3, <1>4, <1>5, ExclusiveLeft

\* Every step but a flush keeps the slots of every engine apart.
LEMMA ExclusiveStep ==
  ASSUME "flush" \notin Faults, PinInv, Next, NEW e \in Eng, Exclusive(e)
  PROVE  Exclusive(e)'
<1>0. TypeInv /\ TypeOK /\ Fresh /\ DOMAIN slots = Key \cup Comb
  BY DEF PinInv, TypeInv, TypeOK
<1>1. ASSUME UNCHANGED <<entry, free, dst, slots>> PROVE Exclusive(e)'
  BY <1>1, ExclusiveKept
<1>2. ASSUME NEW k \in Key, WorkerStep(k) PROVE Exclusive(e)'
  <2>1. CASE SubResult(k) /\ Worker[k] = e
    BY <1>0, <2>1, ExclusiveResult
  <2>2. CASE SubResult(k) /\ Worker[k] # e
    <3>1. EngOf(k) # e /\ entry'[e] = entry[e] /\ free'[e] = free[e] /\ UNCHANGED dst
      BY <1>0, <2>2, KeyType DEF EngOf, SubResult, TypeOK
    <3>2. \A r \in Key \cup Comb : EngOf(r) = e => slots'[r] = slots[r]
      BY <1>0, <2>2, <3>1 DEF SubResult
    <3> QED BY <3>1, <3>2, ExclusiveKept
  <2>3. CASE ~SubResult(k)
    BY <1>1, <1>2, <2>3 DEF WorkerStep, RecvSub, RecvHandle, PushPending, Reap, HitRetire
  <2> QED BY <2>1, <2>2, <2>3
<1>3. ASSUME NEW k \in Key, HomeStep(k) PROVE Exclusive(e)'
  <2>1. CASE HomeOf(k) = e
    BY <1>0, <1>3, <2>1, ExclusivePrealloc, ExclusiveInject DEF HomeStep
  <2>2. CASE HomeOf(k) # e
    <3>1. Home[k[1]] # e /\ Home[k[1]] \in Eng
      BY <2>2, KeyType DEF HomeOf
    <3>2. \A j \in Key : HomeOf(j) = e => j # k
      BY <2>2
    <3>3. CASE Prealloc(k)
      BY <1>0, <3>1, <3>2, <3>3, ExclusiveKept DEF Prealloc, TypeOK
    <3>4. CASE Inject(k)
      <4>1. dst' = [dst EXCEPT ![k] = None] /\ slots' = slots
        BY <3>4 DEF Inject
      <4>2. entry'[e] = entry[e] /\ free'[e] = free[e]
        BY <1>0, <2>2, <3>4 DEF Inject, TypeOK
      <4>3. \A j \in Key : HomeOf(j) = e => dst'[j] = dst[j]
        BY <1>0, <3>2, <4>1 DEF TypeOK
      <4> QED BY <4>1, <4>2, <4>3, ExclusiveKept
    <3> QED BY <1>3, <3>3, <3>4 DEF HomeStep
  <2> QED BY <2>1, <2>2
<1>4. ASSUME NEW c \in Comb, CombineStep(c) PROVE Exclusive(e)'
  <2>1. CASE RecvCombine(c) \/ Gate(c) \/ Bootstrapped(c)
    BY <1>1, <2>1 DEF RecvCombine, Gate, Bootstrapped
  <2>2. CASE Release(c)
    <3>1. CASE ~Late(c)
      BY <1>1, <2>2, <3>1 DEF Release
    <3>2. CASE Late(c)
      <4>1. FreePending(c) /\ UNCHANGED <<entry, slots>>
        BY <2>2, <3>2 DEF Release
      <4>2. CASE Home[c] = e
        BY <1>0, <4>1, <4>2, ExclusiveFreePending
      <4>3. CASE Home[c] # e
        <5>1. free'[e] = free[e]
          BY <1>0, <4>1, <4>3 DEF FreePending, TypeOK
        <5>2. \A j \in Key : HomeOf(j) = e => dst'[j] = dst[j]
          BY <4>1, <4>3 DEF FreePending, KeysOf, HomeOf
        <5> QED BY <4>1, <5>1, <5>2, ExclusiveKept
      <4> QED BY <4>2, <4>3
    <3> QED BY <3>1, <3>2
  <2>3. CASE CombineResult(c)
    BY <1>1, <2>3, NothingRegistered DEF CombineResult
  <2>4. CASE SendDone(c)
    <3>1. CASE Home[c] = e
      BY <2>4, <3>1, ExclusiveEnd
    <3>2. CASE Home[c] # e
      <4>1. EngOf(c) # e /\ entry'[e] = entry[e] /\ free'[e] = free[e] /\ UNCHANGED dst
        BY <1>0, <2>4, <3>2 DEF EngOf, SendDone, TypeOK
      <4>2. \A r \in Key \cup Comb : EngOf(r) = e => slots'[r] = slots[r]
        BY <1>0, <2>4, <4>1 DEF SendDone
      <4> QED BY <4>1, <4>2, ExclusiveKept
    <3> QED BY <3>1, <3>2
  <2> QED BY <1>4, <2>1, <2>2, <2>3, <2>4 DEF CombineStep
<1>5. ASSUME NEW d \in Eng, Launch(d) PROVE Exclusive(e)'
  <2>1. CASE d = e
    BY <1>0, <1>5, <2>1, ExclusiveLaunch
  <2>2. CASE d # e
    <3>1. PICK R \in Batches(d) : \E f : slots' = [r \in Key \cup Comb |-> IF r \in R THEN f[r] ELSE slots[r]]
      <4>1. PICK R \in Batches(d) : \E V \in Evictions(d, Cardinality(BatchNeeds(R)), BatchHits(R)) : slots' = [r \in Key \cup Comb |->
                        IF r \in R THEN [n \in Needs(r) |-> Given(Pool(d, V), BatchNeeds(R))[<<r, n>>]]
                        ELSE slots[r]]
        BY <1>5 DEF Launch
      <4>2. PICK V \in Evictions(d, Cardinality(BatchNeeds(R)), BatchHits(R)) : slots' = [r \in Key \cup Comb |->
                        IF r \in R THEN [n \in Needs(r) |-> Given(Pool(d, V), BatchNeeds(R))[<<r, n>>]]
                        ELSE slots[r]]
        BY <4>1
      <4>3. slots' = [r \in Key \cup Comb |-> IF r \in R THEN slots'[r] ELSE slots[r]]
        BY <4>2
      <4> QED BY <4>3
    <3>2. \A r \in R : EngOf(r) = d
      BY KeyType DEF Batches, Waiting, EngOf
    <3>3. \A r \in Key \cup Comb : EngOf(r) = e => slots'[r] = slots[r]
      BY <2>2, <3>1, <3>2
    <3>4. entry'[e] = entry[e] /\ free'[e] = free[e] /\ UNCHANGED dst
      BY <1>0, <1>5, <2>2 DEF Launch, TypeOK
    <3> QED BY <3>3, <3>4, ExclusiveKept
  <2> QED BY <2>1, <2>2
<1>6. ASSUME NEW d \in Eng, Move(d) \/ Spin(d) \/ Flush(d) PROVE Exclusive(e)'
  BY <1>1, <1>6 DEF Move, Spin, Flush, vars
<1>7. CASE World \/ (\E k \in Key : LoseSub(k)) \/ (\E c \in Comb : ClientAbort(c))
  BY <1>1, <1>7 DEF World, Land, Deadline, Peer, LoseSub, ClientAbort
<1> QED BY <1>2, <1>3, <1>4, <1>5, <1>6, <1>7 DEF Next, EngineStep, Tick

\* Slots that are kept apart have one owner.
LEMMA ExclusiveOwners ==
  ASSUME TypeInv, \A e \in Eng : Exclusive(e)
  PROVE  SlotsExclusive
<1> SUFFICES ASSUME NEW e \in Eng, NEW s \in Slot
             PROVE  Cardinality(Owners(e, s)) <= IF s \in free[e] THEN 0 ELSE 1
  BY DEF SlotsExclusive
<1>0. s # None /\ EntriesOwn(e) /\ ReservedOwn(e) /\ ForwardsOwn(e)
  BY ScatterAssumption DEF Exclusive
<1>1. ASSUME NEW o \in Owners(e, s)
      PROVE  \/ \E h \in Seg : o = <<"entry", h>> /\ entry[e][h] = s
             \/ \E k \in Key : o = <<"reserved", k>> /\ HomeOf(k) = e /\ dst[k] = s
             \/ \E r \in Key \cup Comb : o = <<"forward", r>> /\ EngOf(r) = e /\ \E n \in DOMAIN slots[r] : slots[r][n] = s
  <2>1. CASE \E h \in Seg : o = <<"entry", h>> /\ entry[e][h] = s
    BY <2>1
  <2>2. CASE \E k \in Pending(e) : o = <<"reserved", k>> /\ dst[k] = s
    BY <2>2 DEF Pending
  <2>3. CASE \E r \in Running(e) \cup {c \in Comb : Home[c] = e /\ comb[c] = "sending"} :
               o = <<"forward", r>> /\ s \in Range(slots[r])
    <3>1. PICK r \in Running(e) \cup {c \in Comb : Home[c] = e /\ comb[c] = "sending"} :
               o = <<"forward", r>> /\ s \in Range(slots[r])
      BY <2>3
    <3>2. r \in Key \cup Comb /\ EngOf(r) = e
      BY KeyType DEF Running, EngOf
    <3> QED BY <3>1, <3>2 DEF Range
  <2> QED BY <2>1, <2>2, <2>3 DEF Owners
<1>2. ASSUME NEW a \in Owners(e, s) PROVE s \notin free[e]
  BY SMTT(30), <1>0, <1>1 DEF EntriesOwn, ReservedOwn, ForwardsOwn
<1>3. ASSUME NEW a \in Owners(e, s), NEW b \in Owners(e, s) PROVE a = b
  BY SMTT(30), <1>0, <1>1 DEF EntriesOwn, ReservedOwn, ForwardsOwn
<1>4. CASE Owners(e, s) = {}
  BY SMTT(30), <1>4, FS_EmptySet
<1>5. CASE Owners(e, s) # {}
  <2>1. PICK a : a \in Owners(e, s)
    BY <1>5
  <2>2. Owners(e, s) = {a} /\ s \notin free[e]
    BY <1>2, <1>3, <2>1
  <2>3. Cardinality(Owners(e, s)) = 1
    BY <2>2, FS_Singleton
  <2> QED BY SMTT(30), <2>2, <2>3
<1> QED BY <1>4, <1>5

\* Through every arrival, timeout, failed write, abort and end of a request: no
\* slot is given back twice or handed out while in use, provided no other request
\* has the same segment on the engine and the cache is not flushed under the
\* requests that are parked.
THEOREM ScatterSlotsExclusive ==
  ASSUME Apart, ProtectedLocal, "flush" \notin Faults
  PROVE  Spec => []SlotsExclusive
<1> DEFINE Inv == PinInv /\ \A e \in Eng : Exclusive(e)
<1>1. Init => Inv
  <2> SUFFICES ASSUME Init, NEW e \in Eng PROVE Exclusive(e)
    BY PinInit
  <2>1. /\ \A h \in Seg : entry[e][h] = None
        /\ \A k \in Key : dst[k] = None
        /\ \A r \in Key \cup Comb : DOMAIN slots[r] = {}
    BY DEF Init, NoSlots
  <2> QED BY <2>1 DEF Exclusive, EntriesOwn, ReservedOwn, ForwardsOwn
<1>2. Inv /\ [Next]_vars => Inv'
  <2> SUFFICES ASSUME Inv, [Next]_vars PROVE Inv'
    OBVIOUS
  <2>1. PinInv'
    BY PinStep
  <2>2. CASE Next
    BY <2>1, <2>2, ExclusiveStep
  <2>3. CASE UNCHANGED vars
    BY <2>1, <2>3, ExclusiveKept DEF vars
  <2> QED BY <2>2, <2>3
<1>3. Inv => SlotsExclusive
  BY ExclusiveOwners DEF PinInv
<1> QED BY <1>1, <1>2, <1>3, PTL DEF Spec
=============================================================================
