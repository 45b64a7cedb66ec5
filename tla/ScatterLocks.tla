---------------------------- MODULE ScatterLocks ----------------------------
(***************************************************************************)
(* Every lock_ref on every engine is held by exactly one party that will   *)
(* release it.                                                             *)
(***************************************************************************)
EXTENDS ScatterPins

\* Leaves are given to Zenon; those that need arithmetic or nested function updates name SMT.
USE ZenonT(40) DEF cacheVars, reqVars, xferVars, envVars

-----------------------------------------------------------------------------
(* Counting the holders *)

\* The faults after which a hold is left behind, or a segment arrives for a
\* request that has already dropped its holds.
HoldsEnd ==
  /\ Faults \cap {"write_raise", "peer_fails", "abort", "flush"} = {}
  /\ "combine_late" \notin Faults \/ \A k \in Key : ~Local(k)
NoneShort == \A k \in Key : SegOf(k) \notin Short

One(P) == IF P THEN 1 ELSE 0

\* A request is given up only at its deadline, and only if all its segments come
\* from elsewhere.
Patient ==
  \A c \in Comb : /\ peer[c] # "failed"
                  /\ Late(c) => \A k \in Key : ~Local(k)

\* Who holds the segment of k on its two engines, exactly.
KeyLocks(k) ==
  LET h == SegOf(k)
      c == k[1]
      H == HomeOf(k)
      W == Worker[k]
  IN /\ lock[H][h] = One(Arrived(k) /\ Active(c)) + One(h \in live[c])
     /\ Arrived(k) /\ Active(c) => entry[H][h] # None
     /\ comb[c] = "done" => Arrived(k)
     /\ comb[c] = "gone" => ~Local(k) /\ dst[k] = None
     /\ handle[k] \in {"sent", "lost", "here", "used"} /\ dst[k] = None => Sent(k) \/ comb[c] = "gone"
     /\ ~Local(k) => /\ lock[W][h] = One(k \in push) + One(k \in infl)
                     /\ k \in push \cup infl => entry[W][h] # None

\* A segment no key has on engine e.
Stranger(e, h) == \A k \in Key : SegOf(k) = h => e \notin {Worker[k], HomeOf(k)}

\* Nobody is given up too early.
LEMMA PatientStep ==
  ASSUME HoldsEnd, TypeInv, Patient, Next
  PROVE  Patient'
<1>0. TypeOK
  BY DEF TypeInv
<1>1. ASSUME UNCHANGED <<late, peer>> PROVE Patient'
  BY <1>1 DEF Patient, Late
<1>2. ASSUME NEW k \in Key, WorkerStep(k) PROVE Patient'
  BY <1>1, <1>2 DEF WorkerStep, RecvSub, RecvHandle, PushPending, Reap, HitRetire, SubResult
<1>3. ASSUME NEW k \in Key, HomeStep(k) PROVE Patient'
  BY <1>1, <1>3 DEF HomeStep, Prealloc, Inject
<1>4. ASSUME NEW c \in Comb, CombineStep(c) PROVE Patient'
  <2>1. UNCHANGED late
    BY <1>4 DEF CombineStep, RecvCombine, Gate, Release, Bootstrapped, CombineResult, SendDone
  <2>2. UNCHANGED peer
    BY <1>4 DEF CombineStep, RecvCombine, Gate, Release, AbortRequest, Items, Bootstrapped, CombineResult, SendDone
  <2> QED BY <1>1, <2>1, <2>2
<1>5. ASSUME NEW e \in Eng, Tick(e) \/ Spin(e) \/ Flush(e) PROVE Patient'
  BY <1>1, <1>5 DEF Tick, Move, Launch, Spin, Flush, vars
<1>6. ASSUME NEW k \in Key, LoseSub(k) PROVE Patient'
  BY <1>1, <1>6 DEF LoseSub
<1>7. ASSUME NEW c \in Comb, ClientAbort(c) PROVE Patient'
  BY <1>7 DEF ClientAbort, HoldsEnd
<1>8. ASSUME NEW k \in Key, NEW p \in Part, Land(k, p) PROVE Patient'
  BY <1>1, <1>8 DEF Land
<1>9. ASSUME NEW d, Deadline(d) PROVE Patient'
  <2>1. late' = late \cup {d} /\ UNCHANGED peer
    BY <1>9 DEF Deadline
  <2>2. ASSUME NEW c \in Comb, d = <<"combine", c>> PROVE \A k \in Key : ~Local(k)
    BY <1>9, <2>2 DEF Deadline, HoldsEnd
  <2> QED BY <2>1, <2>2 DEF Patient, Late
<1>10. ASSUME NEW c \in Comb, Peer(c) PROVE Patient'
  <2>1. UNCHANGED late /\ \E p \in {"ok", "sent"} : peer' = [peer EXCEPT ![c] = p]
    BY <1>10 DEF Peer, HoldsEnd
  <2> QED BY <1>0, <2>1 DEF Patient, Late, TypeOK
<1> QED
  BY <1>2, <1>3, <1>4, <1>5, <1>6, <1>7, <1>8, <1>9, <1>10 DEF Next, EngineStep, World

\* A foreign step keeps the account.
LEMMA LocksForeign ==
  ASSUME TypeInv, NEW k \in Key, KeyLocks(k), Foreign(k)
  PROVE  KeyLocks(k)'
<1> DEFINE h == SegOf(k)
           c == k[1]
           H == HomeOf(k)
           W == Worker[k]
<1>0. lock[H][h] \in Nat /\ lock[W][h] \in Nat /\ H = Home[c]
  BY SMTT(30), KeyType DEF HomeOf, TypeInv, TypeOK
<1>1. /\ lock'[H][h] = lock[H][h] /\ lock'[W][h] = lock[W][h]
      /\ entry'[H][h] = entry[H][h] \/ (lock[H][h] = 0 /\ entry'[H][h] = None)
      /\ entry'[W][h] = entry[W][h] \/ (lock[W][h] = 0 /\ entry'[W][h] = None)
  BY DEF Foreign, Undisturbed
<1>2. KeyKept(k) /\ comb'[c] = comb[c]
  BY DEF Foreign, CombKept
<1>3. h \in live'[c] <=> h \in live[c]
  <2>1. h \in live[c] => lock[H][h] # 0
    BY SMTT(30), <1>0 DEF KeyLocks, One
  <2> QED BY <1>0, <2>1 DEF Foreign, CombKept
<1>4. (Arrived(k)' <=> Arrived(k)) /\ (Active(c)' <=> Active(c)) /\ (Sent(k)' <=> Sent(k))
  BY <1>2 DEF KeyKept, Arrived, Sent, Active
<1>5. Arrived(k) /\ Active(c) => lock[H][h] # 0
  BY SMTT(30), <1>0 DEF KeyLocks, One
<1>6. ~Local(k) /\ k \in push \cup infl => lock[W][h] # 0
  BY SMTT(30), <1>0 DEF KeyLocks, One
<1> QED BY <1>0, <1>1, <1>2, <1>3, <1>4, <1>5, <1>6 DEF KeyLocks, KeyKept, One

\* What has arrived stays so, and nothing arrives before the transfer is fired.
LEMMA LocksFire ==
  ASSUME NEW k \in Key, Fresh, TypeInv, HoldsEnd, handle[k] = "here", NEW s, Fire(k, s), UNCHANGED dst,
         KeyLocks(k), ~Local(k)
  PROVE  /\ ~Arrived(k) /\ ~Arrived(k)' /\ infl' = infl \cup {k} /\ k \notin infl /\ handle'[k] = "used"
         /\ dst[k] = None => comb[k[1]] = "gone"
<1>0. "kv" \in Part /\ TypeOK
  BY DEF Part, TypeInv
<1>1. ~Sent(k) /\ k \notin infl
  BY <1>0 DEF Fresh, Sent
<1>2. /\ handle' = [handle EXCEPT ![k] = "used"] /\ infl' = infl \cup {k}
      /\ wire' = [wire EXCEPT ![k] = [p \in Part |-> "posted"]]
  BY DEF Fire, HoldsEnd
<1>3. wire'[k]["kv"] = "posted"
  BY <1>0, <1>2 DEF TypeOK
<1> QED BY <1>0, <1>1, <1>2, <1>3 DEF Arrived, Sent, KeyLocks, TypeOK

-----------------------------------------------------------------------------
(* The steps of a key *)

\* The steps of the engine that computes k, combined elsewhere.
LEMMA LocksWorker ==
  ASSUME Transition, HoldsEnd, NoneShort, TypeInv, Fresh, NEW k \in Key, HomePin(k), KeyLocks(k),
         WorkerStep(k), ~Local(k)
  PROVE  KeyLocks(k)'
<1> DEFINE h == SegOf(k)
           c == k[1]
           H == HomeOf(k)
           W == Worker[k]
<1>0. /\ TypeOK /\ lock[W] \in [Seg -> Nat] /\ lock[W][h] \in Nat /\ h \in Seg /\ W \in Eng /\ H \in Eng
      /\ W # H /\ "kv" \in Part
  BY SMTT(30), KeyType DEF TypeInv, TypeOK, Local, Part

\* nothing happens at home, and k has not arrived or stays so
<1>1. ASSUME UNCHANGED <<comb, live, dst>>, lock'[H] = lock[H], entry'[H] = entry[H],
             Arrived(k)' <=> Arrived(k), Sent(k)' <=> Sent(k),
             handle'[k] \in {"sent", "lost", "here", "used"} => handle[k] \in {"sent", "lost", "here", "used"},
             lock'[W][h] = One(k \in push') + One(k \in infl'),
             k \in push' \cup infl' => entry'[W][h] # None
      PROVE  KeyLocks(k)'
  BY <1>1 DEF KeyLocks, Active, Local
<1>2. CASE RecvSub(k)
  <2>1. sub[k] = "sent" /\ UNCHANGED <<entry, comb, live, handle, dst, wire, push, infl>>
    BY <1>2 DEF RecvSub
  <2>2. entry[W][h] = None
    BY <2>1 DEF HomePin
  <2>3. UNCHANGED lock
    BY <1>2, <2>2 DEF RecvSub
  <2> QED BY <1>1, <2>1, <2>3 DEF KeyLocks, Arrived, Sent
<1>3. CASE RecvHandle(k)
  <2>1. /\ handle[k] = "sent" /\ handle' = [handle EXCEPT ![k] = "here"]
        /\ UNCHANGED <<entry, lock, comb, live, dst, wire, push, infl>>
    BY <1>3 DEF RecvHandle
  <2>2. ~Sent(k) /\ ~Sent(k)'
    BY <1>0, <2>1 DEF Fresh, Sent
  <2> QED BY <1>0, <1>1, <2>1, <2>2 DEF KeyLocks, Arrived
<1>4. CASE PushPending(k)
  <2>1. /\ k \in push /\ push' = push \ {k} /\ UNCHANGED <<entry, comb, live, dst>>
        /\ handle[k] # "used" /\ k \notin infl
    BY <1>4 DEF PushPending, Items, Fresh
  <2>2. entry[W][h] # None /\ lock[W][h] = 1 /\ h \in Cached(W)
    BY SMTT(30), <1>0, <2>1 DEF KeyLocks, One, Cached
  <2>3. lock'[H] = lock[H]
    BY SMTT(30), <1>0, <1>4 DEF PushPending, TypeOK
  <2>4. CASE handle[k] = "here"
    <3>1. Fire(k, entry[W][h]) /\ lock' = [lock EXCEPT ![W] = Inc(Dec(@, {h}), {h})]
      BY <1>4, <2>2, <2>4 DEF PushPending
    <3>2. ~Arrived(k) /\ ~Arrived(k)' /\ infl' = infl \cup {k} /\ handle'[k] = "used"
      BY <2>1, <2>4, <3>1, LocksFire
    <3>3. lock'[W][h] = 1
      <4>1. lock'[W][h] = Inc(Dec(lock[W], {h}), {h})[h]
        BY <1>0, <3>1 DEF TypeOK
      <4>2. Dec(lock[W], {h})[h] = 0
        BY SMTT(30), <1>0, <2>2 DEF Dec
      <4>3. Inc(Dec(lock[W], {h}), {h})[h] = Dec(lock[W], {h})[h] + 1
        BY <1>0 DEF Inc
      <4> QED BY SMTT(30), <4>1, <4>2, <4>3
    <3>4. ~Sent(k) /\ ~Sent(k)'
      <4>1. \E s : Fire(k, s)
        BY <3>1
      <4>2. wire'[k]["kv"] = "posted"
        BY SMTT(30), <1>0, <3>1 DEF Fire, HoldsEnd, TypeOK
      <4> QED BY <1>0, <2>1, <4>2 DEF Fresh, Sent
    <3> QED BY SMTT(30), <1>0, <1>1, <2>1, <2>2, <2>3, <2>4, <3>2, <3>3, <3>4 DEF One
  <2>5. CASE handle[k] # "here"
    <3>1. UNCHANGED <<handle, src, infl, wire>> /\ lock' = [lock EXCEPT ![W] = Dec(@, {h} \cap Cached(W))]
      BY <1>4, <2>5 DEF PushPending
    <3>2. lock'[W][h] = 0
      BY SMTT(30), <1>0, <2>2, <3>1 DEF TypeOK, Dec
    <3>3. Arrived(k)' <=> Arrived(k)
      BY <2>1, <3>1 DEF Arrived, Sent, Local
    <3> QED BY SMTT(30), <1>0, <1>1, <2>1, <2>3, <3>1, <3>2, <3>3 DEF One, Sent
  <2> QED BY <2>4, <2>5
<1>5. CASE Reap(k)
  <2>1. /\ k \in infl /\ infl' = infl \ {k} /\ lock' = [lock EXCEPT ![W] = Dec(@, {h} \cap Cached(W))]
        /\ UNCHANGED <<entry, sub, comb, live, dst, handle, push, wire>>
    BY <1>5 DEF Reap, Items
  <2>2. k \notin push
    BY <2>1 DEF Fresh
  <2>3. lock[W][h] = 1 /\ h \in Cached(W)
    BY SMTT(30), <1>0, <2>1, <2>2 DEF KeyLocks, One, Cached
  <2>4. lock'[W][h] = 0 /\ lock'[H] = lock[H]
    BY SMTT(30), <1>0, <2>1, <2>3 DEF TypeOK, Dec
  <2>5. Arrived(k)' <=> Arrived(k)
    BY <2>1 DEF Arrived, Sent
  <2> QED BY SMTT(30), <1>1, <2>1, <2>2, <2>4, <2>5 DEF One, Sent
<1>6. CASE HitRetire(k)
  BY <1>6 DEF HitRetire, HomePin
<1>7. CASE SubResult(k)
  <2> DEFINE M == {h} \ Short
  <2>1. /\ sub[k] = "running" /\ UNCHANGED <<comb, live, dst>>
        /\ entry' = [entry EXCEPT ![W] = Registered(W, k, M)]
        /\ Retire(k, Registered(W, k, M), Protected(W, M))
    BY <1>7 DEF SubResult
  <2>2. entry[W][h] = None /\ entry'[W][h] = Registered(W, k, M)[h] /\ entry'[H] = entry[H]
    BY <1>0, <2>1 DEF HomePin, TypeOK
  <2>3. k \notin push /\ k \notin infl /\ lock[W][h] = 0 /\ M = {h}
    BY SMTT(30), <2>1 DEF Fresh, KeyLocks, One, NoneShort
  <2>4. NewSegs(W, M) = {h}
    BY <2>2, <2>3 DEF NewSegs
  <2>5. Registered(W, k, M)[h] # None
    <3>1. <<"public", h>> \in DOMAIN slots[k] /\ slots[k] \in [DOMAIN slots[k] -> Slot]
      BY <2>1 DEF TypeInv, Held
    <3> QED BY <1>0, <2>4, <3>1, ScatterAssumption DEF Registered
  <2>6. lock'[W][h] = 1 /\ lock'[H] = lock[H]
    <3>1. lock' = [lock EXCEPT ![W] = Handover(Inc(lock[W], {h}), h)]
      BY <2>1, <2>4, <2>5 DEF Retire, Protected
    <3>2. Inc(lock[W], {h}) \in [Seg -> Nat]
      BY <1>0, IncDecType
    <3>3. lock' = [lock EXCEPT ![W] = Inc(lock[W], {h})]
      BY <1>0, <3>1, <3>2, HandoverSame
    <3> QED BY SMTT(30), <1>0, <2>3, <3>3 DEF Inc, TypeOK
  <2> HIDE DEF M
  <2>7. CASE handle[k] = "here"
    <3>1. Fire(k, Registered(W, k, M)[h]) /\ UNCHANGED push
      BY <2>1, <2>5, <2>7 DEF Retire
    <3>2. ~Arrived(k) /\ ~Arrived(k)' /\ infl' = infl \cup {k} /\ handle'[k] = "used"
      BY <2>1, <2>7, <3>1, LocksFire
    <3>3. ~Sent(k) /\ ~Sent(k)'
      <4>1. wire'[k]["kv"] = "posted"
        BY SMTT(30), <1>0, <3>1 DEF Fire, HoldsEnd, TypeOK
      <4> QED BY <1>0, <2>7, <4>1 DEF Fresh, Sent
    <3>4. One(k \in push') = 0 /\ One(k \in infl') = 1
      BY <2>3, <3>1, <3>2 DEF One
    <3> QED BY SMTT(30), <1>0, <1>1, <2>1, <2>2, <2>5, <2>6, <2>7, <3>2, <3>3, <3>4
  <2>8. CASE handle[k] # "here"
    <3>1. push' = push \cup {k} /\ UNCHANGED <<infl, wire, src, handle>>
      BY <2>1, <2>8 DEF Retire
    <3>2. Arrived(k)' <=> Arrived(k)
      BY <2>1, <3>1 DEF Arrived, Sent, Local
    <3> QED BY SMTT(30), <1>0, <1>1, <2>1, <2>2, <2>3, <2>5, <2>6, <3>1, <3>2 DEF One, Sent
  <2> QED BY <2>7, <2>8
<1> QED BY <1>2, <1>3, <1>4, <1>5, <1>6, <1>7 DEF WorkerStep

\* A segment that is combined where it is computed: its retire is its arrival.
LEMMA LocksLocal ==
  ASSUME Transition, NoneShort, TypeInv, Fresh, NEW k \in Key, HomePin(k), CombInv(k[1]), KeyLocks(k),
         WorkerStep(k), Local(k)
  PROVE  KeyLocks(k)'
<1> DEFINE h == SegOf(k)
           c == k[1]
           H == HomeOf(k)
           W == Worker[k]
<1>0. /\ TypeOK /\ lock[W] \in [Seg -> Nat] /\ lock[W][h] \in Nat /\ h \in Seg /\ W \in Eng
      /\ W = H /\ c \in Comb /\ handle[k] = "none"
  BY SMTT(30), KeyType DEF TypeInv, TypeOK, Local, HomePin
<1>1. ASSUME UNCHANGED <<comb, live, dst, handle, wire, entry, lock>>,
             sub'[k] = "retired" <=> sub[k] = "retired"
      PROVE  KeyLocks(k)'
  BY <1>1 DEF KeyLocks, Arrived, Local, Active, Sent
<1>2. CASE RecvSub(k)
  <2>1. sub[k] = "sent" /\ UNCHANGED <<entry, comb, live, handle, dst, wire>>
    BY <1>2 DEF RecvSub
  <2>2. entry[W][h] = None
    BY <1>0, <2>1 DEF HomePin, Arrived, Local
  <2>3. UNCHANGED lock /\ sub' = [sub EXCEPT ![k] = "waiting"]
    BY <1>2, <2>2 DEF RecvSub
  <2> QED BY <1>0, <1>1, <2>1, <2>3 DEF TypeOK
<1>3. CASE RecvHandle(k) \/ PushPending(k) \/ Reap(k) \/ HitRetire(k)
  BY <1>3 DEF RecvHandle, PushPending, Reap, HitRetire, Items, HomePin
<1>4. CASE SubResult(k)
  <2> DEFINE M == {h} \ Short
  <2>1. /\ sub[k] = "running" /\ UNCHANGED <<comb, live, dst>>
        /\ entry' = [entry EXCEPT ![W] = Registered(W, k, M)]
        /\ Retire(k, Registered(W, k, M), Protected(W, M))
    BY <1>4 DEF SubResult
  <2>2. /\ ~Arrived(k) /\ sub'[k] = "retired" /\ UNCHANGED <<handle, wire>>
    BY <1>0, <2>1 DEF Arrived, Retire, TypeOK
  <2>3. /\ entry[W][h] = None /\ entry'[W][h] = Registered(W, k, M)[h] /\ h \notin live[c]
        /\ Arrived(k)'
    BY <1>0, <2>1, <2>2 DEF HomePin, TypeOK, Arrived, Local
  <2>4. Active(c) /\ comb[c] \notin {"done", "gone"}
    BY <1>0, <2>2, <2>3 DEF KeyLocks, HomePin, Active, NoneShort
  <2>5. lock[W][h] = 0 /\ NewSegs(W, M) = {h}
    <3>1. One(Arrived(k) /\ Active(c)) = 0 /\ One(h \in live[c]) = 0
      BY <2>2, <2>3 DEF One
    <3>2. lock[W][h] = 0
      BY SMTT(30), <1>0, <3>1 DEF KeyLocks
    <3> QED BY <2>3, <3>2 DEF NewSegs, NoneShort
  <2>6. Registered(W, k, M)[h] # None
    <3>1. <<"public", h>> \in DOMAIN slots[k] /\ slots[k] \in [DOMAIN slots[k] -> Slot]
      BY <2>1 DEF TypeInv, Held
    <3> QED BY <1>0, <2>5, <3>1, ScatterAssumption DEF Registered
  <2>7. lock'[W][h] = 1
    <3>1. lock' = [lock EXCEPT ![W] = Handover(Inc(lock[W], {h}), h)]
      BY <2>1, <2>5, <2>6 DEF Retire, Protected
    <3>2. Inc(lock[W], {h}) \in [Seg -> Nat]
      BY <1>0, IncDecType
    <3>3. lock' = [lock EXCEPT ![W] = Inc(lock[W], {h})]
      BY <1>0, <3>1, <3>2, HandoverSame
    <3> QED BY SMTT(30), <1>0, <2>5, <3>3 DEF Inc, TypeOK
  <2> HIDE DEF M
  <2>8. One(Arrived(k)' /\ Active(c)') = 1 /\ One(h \in live'[c]) = 0
    BY <2>1, <2>3, <2>4 DEF One, Active
  <2>9. comb'[c] # "done" /\ comb'[c] # "gone" /\ handle'[k] = "none"
    BY <1>0, <2>1, <2>2, <2>4
  <2> QED BY SMTT(30), <1>0, <2>3, <2>6, <2>7, <2>8, <2>9 DEF KeyLocks, Local
<1> QED BY <1>2, <1>3, <1>4 DEF WorkerStep

\* The steps that make a destination for k and take it in.
LEMMA LocksHome ==
  ASSUME NoneShort, TypeInv, Fresh, NEW k \in Key, HomePin(k), CombInv(k[1]), KeyLocks(k), HomeStep(k)
  PROVE  KeyLocks(k)'
<1> DEFINE h == SegOf(k)
           c == k[1]
           H == HomeOf(k)
           W == Worker[k]
<1>0. /\ TypeOK /\ lock[H] \in [Seg -> Nat] /\ lock[H][h] \in Nat /\ h \in Seg /\ c \in Comb /\ W \in Eng
      /\ H \in Eng /\ H = Home[c] /\ "kv" \in Part
  BY SMTT(30), KeyType DEF TypeInv, TypeOK, HomeOf, Part
<1>1. CASE Prealloc(k)
  <2>1. /\ comb[c] = "arriving" /\ handle[k] = "none" /\ ~Local(k) /\ W # H
        /\ UNCHANGED <<lock, sub, comb, push, infl, wire>>
    BY <1>1 DEF Prealloc, ToPrealloc, Local
  <2>2. ~Sent(k) /\ ~Sent(k)'
    BY <1>0, <2>1 DEF Fresh, Sent
  <2>3. h \notin live[c] /\ live'[c] \subseteq live[c]
    BY <1>0, <1>1, <2>1 DEF CombInv, Prealloc
  <2>4. entry'[W] = entry[W]
    BY <1>0, <1>1, <2>1 DEF Prealloc, TypeOK
  <2>5. \/ handle'[k] = "noroom" /\ dst'[k] = dst[k]
        \/ dst'[k] # None
    <3>1. CASE handle' = [handle EXCEPT ![k] = "noroom"] /\ UNCHANGED dst
      BY <1>0, <3>1 DEF TypeOK
    <3>2. ASSUME NEW V \in Evictions(H, 1, {}),
                 dst' = [dst EXCEPT ![k] = CHOOSE s \in Pool(H, V) : TRUE]
          PROVE  dst'[k] # None
      <4>1. dst'[k] \in Pool(H, V)
        BY <1>0, <3>2, ReservedFromPool DEF TypeOK
      <4>2. Pool(H, V) \subseteq Slot
        BY SMTT(30), <1>0, EvictionFacts
      <4> QED BY <4>1, <4>2, ScatterAssumption
    <3>3. \/ handle' = [handle EXCEPT ![k] = "noroom"] /\ UNCHANGED dst
          \/ \E V \in Evictions(H, 1, {}) : dst' = [dst EXCEPT ![k] = CHOOSE s \in Pool(H, V) : TRUE]
      BY <1>1 DEF Prealloc, HomeOf
    <3> QED BY <3>1, <3>2, <3>3
  <2>6. ~Arrived(k) /\ ~Arrived(k)'
    BY <2>1, <2>2 DEF Arrived, Local
  <2> QED BY <2>1, <2>2, <2>3, <2>4, <2>5, <2>6 DEF KeyLocks, One, Active, Local
<1>2. CASE Inject(k)
  <2>1. /\ dst[k] # None /\ Sent(k) /\ dst' = [dst EXCEPT ![k] = None]
        /\ lock' = [lock EXCEPT ![H] = Inc(@, {h})]
        /\ UNCHANGED <<sub, comb, live, handle, push, infl, wire>>
    BY <1>2 DEF Inject, Items, Pending
  <2>2. handle[k] # "none" /\ ~Local(k) /\ W # H
    BY <2>1 DEF Fresh, HomePin, Local
  <2>3. ~Arrived(k) /\ entry[H][h] = None
    BY <2>1, <2>2 DEF HomePin, Arrived
  <2>4. entry' = [entry EXCEPT ![H][h] = dst[k]]
    BY <1>2, <2>3 DEF Inject
  <2>5. h \notin live[c] /\ Active(c) /\ comb[c] \notin {"done", "gone"}
    BY <2>1, <2>2, <2>3 DEF HomePin, KeyLocks, Active, NoneShort
  <2>6. lock[H][h] = 0
    <3>1. lock[H][h] = One(Arrived(k) /\ Active(c)) + One(h \in live[c])
      BY DEF KeyLocks
    <3>2. One(Arrived(k) /\ Active(c)) = 0 /\ One(h \in live[c]) = 0
      BY <2>3, <2>5 DEF One
    <3> QED BY SMTT(30), <3>1, <3>2
  <2>7. /\ entry'[H][h] # None /\ entry'[W] = entry[W] /\ lock'[H][h] = 1 /\ lock'[W] = lock[W]
        /\ dst'[k] = None
    BY SMTT(30), <1>0, <2>1, <2>2, <2>4, <2>6 DEF TypeOK, Inc
  <2>8. Arrived(k)' /\ Sent(k)' /\ Active(c)'
    BY <2>1, <2>2, <2>5, <2>7 DEF Arrived, Sent, Local, Active
  <2>9. One(Arrived(k)' /\ Active(c)') = 1 /\ One(h \in live'[c]) = 0
    BY <2>1, <2>5, <2>8 DEF One
  <2>10. comb'[c] # "done" /\ comb'[c] # "gone"
    BY <2>1, <2>5
  <2>11. lock'[W][h] = One(k \in push') + One(k \in infl') /\ (k \in push' \cup infl' => entry'[W][h] # None)
    BY <2>1, <2>2, <2>7 DEF KeyLocks
  <2> QED BY SMTT(30), <2>7, <2>8, <2>9, <2>10, <2>11 DEF KeyLocks
<1> QED BY <1>1, <1>2 DEF HomeStep

-----------------------------------------------------------------------------
(* Combine requests and batches *)

\* The steps of the combine request of k: its result drops the arrival hold, its
\* end the locks of its admission.
LEMMA LocksCombine ==
  ASSUME Apart, NoneShort, Patient, PinInv, NEW k \in Key, KeyLocks(k), CombineStep(k[1])
  PROVE  KeyLocks(k)'
<1> DEFINE h == SegOf(k)
           c == k[1]
           H == HomeOf(k)
           W == Worker[k]
<1>0. /\ TypeOK /\ lock[H] \in [Seg -> Nat] /\ lock[H][h] \in Nat /\ h \in Seg /\ c \in Comb /\ W \in Eng
      /\ H \in Eng /\ H = Home[c] /\ HomePin(k) /\ CombInv(c) /\ h \notin Short
  BY SMTT(30), KeyType DEF PinInv, TypeInv, TypeOK, HomeOf, NoneShort

\* the locks stay as they are, and what is Active stays so
<1>1. ASSUME UNCHANGED <<entry, lock, sub, live, handle, wire, dst, push, infl>>,
             Active(c), Active(c)'
      PROVE  KeyLocks(k)'
  <2>1. (Arrived(k)' <=> Arrived(k)) /\ (Sent(k)' <=> Sent(k))
    BY <1>1 DEF Arrived, Sent
  <2>2. comb[c] \notin {"done", "gone"} /\ comb'[c] \notin {"done", "gone"}
    BY <1>1 DEF Active
  <2> QED BY <1>1, <2>1, <2>2 DEF KeyLocks, One
<1>2. CASE RecvCombine(c) \/ Gate(c)
  <2>1. UNCHANGED <<entry, lock, sub, live, handle, wire, dst, push, infl>>
    BY <1>2 DEF RecvCombine, Gate
  <2>2. Active(c) /\ Active(c)'
    BY SMTT(30), <1>0, <1>2 DEF RecvCombine, Gate, Active, TypeOK
  <2> QED BY <1>1, <2>1, <2>2
<1>3. CASE Bootstrapped(c)
  <2>1. UNCHANGED <<entry, lock, sub, live, handle, wire, dst, push, infl>>
    BY <1>3 DEF Bootstrapped
  <2>2. Active(c) /\ Active(c)'
    BY <1>0, <1>3 DEF Bootstrapped, Items, Active, Patient, TypeOK
  <2> QED BY <1>1, <2>1, <2>2
<1>4. CASE Release(c)
  <2>1. /\ UNCHANGED <<entry, sub, live, handle, wire, push, infl>> /\ comb[c] = "parked"
    BY <1>4 DEF Release, Items
  <2>2. CASE ~Late(c)
    <3>1. comb' = [comb EXCEPT ![c] = "queued"] /\ UNCHANGED <<dst, lock>>
      BY <1>4, <2>2 DEF Release
    <3>2. Active(c) /\ Active(c)'
      BY <1>0, <2>1, <3>1 DEF Active, TypeOK
    <3> QED BY <1>1, <2>1, <3>1, <3>2
  <2>3. CASE Late(c)
    <3>1. /\ comb' = [comb EXCEPT ![c] = "gone"] /\ FreePending(c)
          /\ lock' = [lock EXCEPT ![H] = DropHolds(@, c)] /\ ~Local(k) /\ W # H
      BY <1>0, <1>4, <2>3 DEF Release, Patient, Local
    <3>2. h \notin live[c] /\ dst'[k] = None /\ comb'[c] = "gone"
      BY <1>0, <2>1, <3>1 DEF CombInv, FreePending, KeysOf, TypeOK
    <3>3. lock'[H][h] = (IF lock[H][h] > 0 THEN lock[H][h] - 1 ELSE 0) /\ lock'[W] = lock[W]
      BY <1>0, <3>1, DropHoldsOne DEF TypeOK
    <3>4. One(h \in live[c]) = 0 /\ One(Arrived(k) /\ Active(c)) \in {0, 1}
      BY <3>2 DEF One
    <3>5. lock'[H][h] = 0
      BY SMTT(30), <1>0, <3>3, <3>4 DEF KeyLocks
    <3>6. ~Active(c)' /\ h \notin live'[c]
      BY <2>1, <3>2 DEF Active
    <3>7. One(Arrived(k)' /\ Active(c)') = 0 /\ One(h \in live'[c]) = 0
      BY <3>6 DEF One
    <3>8. lock'[W][h] = One(k \in push') + One(k \in infl') /\ (k \in push' \cup infl' => entry'[W][h] # None)
      BY <2>1, <3>1, <3>3 DEF KeyLocks
    <3>9. lock'[H][h] = One(Arrived(k)' /\ Active(c)') + One(h \in live'[c])
      BY SMTT(30), <3>5, <3>7
    <3> QED BY <3>1, <3>2, <3>6, <3>8, <3>9 DEF KeyLocks, Local
  <2> QED BY <2>2, <2>3
<1>5. CASE CombineResult(c)
  <2>1. /\ UNCHANGED <<entry, sub, live, handle, wire, dst, push, infl>> /\ comb[c] = "running"
        /\ lock' = [lock EXCEPT ![H] = DropHolds(@, c)] /\ comb' = [comb EXCEPT ![c] = "sending"]
    BY <1>0, <1>5, NothingRegistered DEF CombineResult
  <2>2. comb'[c] = "sending" /\ Active(c) /\ ~Active(c)' /\ h \in live[c] /\ h \in live'[c] /\ Arrived(k)
    BY <1>0, <2>1 DEF TypeOK, Active, HomePin
  <2>3. One(Arrived(k) /\ Active(c)) = 1 /\ One(h \in live[c]) = 1
    BY <2>2 DEF One
  <2>4. One(Arrived(k)' /\ Active(c)') = 0 /\ One(h \in live'[c]) = 1
    BY <2>2 DEF One
  <2>5. lock[H][h] = 2
    <3>1. lock[H][h] = One(Arrived(k) /\ Active(c)) + One(h \in live[c])
      BY DEF KeyLocks
    <3> QED BY SMTT(30), <2>3, <3>1
  <2>6. lock'[H][h] = 1 /\ (W # H => lock'[W] = lock[W])
    <3>1. DropHolds(lock[H], c)[h] = 1
      BY SMTT(30), <1>0, <2>5, DropHoldsOne
    <3> QED BY <1>0, <2>1, <3>1 DEF TypeOK
  <2>7. Sent(k)' <=> Sent(k)
    BY <2>1 DEF Sent
  <2>8. ~Local(k) => /\ lock'[W][h] = One(k \in push') + One(k \in infl')
                     /\ k \in push' \cup infl' => entry'[W][h] # None
    BY <2>1, <2>6 DEF KeyLocks, Local
  <2>9. lock'[H][h] = One(Arrived(k)' /\ Active(c)') + One(h \in live'[c])
    BY SMTT(30), <2>4, <2>6
  <2> QED BY <2>1, <2>2, <2>7, <2>8, <2>9 DEF KeyLocks, Local
<1>6. CASE SendDone(c)
  <2>1. /\ UNCHANGED <<entry, sub, handle, wire, dst, push, infl>> /\ comb[c] = "sending"
        /\ live' = [live EXCEPT ![c] = {}] /\ comb' = [comb EXCEPT ![c] = "done"]
        /\ lock' = [lock EXCEPT ![H] = Dec(@, live[c])]
    BY <1>0, <1>6, NothingRegistered DEF SendDone, Items
  <2>2. comb'[c] = "done" /\ ~Active(c) /\ ~Active(c)' /\ h \in live[c] /\ h \notin live'[c] /\ Arrived(k)
    BY <1>0, <2>1 DEF TypeOK, Active, HomePin
  <2>3. One(Arrived(k) /\ Active(c)) = 0 /\ One(h \in live[c]) = 1
    BY <2>2 DEF One
  <2>4. One(Arrived(k)' /\ Active(c)') = 0 /\ One(h \in live'[c]) = 0
    BY <2>2 DEF One
  <2>5. lock[H][h] = 1
    <3>1. lock[H][h] = One(Arrived(k) /\ Active(c)) + One(h \in live[c])
      BY DEF KeyLocks
    <3> QED BY SMTT(30), <2>3, <3>1
  <2>6. lock'[H][h] = 0 /\ (W # H => lock'[W] = lock[W])
    BY SMTT(30), <1>0, <2>1, <2>2, <2>5 DEF TypeOK, Dec
  <2>7. (Sent(k)' <=> Sent(k)) /\ Arrived(k)'
    BY <2>1, <2>2 DEF Sent, Arrived
  <2>8. ~Local(k) => /\ lock'[W][h] = One(k \in push') + One(k \in infl')
                     /\ k \in push' \cup infl' => entry'[W][h] # None
    BY <2>1, <2>6 DEF KeyLocks, Local
  <2>9. lock'[H][h] = One(Arrived(k)' /\ Active(c)') + One(h \in live'[c])
    BY SMTT(30), <2>4, <2>6
  <2> QED BY <2>1, <2>2, <2>7, <2>8, <2>9 DEF KeyLocks, Local
<1> QED BY <1>2, <1>3, <1>4, <1>5, <1>6 DEF CombineStep

\* A batch locks the hits of what it admits.
LEMMA LocksLaunch ==
  ASSUME Apart, NoneShort, PinInv, NEW k \in Key, KeyLocks(k), NEW e \in Eng, Launch(e)
  PROVE  KeyLocks(k)'
<1> DEFINE h == SegOf(k)
           c == k[1]
           H == HomeOf(k)
           W == Worker[k]
<1>0. /\ TypeOK /\ lock[H][h] \in Nat /\ lock[W][h] \in Nat /\ h \in Seg /\ c \in Comb /\ W \in Eng
      /\ H \in Eng /\ H = Home[c] /\ h \in Gated(c) /\ HomePin(k) /\ CombInv(c) /\ TypeInv
      /\ k \notin Comb /\ c \notin Key /\ h \notin Short
  BY SMTT(30), KeyType DEF PinInv, TypeInv, TypeOK, HomeOf, NoneShort
<1>1. PICK R : Admits(e, R, k)
  BY <1>0, LaunchAdmits
<1>2. /\ k \in R => sub[k] = "waiting"
      /\ c \in R => comb[c] = "waiting"
  BY <1>0, <1>1 DEF Admits, Waiting
<1>3. UNCHANGED <<handle, dst, wire, push, infl>>
  BY <1>1 DEF Admits
<1>4. (Arrived(k)' <=> Arrived(k)) /\ (Sent(k)' <=> Sent(k))
  <2>1. sub'[k] = "retired" <=> sub[k] = "retired"
    BY <1>1, <1>2 DEF Admits
  <2> QED BY <1>3, <2>1 DEF Arrived, Sent
<1>5. ~Local(k) => /\ lock'[W][h] = One(k \in push') + One(k \in infl')
                   /\ k \in push' \cup infl' => entry'[W][h] # None
  <2> SUFFICES ASSUME ~Local(k)
               PROVE  /\ lock'[W][h] = One(k \in push') + One(k \in infl')
                      /\ k \in push' \cup infl' => entry'[W][h] # None
    OBVIOUS
  <2>1. /\ lock'[W][h] = lock[W][h]
        /\ entry'[W][h] = entry[W][h] \/ lock[W][h] = 0
    BY <1>1 DEF Admits, Local
  <2>2. lock[W][h] = One(k \in push) + One(k \in infl) /\ (k \in push \cup infl => lock[W][h] # 0)
    BY SMTT(30) DEF KeyLocks, One
  <2> QED BY <1>3, <2>1, <2>2 DEF KeyLocks
<1>6. CASE c \in R
  <2>1. comb[c] = "waiting" /\ comb'[c] = "running" /\ live'[c] = Hits(c)
    BY <1>1, <1>2, <1>6 DEF Admits
  <2>2. entry[H][h] # None /\ Arrived(k) /\ h \in Hits(c) /\ h \notin live[c] /\ Active(c) /\ Active(c)'
    BY <1>0, <2>1 DEF HomePin, Active, Hits, CombInv
  <2>3. One(Arrived(k) /\ Active(c)) = 1 /\ One(h \in live[c]) = 0
    BY <2>2 DEF One
  <2>4. One(Arrived(k)' /\ Active(c)') = 1 /\ One(h \in live'[c]) = 1
    BY <1>4, <2>1, <2>2 DEF One
  <2>5. lock[H][h] = 1
    <3>1. lock[H][h] = One(Arrived(k) /\ Active(c)) + One(h \in live[c])
      BY DEF KeyLocks
    <3> QED BY SMTT(30), <2>3, <3>1
  <2>6. lock'[H][h] = 2 /\ entry'[H][h] = entry[H][h]
    BY SMTT(30), <1>1, <1>6, <2>2, <2>5 DEF Admits
  <2>7. lock'[H][h] = One(Arrived(k)' /\ Active(c)') + One(h \in live'[c])
    BY SMTT(30), <2>4, <2>6
  <2> QED BY <1>3, <1>4, <1>5, <2>1, <2>2, <2>6, <2>7 DEF KeyLocks, Local
<1>7. CASE c \notin R
  <2>1. /\ lock'[H][h] = lock[H][h] /\ comb'[c] = comb[c]
        /\ entry'[H][h] = entry[H][h] \/ lock[H][h] = 0
    BY <1>1, <1>7 DEF Admits, CombKept
  <2>2. h \in live[c] => lock[H][h] # 0
    BY SMTT(30), <1>0 DEF HomePin
  <2>3. h \in live[c] <=> h \in live'[c]
    BY <1>0, <1>1, <1>7, <2>2 DEF Admits, CombKept
  <2>4. Arrived(k) /\ Active(c) => lock[H][h] # 0
    BY SMTT(30) DEF KeyLocks, One
  <2>5. Active(c)' <=> Active(c)
    BY <2>1 DEF Active
  <2>6. /\ One(Arrived(k)' /\ Active(c)') = One(Arrived(k) /\ Active(c))
        /\ One(h \in live'[c]) = One(h \in live[c])
    BY <1>4, <2>3, <2>5 DEF One
  <2> QED BY <1>3, <1>4, <1>5, <2>1, <2>4, <2>5, <2>6 DEF KeyLocks, Local
<1> QED BY <1>6, <1>7

\* The world.
LEMMA LocksWorld ==
  ASSUME HoldsEnd, TypeInv, Fresh, NEW k \in Key, HomePin(k), KeyLocks(k),
         \/ World
         \/ \E j \in Key : LoseSub(j)
         \/ \E d \in Comb : ClientAbort(d)
         \/ \E e \in Eng : Move(e) \/ Spin(e) \/ Flush(e)
  PROVE  KeyLocks(k)'
<1>1. ASSUME UNCHANGED <<sub, entry, lock, comb, slots, live, handle, dst, wire, src, push, infl>>
      PROVE  KeyLocks(k)'
  BY <1>1, LocksForeign, ForeignQuiet DEF KeyKept
<1>2. ASSUME NEW j \in Key, NEW p \in Part, Land(j, p) PROVE KeyLocks(k)'
  <2>1. UNCHANGED <<sub, entry, lock, comb, slots, live, handle, dst, src, push, infl>>
    BY <1>2 DEF Land
  <2>2. PICK end : wire' = [wire EXCEPT ![j][p] = end]
    BY <1>2 DEF Land
  <2>3. CASE j # k
    <3>1. wire'[k] = wire[k]
      BY <2>2, <2>3 DEF TypeInv, TypeOK
    <3> QED BY <2>1, <3>1, LocksForeign, ForeignQuiet DEF KeyKept
  <2>4. CASE j = k
    <3>1. handle[k] = "used" /\ ~Sent(k)
      BY <1>2, <2>4 DEF Land, Fresh, Sent
    <3>2. ~Local(k) /\ ~Arrived(k) /\ comb[k[1]] # "done"
      BY <3>1 DEF HomePin, Arrived, KeyLocks
    <3>3. dst[k] = None => comb[k[1]] = "gone"
      BY <3>1 DEF KeyLocks
    <3>4. Arrived(k)' => ~Active(k[1])'
      BY <2>1, <3>2, <3>3 DEF Arrived, Active
    <3>5. One(Arrived(k) /\ Active(k[1])) = 0 /\ One(Arrived(k)' /\ Active(k[1])') = 0
      BY <3>2, <3>4 DEF One
    <3> QED BY <2>1, <3>2, <3>3, <3>4, <3>5 DEF KeyLocks, Local
  <2> QED BY <2>3, <2>4
<1>3. ASSUME NEW d, Deadline(d) PROVE KeyLocks(k)'
  BY <1>1, <1>3 DEF Deadline
<1>4. ASSUME NEW d \in Comb, Peer(d) \/ ClientAbort(d) PROVE KeyLocks(k)'
  BY <1>1, <1>4 DEF Peer, ClientAbort, HoldsEnd
<1>5. ASSUME NEW j \in Key, LoseSub(j) PROVE KeyLocks(k)'
  <2>1. /\ UNCHANGED <<entry, lock, comb, slots, live, handle, dst, wire, src, push, infl>>
        /\ sub' = [sub EXCEPT ![j] = "lost"] /\ sub[j] = "sent"
    BY <1>5 DEF LoseSub
  <2>2. sub'[k] = "retired" <=> sub[k] = "retired"
    BY <2>1 DEF TypeInv, TypeOK
  <2>3. (Arrived(k)' <=> Arrived(k)) /\ (Sent(k)' <=> Sent(k)) /\ (Active(k[1])' <=> Active(k[1]))
    BY <2>1, <2>2 DEF Arrived, Sent, Active
  <2> QED BY <2>1, <2>3 DEF KeyLocks, One
<1>6. ASSUME NEW e \in Eng, Move(e) \/ Spin(e) \/ Flush(e) PROVE KeyLocks(k)'
  BY <1>1, <1>6 DEF Move, Spin, Flush, HoldsEnd, vars
<1> QED BY <1>2, <1>3, <1>4, <1>5, <1>6 DEF World

-----------------------------------------------------------------------------
(* Every step, and the sum over the requests of an engine *)

Strangers == \A e \in Eng, h \in Seg : Stranger(e, h) => lock[e][h] = 0

\* Nobody locks a segment on an engine where no request has it.
LEMMA StrangersStep ==
  ASSUME PinInv, Strangers, Next
  PROVE  Strangers'
<1> SUFFICES ASSUME NEW e \in Eng, NEW h \in Seg, Stranger(e, h) PROVE lock'[e][h] = 0
  BY DEF Strangers, Stranger
<1>0. TypeOK /\ TypeInv /\ lock[e][h] = 0 /\ lock[e] \in [Seg -> Nat]
  BY DEF PinInv, TypeInv, TypeOK, Strangers
<1>1. ASSUME UNCHANGED lock PROVE lock'[e][h] = 0
  BY <1>0, <1>1
<1>2. ASSUME NEW d \in Eng, NEW l, lock' = [lock EXCEPT ![d] = l], d = e => l[h] = 0
      PROVE  lock'[e][h] = 0
  BY <1>0, <1>2 DEF TypeOK
<1>3. ASSUME NEW l \in [Seg -> Nat], NEW S, l[h] = 0
      PROVE  Dec(l, S)[h] = 0 /\ (h \notin S => Inc(l, S)[h] = 0)
  BY SMTT(30), <1>3 DEF Inc, Dec
<1>4. ASSUME NEW c \in Comb, Home[c] = e PROVE h \notin Gated(c)
  BY <1>4, GatedKey DEF Stranger
<1>5. ASSUME NEW k \in Key, e \in {Worker[k], HomeOf(k)} PROVE h \notin {SegOf(k)}
  BY <1>5 DEF Stranger
<1>6. ASSUME NEW k \in Key, WorkerStep(k) PROVE lock'[e][h] = 0
  <2> DEFINE W == Worker[k]
             x == {SegOf(k)}
  <2>0. W \in Eng /\ (W = e => h \notin x) /\ SegOf(k) \in Seg
    BY <1>5, KeyType
  <2>1. CASE UNCHANGED lock
    BY <1>1, <2>1
  <2>2. CASE lock' = [lock EXCEPT ![W] = Inc(@, x)]
    BY <1>0, <1>2, <1>3, <2>0, <2>2
  <2>3. CASE lock' = [lock EXCEPT ![W] = Inc(Dec(@, x), x)]
    <3>1. W = e => Dec(lock[W], x) \in [Seg -> Nat] /\ Dec(lock[W], x)[h] = 0
      BY <1>0, <1>3, IncDecType
    <3> HIDE DEF x
    <3> QED BY <1>2, <1>3, <2>0, <2>3, <3>1
  <2>4. CASE lock' = [lock EXCEPT ![W] = Dec(@, x \cap Cached(W))]
    BY <1>0, <1>2, <1>3, <2>0, <2>4
  <2>5. ASSUME NEW E, NEW l \in [Seg -> Nat], Retire(k, E, l), W = e => l[h] = 0 PROVE lock'[e][h] = 0
    <3>1. lock' = [lock EXCEPT ![W] = l]
      BY <2>0, <2>5, HandoverSame DEF Retire
    <3> QED BY <1>2, <2>0, <2>5, <3>1
  <2>6. CASE HitRetire(k)
    <3>1. Retire(k, entry[W], lock[W]) /\ lock[W] \in [Seg -> Nat]
      BY <1>0, <2>0, <2>6 DEF HitRetire, TypeOK
    <3> QED BY <1>0, <2>5, <3>1
  <2>7. CASE SubResult(k)
    <3> DEFINE M == x \ Short
    <3>1. Retire(k, Registered(W, k, M), Protected(W, M))
      BY <2>7 DEF SubResult
    <3>2. lock[W] \in [Seg -> Nat] /\ NewSegs(W, M) \subseteq x
      BY <1>0, <2>0 DEF TypeOK, NewSegs
    <3> HIDE DEF M, x
    <3>3. Protected(W, M) \in [Seg -> Nat]
      BY <3>2, IncDecType DEF Protected
    <3>4. W = e => Protected(W, M)[h] = 0
      BY <1>0, <1>3, <2>0, <3>2 DEF Protected
    <3> QED BY <2>5, <3>1, <3>3, <3>4
  <2>8. CASE RecvSub(k)
    BY <2>1, <2>2, <2>8 DEF RecvSub
  <2>9. CASE RecvHandle(k) \/ PushPending(k) \/ Reap(k)
    BY <2>1, <2>3, <2>4, <2>9 DEF RecvHandle, PushPending, Reap
  <2> QED BY <1>6, <2>6, <2>7, <2>8, <2>9 DEF WorkerStep
<1>7. ASSUME NEW k \in Key, HomeStep(k) PROVE lock'[e][h] = 0
  <2>1. HomeOf(k) \in Eng /\ (HomeOf(k) = e => h \notin {SegOf(k)})
    BY <1>5, KeyType
  <2>2. CASE UNCHANGED lock
    BY <1>1, <2>2
  <2>3. CASE lock' = [lock EXCEPT ![HomeOf(k)] = Inc(@, {SegOf(k)})]
    BY <1>0, <1>2, <1>3, <2>1, <2>3
  <2> QED BY <1>7, <2>2, <2>3 DEF HomeStep, Prealloc, Inject
<1>8. ASSUME NEW c \in Comb, CombineStep(c) PROVE lock'[e][h] = 0
  <2>1. Home[c] \in Eng /\ lock[Home[c]] \in [Seg -> Nat] /\ (Home[c] = e => h \notin Gated(c))
    BY <1>0, <1>4, ScatterAssumption DEF TypeOK
  <2>2. CASE UNCHANGED lock
    BY <1>1, <2>2
  <2>3. CASE lock' = [lock EXCEPT ![Home[c]] = DropHolds(@, c)]
    <3>1. Home[c] = e => DropHolds(lock[Home[c]], c)[h] = 0
      BY SMTT(30), <1>0, <2>1, DropHoldsType
    <3> QED BY <1>2, <2>1, <2>3, <3>1
  <2>4. CASE lock' = [lock EXCEPT ![Home[c]] = Dec(@, live[c])]
    BY <1>0, <1>2, <1>3, <2>1, <2>4
  <2>5. CASE RecvCombine(c) \/ Gate(c) \/ Bootstrapped(c)
    BY <2>2, <2>5 DEF RecvCombine, Gate, Bootstrapped
  <2>6. CASE Release(c)
    BY <2>2, <2>3, <2>6 DEF Release
  <2>7. CASE CombineResult(c) \/ SendDone(c)
    BY <2>3, <2>4, <2>7, NothingRegistered
  <2> QED BY <1>8, <2>5, <2>6, <2>7 DEF CombineStep
<1>9. ASSUME NEW d \in Eng, Launch(d) PROVE lock'[e][h] = 0
  <2>1. PICK R \in Batches(d) :
           lock' = [lock EXCEPT ![d] = [x \in Seg |-> @[x] + Cardinality({c \in R \cap Comb : x \in Hits(c)})]]
    BY <1>9 DEF Launch
  <2>2. d = e => {c \in R \cap Comb : h \in Hits(c)} = {}
    BY SMTT(30), <1>4, KeyType DEF Batches, Waiting, Hits
  <2>3. d = e => lock'[e][h] = lock[e][h] + Cardinality({})
    BY <1>0, <2>1, <2>2 DEF TypeOK
  <2>4. d # e => lock'[e] = lock[e]
    BY <1>0, <2>1 DEF TypeOK
  <2> QED BY SMTT(30), <1>0, <2>3, <2>4, FS_EmptySet
<1>10. ASSUME NEW d \in Eng, Flush(d) PROVE lock'[e][h] = 0
  BY <1>0, <1>2, <1>10 DEF Flush
<1>11. ASSUME NEW d \in Eng, Move(d) \/ Spin(d) PROVE lock'[e][h] = 0
  BY <1>1, <1>11 DEF Move, Spin, vars
<1>12. CASE World \/ (\E k \in Key : LoseSub(k)) \/ (\E c \in Comb : ClientAbort(c))
  BY <1>1, <1>12 DEF World, Land, Deadline, Peer, LoseSub, ClientAbort
<1> QED BY <1>6, <1>7, <1>8, <1>9, <1>10, <1>11, <1>12 DEF Next, EngineStep, Tick

\* Every step keeps the account.
LEMMA LocksStep ==
  ASSUME Apart, Transition, HoldsEnd, NoneShort, PinInv, Patient, Next, NEW k \in Key, KeyLocks(k)
  PROVE  KeyLocks(k)'
<1>0. TypeInv /\ Fresh /\ HomePin(k) /\ k[1] \in Comb /\ CombInv(k[1])
  BY KeyType DEF PinInv
<1>1. ASSUME NEW j \in Key, WorkerStep(j) PROVE KeyLocks(k)'
  BY <1>0, <1>1, LocksWorker, LocksLocal, ForeignWorker, LocksForeign
<1>2. ASSUME NEW j \in Key, HomeStep(j) PROVE KeyLocks(k)'
  BY <1>0, <1>2, LocksHome, ForeignHome, LocksForeign
<1>3. ASSUME NEW d \in Comb, CombineStep(d) PROVE KeyLocks(k)'
  <2>1. CombInv(d)
    BY DEF PinInv
  <2> QED BY <1>0, <1>3, <2>1, LocksCombine, ForeignCombine, LocksForeign
<1>4. ASSUME NEW e \in Eng, Tick(e) \/ Spin(e) \/ Flush(e) PROVE KeyLocks(k)'
  BY <1>0, <1>4, LocksLaunch, LocksWorld DEF Tick
<1>5. CASE World \/ (\E j \in Key : LoseSub(j)) \/ (\E d \in Comb : ClientAbort(d))
  BY <1>0, <1>5, LocksWorld
<1> QED BY <1>1, <1>2, <1>3, <1>4, <1>5 DEF Next, EngineStep

LocksInv == PinInv /\ Patient /\ Strangers /\ \A k \in Key : KeyLocks(k)

\* The size of a set with at most one member.
LEMMA OneMember ==
  ASSUME NEW x, NEW S, \A y \in S : y = x
  PROVE  Cardinality(S) = One(x \in S)
<1>1. CASE x \in S
  <2>1. S = {x}
    BY <1>1
  <2> QED BY <1>1, <2>1, FS_Singleton DEF One
<1>2. CASE x \notin S
  <2>1. S = {}
    BY <1>2
  <2> QED BY <1>2, <2>1, FS_EmptySet DEF One
<1> QED BY <1>1, <1>2

\* The account implies that every lock has a holder.
LEMMA LocksAreAccounted ==
  ASSUME Apart, LocksInv
  PROVE  LocksAccounted
<1> SUFFICES ASSUME NEW e \in Eng, NEW h \in Seg PROVE lock[e][h] = Holders(e, h)
  BY DEF LocksAccounted
<1> DEFINE A == {k \in Key : Worker[k] = e /\ SegOf(k) = h /\ (sub[k] = "hit" \/ k \in push \/ k \in infl)}
           B == {k \in Key : /\ HomeOf(k) = e /\ SegOf(k) = h /\ Arrived(k)
                             /\ comb[k[1]] \notin {"sending", "done", "gone"}}
           C == {c \in Comb : Home[c] = e /\ h \in live[c]}
<1>1. Holders(e, h) = Cardinality(A) + Cardinality(B) + Cardinality(C)
  BY DEF Holders
<1>2. \A c \in C : \E k \in Key : k[1] = c /\ SegOf(k) = h /\ HomeOf(k) = e
  <2> SUFFICES ASSUME NEW c \in C PROVE \E k \in Key : k[1] = c /\ SegOf(k) = h /\ HomeOf(k) = e
    OBVIOUS
  <2>1. h \in Gated(c) /\ c \in Comb
    BY DEF LocksInv, PinInv, CombInv
  <2> QED BY SMTT(30), <2>1, GatedKey
<1>3. CASE Stranger(e, h)
  <2>1. A = {} /\ B = {} /\ C = {}
    BY <1>2, <1>3 DEF Stranger
  <2>2. Cardinality(A) = 0 /\ Cardinality(B) = 0 /\ Cardinality(C) = 0
    BY <2>1, FS_EmptySet
  <2>3. lock[e][h] = 0
    BY <1>3 DEF LocksInv, Strangers
  <2> QED BY SMTT(30), <1>1, <2>2, <2>3
<1>4. CASE ~Stranger(e, h)
  <2>1. PICK k \in Key : SegOf(k) = h /\ e \in {Worker[k], HomeOf(k)}
    BY <1>4 DEF Stranger
  <2>2. \A j \in Key : SegOf(j) = h /\ e \in {Worker[j], HomeOf(j)} => j = k
    BY <2>1 DEF Apart
  <2>3. HomePin(k) /\ KeyLocks(k) /\ k[1] \in Comb /\ HomeOf(k) = Home[k[1]]
    BY KeyType DEF LocksInv, PinInv, HomeOf
  <2>4. (\A j \in A : j = k) /\ (\A j \in B : j = k) /\ (\A c \in C : c = k[1] /\ HomeOf(k) = e)
    BY <1>2, <2>2
  <2>5. CASE e = HomeOf(k)
    <3>1. k \notin A
      BY <2>3, <2>5 DEF HomePin, Local
    <3>2. k \in B <=> Arrived(k) /\ Active(k[1])
      BY <2>1, <2>5 DEF Active
    <3>3. k[1] \in C <=> h \in live[k[1]]
      BY <2>3, <2>5
    <3> HIDE DEF A, B, C
    <3>4. A = {}
      BY <2>4, <3>1
    <3>5. Cardinality(A) = 0
      BY <3>4, FS_EmptySet
    <3>6. Cardinality(B) = One(Arrived(k) /\ Active(k[1]))
      <4>1. Cardinality(B) = One(k \in B)
        BY <2>4, OneMember
      <4> QED BY <3>2, <4>1 DEF One
    <3>7. Cardinality(C) = One(h \in live[k[1]])
      <4>1. Cardinality(C) = One(k[1] \in C)
        BY <2>4, OneMember
      <4> QED BY <3>3, <4>1 DEF One
    <3>8. lock[e][h] = One(Arrived(k) /\ Active(k[1])) + One(h \in live[k[1]])
      BY <2>1, <2>3, <2>5 DEF KeyLocks
    <3>9. One(Arrived(k) /\ Active(k[1])) \in Nat /\ One(h \in live[k[1]]) \in Nat
      BY DEF One
    <3> QED BY SMTT(30), <1>1, <3>5, <3>6, <3>7, <3>8, <3>9
  <2>6. CASE e # HomeOf(k)
    <3>1. e = Worker[k] /\ ~Local(k)
      BY <2>1, <2>6 DEF Local
    <3>2. k \in A <=> k \in push \/ k \in infl
      BY <2>1, <2>3, <3>1 DEF HomePin
    <3>3. k \notin B
      BY <2>6
    <3> HIDE DEF A, B, C
    <3>4. B = {} /\ C = {}
      BY <2>4, <2>6, <3>3
    <3>5. Cardinality(B) = 0 /\ Cardinality(C) = 0
      BY <3>4, FS_EmptySet
    <3>6. Cardinality(A) = One(k \in push \/ k \in infl)
      <4>1. Cardinality(A) = One(k \in A)
        BY <2>4, OneMember
      <4> QED BY <3>2, <4>1 DEF One
    <3>7. k \notin push \/ k \notin infl
      BY DEF LocksInv, PinInv, Fresh
    <3>8. lock[e][h] = One(k \in push) + One(k \in infl)
      BY <2>1, <2>3, <3>1 DEF KeyLocks
    <3>9. One(k \in push \/ k \in infl) = One(k \in push) + One(k \in infl) /\ One(k \in push \/ k \in infl) \in Nat
      BY SMTT(30), <3>7 DEF One
    <3> QED BY SMTT(30), <1>1, <3>5, <3>6, <3>8, <3>9
  <2> QED BY <2>5, <2>6
<1> QED BY <1>3, <1>4

\* Whatever is lost on the way and however pushes and transfers end: as long as
\* no request is given up while a hold of it can still be taken, every lock of an
\* entry has exactly one holder that will release it.
THEOREM ScatterLocksAccounted ==
  ASSUME Apart, Transition, HoldsEnd, NoneShort
  PROVE  Spec => []LocksAccounted
<1>0. ProtectedLocal
  BY DEF ProtectedLocal
<1>1. Init => LocksInv
  <2> SUFFICES ASSUME Init PROVE LocksInv
    OBVIOUS
  <2>1. Patient /\ Strangers
    BY DEF Init, Patient, Late, Strangers
  <2>2. ASSUME NEW k \in Key PROVE KeyLocks(k)
    <3>1. /\ SegOf(k) \in Seg /\ HomeOf(k) \in Eng /\ Worker[k] \in Eng /\ k[1] \in Comb
          /\ "kv" \in Part
      BY KeyType DEF Part
    <3>2. ~Arrived(k)
      BY <3>1 DEF Init, Arrived, Sent
    <3> QED BY SMTT(30), <3>1, <3>2 DEF Init, KeyLocks, One
  <2> QED BY <2>1, <2>2, PinInit DEF LocksInv
<1>2. LocksInv /\ [Next]_vars => LocksInv'
  <2> SUFFICES ASSUME LocksInv, [Next]_vars PROVE LocksInv'
    OBVIOUS
  <2>1. PinInv' /\ PinInv /\ TypeInv
    BY <1>0, PinStep DEF LocksInv, PinInv
  <2>2. CASE Next
    BY <2>1, <2>2, PatientStep, StrangersStep, LocksStep DEF LocksInv
  <2>3. CASE UNCHANGED vars
    <3>1. Patient' /\ Strangers'
      BY <2>3 DEF LocksInv, Patient, Late, Strangers, vars
    <3>2. ASSUME NEW k \in Key PROVE KeyLocks(k)'
      BY <2>1, <2>3, LocksForeign, ForeignQuiet DEF LocksInv, KeyKept, vars
    <3> QED BY <2>1, <3>1, <3>2 DEF LocksInv
  <2> QED BY <2>2, <2>3
<1> QED BY <1>1, <1>2, LocksAreAccounted, PTL DEF Spec
=============================================================================
