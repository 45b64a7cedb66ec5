--------------------------- MODULE ScatterProofs ----------------------------
(***************************************************************************)
(* For every topology and pool size: as long as no parked request is given *)
(* up, no transfer writes into a slot that is no longer reserved for it;   *)
(* and no path of the code loses a slot, even with segments that requests  *)
(* share.                                                                  *)
(***************************************************************************)
EXTENDS ScatterTypes

\* Leaves are given to Zenon; those that need arithmetic or nested function updates name SMT.
USE ZenonT(40) DEF cacheVars, reqVars, xferVars, envVars

-----------------------------------------------------------------------------
(* The slot a transfer writes stays reserved *)

\* No parked request is past its deadline.
NobodyLate == \A c \in Comb : ~Late(c)

\* What is known of the handle of a key: nothing is posted before a worker uses
\* it, and until then, as during the transfer, its slot is reserved.
HandleInv(k) ==
  /\ handle[k] # "used" => \A p \in Part : wire[k][p] = "none"
  /\ handle[k] \in {"sent", "lost", "here"} => dst[k] = to[k]
  /\ \A p \in Part : wire[k][p] = "posted" => dst[k] = to[k]

TargetInv ==
  /\ NobodyLate
  /\ DOMAIN dst = Key /\ DOMAIN to = Key /\ DOMAIN handle = Key /\ DOMAIN wire = Key
  /\ \A k \in Key : DOMAIN wire[k] = Part
  /\ \A k \in Key : HandleInv(k)

\* At the start nothing is posted.
LEMMA TargetInit == Init => TargetInv
BY SMTT(30) DEF Init, TargetInv, HandleInv, NobodyLate, Late

\* A step that touches neither deadlines nor reservations, handles and transfers.
LEMMA TargetQuiet ==
  ASSUME TargetInv, UNCHANGED <<late, dst, to, handle, wire>>
  PROVE  TargetInv'
BY DEF TargetInv, HandleInv, NobodyLate, Late

\* _fire_write on a handle that is here: the slot it names is still reserved.
LEMMA FireKeeps ==
  ASSUME TargetInv, NEW k \in Key, NEW s, handle[k] = "here", Fire(k, s),
         UNCHANGED <<late, dst, to>>
  PROVE  TargetInv'
<1>1. PICK n \in [Part -> {"posted", "none"}] : wire' = [wire EXCEPT ![k] = n]
  BY DEF Fire
<1>2. handle' = [handle EXCEPT ![k] = "used"]
  BY DEF Fire
<1>3. dst[k] = to[k]
  BY DEF TargetInv, HandleInv
<1>4. NobodyLate' /\ DOMAIN wire' = Key /\ DOMAIN handle' = Key /\ DOMAIN dst' = Key /\ DOMAIN to' = Key
  BY <1>1, <1>2 DEF TargetInv, NobodyLate, Late
<1>5. \A j \in Key : DOMAIN wire'[j] = Part
  BY <1>1 DEF TargetInv
<1>6. \A j \in Key : HandleInv(j)'
  BY <1>1, <1>2, <1>3 DEF TargetInv, HandleInv
<1> QED
  BY <1>4, <1>5, <1>6 DEF TargetInv

\* pic_scatter_retire fires a write only for a handle that is here.
LEMMA RetireKeeps ==
  ASSUME TargetInv, NEW k \in Key, NEW E, NEW l, Retire(k, E, l), UNCHANGED <<late, dst, to>>
  PROVE  TargetInv'
<1>1. CASE handle[k] = "here" /\ Fire(k, E[SegOf(k)])
  BY <1>1, FireKeeps
<1>2. CASE UNCHANGED <<handle, wire>>
  BY <1>2, TargetQuiet
<1> QED
  BY <1>1, <1>2 DEF Retire

\* The steps of the engine a segment was given to.
LEMMA WorkerKeeps ==
  ASSUME TargetInv, NEW k \in Key, WorkerStep(k)
  PROVE  TargetInv'
<1>1. CASE RecvSub(k)
  BY <1>1, TargetQuiet DEF RecvSub
<1>2. CASE RecvHandle(k)
  BY <1>2 DEF RecvHandle, TargetInv, HandleInv, NobodyLate, Late
<1>3. CASE PushPending(k)
  <2>1. CASE handle[k] = "here" /\ Fire(k, entry[Worker[k]][SegOf(k)])
    BY <1>3, <2>1, FireKeeps DEF PushPending
  <2>2. CASE UNCHANGED <<handle, wire>>
    BY <1>3, <2>2, TargetQuiet DEF PushPending
  <2> QED
    BY <1>3, <2>1, <2>2 DEF PushPending
<1>4. CASE Reap(k)
  BY <1>4, TargetQuiet DEF Reap
<1>5. CASE HitRetire(k)
  BY <1>5, RetireKeeps DEF HitRetire
<1>6. CASE SubResult(k)
  BY <1>6, RetireKeeps DEF SubResult
<1> QED
  BY <1>1, <1>2, <1>3, <1>4, <1>5, <1>6 DEF WorkerStep

\* The steps of the engine that combines: a reservation is made before its handle
\* is posted, and ends in drain_injects only after both transfers are done.
LEMMA HomeKeeps ==
  ASSUME TargetInv, NEW k \in Key, HomeStep(k)
  PROVE  TargetInv'
<1>1. CASE Prealloc(k)
  <2>1. handle[k] = "none" /\ UNCHANGED <<late, wire>>
    BY <1>1 DEF Prealloc, ToPrealloc
  <2>2. CASE handle' = [handle EXCEPT ![k] = "noroom"] /\ UNCHANGED <<dst, to>>
    BY <2>1, <2>2 DEF TargetInv, HandleInv, NobodyLate, Late
  <2>3. CASE \E s, post : /\ dst' = [dst EXCEPT ![k] = s] /\ to' = [to EXCEPT ![k] = s]
                          /\ handle' = [handle EXCEPT ![k] = post] /\ post \in {"sent", "lost"}
    BY SMTT(30), <2>1, <2>3 DEF TargetInv, HandleInv, NobodyLate, Late
  <2> QED
    BY <1>1, <2>2, <2>3, Zenon DEF Prealloc
<1>2. CASE Inject(k)
  <2>1. Sent(k) /\ dst' = [dst EXCEPT ![k] = None] /\ UNCHANGED <<late, to, handle, wire>>
    BY <1>2 DEF Inject, Items
  <2>2. \A p \in Part : wire[k][p] = "done"
    BY <2>1 DEF Sent
  <2>3. handle[k] = "used"
    BY <2>2 DEF TargetInv, HandleInv, Part
  <2> QED
    BY SMTT(30), <2>1, <2>2, <2>3 DEF TargetInv, HandleInv, NobodyLate, Late
<1> QED
  BY <1>1, <1>2 DEF HomeStep

\* The steps of a combine request: without a deadline no reservation is freed.
LEMMA CombineKeeps ==
  ASSUME TargetInv, NEW c \in Comb, CombineStep(c)
  PROVE  TargetInv'
<1>1. CASE Release(c)
  <2>1. ~Late(c)
    BY DEF TargetInv, NobodyLate
  <2> QED
    BY <1>1, <2>1, TargetQuiet DEF Release
<1>2. CASE ~Release(c)
  BY <1>2, TargetQuiet DEF CombineStep, RecvCombine, Gate, Bootstrapped, CombineResult, SendDone
<1> QED
  BY <1>1, <1>2

\* Transfers end and time passes.
LEMMA WorldKeeps ==
  ASSUME "combine_late" \notin Faults, TargetInv, World
  PROVE  TargetInv'
<1>1. ASSUME NEW k \in Key, NEW p \in Part, Land(k, p) PROVE TargetInv'
  <2>1. PICK end \in {"done", "err"} : wire' = [wire EXCEPT ![k][p] = end]
    BY <1>1 DEF Land
  <2>2. wire[k][p] = "posted" /\ UNCHANGED <<late, dst, to, handle>>
    BY <1>1 DEF Land
  <2> QED
    BY SMTT(30), <2>1, <2>2 DEF TargetInv, HandleInv, NobodyLate, Late
<1>2. ASSUME NEW d, Deadline(d) PROVE TargetInv'
  <2>1. late' = late \cup {d} /\ UNCHANGED <<dst, to, handle, wire>>
    BY <1>2 DEF Deadline
  <2>2. \A c \in Comb : d # <<"combine", c>>
    BY SMTT(30), <1>2 DEF Deadline
  <2> QED
    BY <2>1, <2>2 DEF TargetInv, HandleInv, NobodyLate, Late
<1>3. ASSUME NEW c \in Comb, Peer(c) PROVE TargetInv'
  BY <1>3, TargetQuiet DEF Peer
<1> QED
  BY <1>1, <1>2, <1>3 DEF World

\* No transfer, timed out write, failed push, abort or flush of the cache makes
\* a reservation end before the transfer into it: _alloc_dst and drain_injects
\* are right, and only _free_combine_pending can break it.
THEOREM TargetStaysReserved ==
  ASSUME "combine_late" \notin Faults
  PROVE  Spec => []TargetReserved
<1>1. TargetInv /\ [Next]_vars => TargetInv'
  <2> SUFFICES ASSUME TargetInv, [Next]_vars PROVE TargetInv'
    OBVIOUS
  <2>1. ASSUME NEW e \in Eng, EngineStep(e) PROVE TargetInv'
    <3>1. CASE Tick(e)
      BY <3>1, TargetQuiet DEF Tick, Move, Launch
    <3> QED
      BY <2>1, <3>1, WorkerKeeps, HomeKeeps, CombineKeeps, Zenon DEF EngineStep
  <2>2. ASSUME NEW e \in Eng, Spin(e) \/ Flush(e) PROVE TargetInv'
    BY <2>2, TargetQuiet DEF Spin, Flush, vars
  <2>3. ASSUME NEW k \in Key, LoseSub(k) PROVE TargetInv'
    BY <2>3, TargetQuiet DEF LoseSub
  <2>4. ASSUME NEW c \in Comb, ClientAbort(c) PROVE TargetInv'
    BY <2>4, TargetQuiet DEF ClientAbort
  <2>5. CASE UNCHANGED vars
    BY <2>5, TargetQuiet DEF vars
  <2> QED
    BY <2>1, <2>2, <2>3, <2>4, <2>5, WorldKeeps, Zenon DEF Next
<1>2. TargetInv => TargetReserved
  BY DEF TargetInv, HandleInv, TargetReserved
<1> QED
  BY <1>1, <1>2, TargetInit, PTL DEF Spec

-----------------------------------------------------------------------------
(* No slot is lost *)

\* The requests whose forward holds slots of engine e.
Forwards(e) ==
  {k \in Key : Worker[k] = e /\ sub[k] = "running"}
    \cup {c \in Comb : Home[c] = e /\ comb[c] \in {"running", "sending"}}

\* Slot s of engine e is free, cached, reserved or held.
Kept(e, s) ==
  \/ s \in free[e]
  \/ \E h \in Seg : entry[e][h] = s
  \/ \E k \in Key : HomeOf(k) = e /\ dst[k] = s
  \/ \E r \in Forwards(e) : \E n \in DOMAIN slots[r] : slots[r][n] = s

\* Without rope a sub-request holds the slot of its segment and nothing else.
KeptInv ==
  /\ TypeInv /\ Fresh
  /\ \A k \in Key : sub[k] = "running" => DOMAIN slots[k] = Public({SegOf(k)})
  /\ \A e \in Eng, s \in Slot : Kept(e, s)

\* A slot that is kept has an owner or is free.
LEMMA KeptOwned == KeptInv => SlotsKept
<1> SUFFICES ASSUME KeptInv, NEW e \in Eng, NEW s \in Slot, s \notin free[e]
             PROVE  Owners(e, s) # {}
  BY DEF SlotsKept
<1>0. Kept(e, s) /\ s # None
  BY ScatterAssumption DEF KeptInv
<1>1. CASE \E h \in Seg : entry[e][h] = s
  BY <1>1 DEF Owners
<1>2. CASE \E k \in Key : HomeOf(k) = e /\ dst[k] = s
  <2>1. PICK k \in Key : HomeOf(k) = e /\ dst[k] = s
    BY <1>2
  <2>2. k \in {x \in Pending(e) : dst[x] = s}
    BY <1>0, <2>1 DEF Pending
  <2> QED BY <2>2 DEF Owners
<1>3. CASE \E r \in Forwards(e) : \E n \in DOMAIN slots[r] : slots[r][n] = s
  <2>1. PICK r \in Forwards(e) : s \in Range(slots[r])
    BY <1>3 DEF Range
  <2>2. r \in Running(e) \cup {c \in Comb : Home[c] = e /\ comb[c] = "sending"}
    BY DEF Forwards, Running
  <2>3. <<"forward", r>> \in Owners(e, s)
    BY <2>1, <2>2 DEF Owners
  <2> QED BY <2>3
<1> QED BY <1>0, <1>1, <1>2, <1>3 DEF Kept

\* A step that leaves the slots where they are.
LEMMA KeptQuiet ==
  ASSUME KeptInv, TypeInv', Fresh', UNCHANGED <<entry, free, slots, dst>>,
         \A k \in Key : sub[k] = "running" <=> sub'[k] = "running",
         \A c \in Comb : comb[c] \in {"running", "sending"} => comb'[c] \in {"running", "sending"}
  PROVE  KeptInv'
<1>1. \A e \in Eng, s \in Slot : Kept(e, s)'
  BY SMTT(30) DEF KeptInv, Kept, Forwards
<1> QED BY <1>1 DEF KeptInv

\* A forward of request r on engine e ends: what it registers for the segments M
\* becomes entries, the duplicates go back, the rest too or there is none.
LEMMA KeptEnd ==
  ASSUME KeptInv, NEW e \in Eng, NEW r \in Key \cup Comb, NEW M \in SUBSET Seg,
         Public(M) \subseteq DOMAIN slots[r], NEW F,
         entry' = [entry EXCEPT ![e] = Registered(e, r, M)],
         free' = [free EXCEPT ![e] = @ \cup GivenBack(e, r, M) \cup F],
         \A n \in DOMAIN slots[r] \ Public(M) : slots[r][n] \in F,
         UNCHANGED dst,
         \A q \in Key \cup Comb : q # r => slots'[q] = slots[q],
         \A d \in Eng : Forwards(d) \ {r} \subseteq Forwards(d)',
         \A d \in Eng : r \in Forwards(d) => d = e,
         NEW d \in Eng, NEW s \in Slot
  PROVE  Kept(d, s)'
<1>0. Kept(d, s) /\ TypeOK
  BY DEF KeptInv, TypeInv
<1>1. /\ \A x \in Eng \ {e} : entry'[x] = entry[x] /\ free'[x] = free[x]
      /\ entry'[e] = Registered(e, r, M)
      /\ free'[e] = free[e] \cup GivenBack(e, r, M) \cup F
  BY <1>0 DEF TypeOK
<1>2. CASE s \in free[d]
  BY <1>1, <1>2 DEF Kept
<1>3. CASE \E h \in Seg : entry[d][h] = s
  <2>1. PICK h \in Seg : entry[d][h] = s
    BY <1>3
  <2>2. h \notin NewSegs(d, M)
    BY <2>1, ScatterAssumption DEF NewSegs
  <2>3. entry'[d][h] = s
    BY SMTT(30), <1>1, <2>1, <2>2 DEF Registered
  <2> QED BY <2>3 DEF Kept
<1>4. CASE \E k \in Key : HomeOf(k) = d /\ dst[k] = s
  BY <1>4 DEF Kept
<1>5. CASE \E q \in Forwards(d) : \E n \in DOMAIN slots[q] : slots[q][n] = s
  <2>0. PICK q \in Forwards(d) : \E n \in DOMAIN slots[q] : slots[q][n] = s
    BY <1>5
  <2>1. PICK n \in DOMAIN slots[q] : slots[q][n] = s
    BY <2>0
  <2>2. q \in Key \cup Comb
    BY DEF Forwards
  <2>3. CASE q # r
    BY <2>1, <2>2, <2>3 DEF Kept
  <2>4. CASE q = r
    <3>0. d = e
      BY <2>4
    <3>1. CASE n \notin Public(M)
      <4>1. s \in F
        BY <2>1, <2>4, <3>1
      <4> QED BY <1>1, <3>0, <4>1 DEF Kept
    <3>2. CASE n \in Public(M \ NewSegs(e, M))
      <4>1. s \in GivenBack(e, r, M)
        BY <2>1, <2>4, <3>2 DEF GivenBack
      <4> QED BY <1>1, <3>0, <4>1 DEF Kept
    <3>3. CASE n \in Public(M) /\ n \notin Public(M \ NewSegs(e, M))
      <4>1. PICK h \in M : n = <<"public", h>> /\ h \in NewSegs(e, M)
        BY SMTT(30), <3>3 DEF Public
      <4>2. entry'[e][h] = s
        BY <1>1, <2>1, <2>4, <4>1 DEF Registered
      <4> QED BY <3>0, <4>2 DEF Kept
    <3> QED BY <3>1, <3>2, <3>3
  <2> QED BY <2>3, <2>4
<1> QED BY <1>0, <1>2, <1>3, <1>4, <1>5 DEF Kept

\* The steps of the engine a segment was given to.
LEMMA WorkerKept ==
  ASSUME ~Rope, \A j \in Key : SegOf(j) \notin Short, KeptInv, TypeInv', Fresh', NEW k \in Key, WorkerStep(k)
  PROVE  KeptInv'
<1>0. TypeOK /\ Held /\ SegOf(k) \in Seg /\ Worker[k] \in Eng /\ k \notin Comb
  BY KeyType DEF KeptInv, TypeInv
<1>1. CASE RecvSub(k) \/ RecvHandle(k) \/ PushPending(k) \/ Reap(k)
  BY <1>0, <1>1, KeptQuiet DEF RecvSub, RecvHandle, PushPending, Reap, TypeOK
<1>2. CASE HitRetire(k)
  BY <1>0, <1>2, KeptQuiet DEF HitRetire, Retire, TypeOK
<1>3. CASE SubResult(k)
  <2> DEFINE e == Worker[k]
             M == {SegOf(k)} \ Short
  <2>1. /\ entry' = [entry EXCEPT ![e] = Registered(e, k, M)]
        /\ free' = [free EXCEPT ![e] = @ \cup GivenBack(e, k, M)]
        /\ slots' = [slots EXCEPT ![k] = NoSlots]
        /\ sub' = [sub EXCEPT ![k] = "retired"] /\ sub[k] = "running"
        /\ UNCHANGED <<comb, dst>>
    BY <1>3 DEF SubResult, Retire
  <2>2. M = {SegOf(k)} /\ M \in SUBSET Seg /\ DOMAIN slots[k] = Public(M)
    BY <1>0, <2>1 DEF KeptInv
  <2>3. /\ \A q \in Key \cup Comb : q # k => slots'[q] = slots[q]
        /\ \A d \in Eng : Forwards(d) \ {k} \subseteq Forwards(d)'
        /\ \A d \in Eng : k \in Forwards(d) => d = e
    BY <1>0, <2>1 DEF Forwards, TypeOK
  <2>4. free' = [free EXCEPT ![e] = @ \cup GivenBack(e, k, M) \cup {}]
    BY <2>1
  <2>5. \A n \in DOMAIN slots[k] \ Public(M) : slots[k][n] \in {}
    BY <2>2
  <2> HIDE DEF M
  <2>6. \A d \in Eng, s \in Slot : Kept(d, s)'
    BY <1>0, <2>1, <2>2, <2>3, <2>4, <2>5, KeptEnd
  <2>7. \A j \in Key : sub'[j] = "running" => DOMAIN slots'[j] = Public({SegOf(j)})
    BY <1>0, <2>1 DEF KeptInv, TypeOK
  <2> QED BY <2>6, <2>7 DEF KeptInv
<1> QED BY <1>1, <1>2, <1>3 DEF WorkerStep

\* A step that moves the slots of one engine and leaves the forwards alone.
LEMMA KeptMoved ==
  ASSUME KeptInv, TypeInv', Fresh', UNCHANGED <<slots, sub>>,
         \A c \in Comb : comb[c] \in {"running", "sending"} => comb'[c] \in {"running", "sending"},
         \A d \in Eng, s \in Slot :
           s \in free[d] => s \in free'[d] \/ \E k \in Key : HomeOf(k) = d /\ dst'[k] = s,
         \A d \in Eng, h \in Seg : entry[d][h] # None =>
           \/ entry'[d][h] = entry[d][h] \/ entry[d][h] \in free'[d]
           \/ \E k \in Key : HomeOf(k) = d /\ dst'[k] = entry[d][h],
         \A k \in Key : dst[k] # None =>
           \/ dst'[k] = dst[k] \/ dst[k] \in free'[HomeOf(k)]
           \/ \E h \in Seg : entry'[HomeOf(k)][h] = dst[k]
  PROVE  KeptInv'
<1>1. ASSUME NEW d \in Eng, NEW s \in Slot PROVE Kept(d, s)'
  <2>0. Kept(d, s) /\ s # None
    BY ScatterAssumption DEF KeptInv
  <2>1. CASE s \in free[d]
    BY <2>1 DEF Kept
  <2>2. CASE \E h \in Seg : entry[d][h] = s
    <3>1. PICK h \in Seg : entry[d][h] = s
      BY <2>2
    <3>2. entry[d][h] # None
      BY <2>0, <3>1
    <3>3. \/ entry'[d][h] = s \/ s \in free'[d] \/ \E k \in Key : HomeOf(k) = d /\ dst'[k] = s
      BY <3>1, <3>2
    <3> QED BY <3>3 DEF Kept
  <2>3. CASE \E k \in Key : HomeOf(k) = d /\ dst[k] = s
    <3>1. PICK k \in Key : HomeOf(k) = d /\ dst[k] = s
      BY <2>3
    <3>2. dst'[k] = s \/ s \in free'[d] \/ \E h \in Seg : entry'[d][h] = s
      BY <2>0, <3>1
    <3> QED BY <3>1, <3>2 DEF Kept
  <2>4. CASE \E r \in Forwards(d) : \E n \in DOMAIN slots[r] : slots[r][n] = s
    BY <2>4 DEF Kept, Forwards
  <2> QED BY <2>0, <2>1, <2>2, <2>3, <2>4 DEF Kept
<1>2. \A k \in Key : sub'[k] = "running" => DOMAIN slots'[k] = Public({SegOf(k)})
  BY DEF KeptInv
<1> QED BY <1>1, <1>2 DEF KeptInv

\* The steps of the engine that combines: what prealloc takes is reserved, what
\* arrives is cached or goes back.
LEMMA HomeKept ==
  ASSUME KeptInv, TypeInv', Fresh', NEW k \in Key, HomeStep(k)
  PROVE  KeptInv'
<1> DEFINE e == HomeOf(k)
<1>0. SegOf(k) \in Seg /\ e \in Eng /\ TypeOK /\ Held /\ e = Home[k[1]]
  BY KeyType DEF KeptInv, TypeInv, HomeOf
<1>1. CASE Prealloc(k)
  <2>1. UNCHANGED <<sub, comb, slots>>
    BY <1>1 DEF Prealloc
  <2>2. CASE UNCHANGED <<entry, free, live, dst, to>>
    BY <2>1, <2>2, KeptQuiet
  <2>3. ASSUME NEW V \in Evictions(e, 1, {}), NEW s \in Pool(e, V),
               entry' = [entry EXCEPT ![e] = Without(e, V)],
               free' = [free EXCEPT ![e] = Pool(e, V) \ {s}],
               dst' = [dst EXCEPT ![k] = s]
        PROVE  KeptInv'
    <3>1. dst[k] = None
      BY <1>1 DEF Prealloc, ToPrealloc, KeptInv, Fresh
    <3>2. \A d \in Eng, x \in Slot :
            x \in free[d] => x \in free'[d] \/ \E j \in Key : HomeOf(j) = d /\ dst'[j] = x
      BY <1>0, <2>3 DEF TypeOK, Pool
    <3>3. ASSUME NEW d \in Eng, NEW h \in Seg, entry[d][h] # None
          PROVE  \/ entry'[d][h] = entry[d][h] \/ entry[d][h] \in free'[d]
                 \/ \E j \in Key : HomeOf(j) = d /\ dst'[j] = entry[d][h]
      BY <1>0, <2>3, <3>3 DEF TypeOK, Pool, Without
    <3> QED BY <1>0, <2>1, <2>3, <3>1, <3>2, <3>3, KeptMoved DEF TypeOK
  <2> QED BY <1>0, <1>1, <2>2, <2>3, ReservedFromPool DEF Prealloc
<1>2. CASE Inject(k)
  <2>1. dst' = [dst EXCEPT ![k] = None] /\ UNCHANGED <<sub, comb, slots>>
    BY <1>2 DEF Inject
  <2>2. CASE free' = [free EXCEPT ![e] = @ \cup {dst[k]}] /\ UNCHANGED entry
    BY <1>0, <2>1, <2>2, KeptMoved DEF TypeOK
  <2>3. CASE entry[e][SegOf(k)] = None /\ entry' = [entry EXCEPT ![e][SegOf(k)] = dst[k]] /\ UNCHANGED free
    BY SMTT(30), <1>0, <2>1, <2>3, KeptMoved DEF TypeOK
  <2> QED BY <1>2, <2>2, <2>3 DEF Inject
<1> QED BY <1>1, <1>2 DEF HomeStep

\* The steps of a combine request: a deadline gives its reservations back, its
\* end the slots that did not become entries.
LEMMA CombineKept ==
  ASSUME ~Rope, KeptInv, TypeInv', Fresh', NEW c \in Comb, CombineStep(c)
  PROVE  KeptInv'
<1> DEFINE e == Home[c]
           M == Missed(c)
<1>0. e \in Eng /\ TypeOK /\ Held /\ c \notin Key
  BY ScatterAssumption, KeyType DEF KeptInv, TypeInv
<1>1. CASE RecvCombine(c) \/ Gate(c) \/ Bootstrapped(c)
  BY SMTT(30), <1>0, <1>1, KeptQuiet DEF RecvCombine, Gate, Bootstrapped, Items, TypeOK
<1>2. CASE Release(c)
  <2>1. UNCHANGED <<entry, sub, slots>> /\ comb[c] = "parked"
    BY <1>2 DEF Release, Items
  <2>2. CASE ~Late(c)
    BY <1>0, <1>2, <2>1, <2>2, KeptQuiet DEF Release, TypeOK
  <2>3. CASE Late(c)
    <3>1. FreePending(c) /\ comb' = [comb EXCEPT ![c] = "gone"]
      BY <1>2, <2>3 DEF Release
    <3>2. \A k \in Key : dst[k] # None => dst'[k] = dst[k] \/ dst[k] \in free'[HomeOf(k)]
      BY <1>0, <3>1 DEF FreePending, KeysOf, HomeOf, TypeOK
    <3>3. \A d \in Eng : free[d] \subseteq free'[d]
      BY <1>0, <3>1 DEF FreePending, TypeOK
    <3> QED BY <1>0, <2>1, <3>1, <3>2, <3>3, KeptMoved DEF TypeOK
  <2> QED BY <2>2, <2>3
<1>3. M \in SUBSET Seg /\ Public(M) \subseteq DOMAIN slots[c]
  BY SMTT(30) DEF Missed, Public
<1> HIDE DEF M
<1>4. CASE CombineResult(c)
  <2>1. /\ entry' = [entry EXCEPT ![e] = Registered(e, c, M)]
        /\ free' = [free EXCEPT ![e] = @ \cup GivenBack(e, c, M)]
        /\ comb' = [comb EXCEPT ![c] = "sending"] /\ UNCHANGED <<sub, slots, dst>>
    BY <1>4 DEF CombineResult, M
  <2>2. \A d \in Eng, h \in Seg : entry[d][h] # None => entry'[d][h] = entry[d][h]
    BY <1>0, <2>1 DEF Registered, NewSegs, TypeOK
  <2>3. \A d \in Eng : free[d] \subseteq free'[d]
    BY <1>0, <2>1 DEF TypeOK
  <2> QED BY <1>0, <2>1, <2>2, <2>3, KeptMoved DEF TypeOK
<1>5. CASE SendDone(c)
  <2> DEFINE F == {slots[c][n] : n \in EndFreed(c)}
  <2>1. /\ entry' = [entry EXCEPT ![e] = Registered(e, c, M)]
        /\ free' = [free EXCEPT ![e] = @ \cup GivenBack(e, c, M) \cup F]
        /\ slots' = [slots EXCEPT ![c] = NoSlots]
        /\ comb' = [comb EXCEPT ![c] = "done"] /\ UNCHANGED <<sub, dst>>
    BY <1>5 DEF SendDone, M
  <2>2. \A n \in DOMAIN slots[c] \ Public(M) : slots[c][n] \in F
    BY DEF EndFreed, M
  <2>3. /\ \A q \in Key \cup Comb : q # c => slots'[q] = slots[q]
        /\ \A d \in Eng : Forwards(d) \ {c} \subseteq Forwards(d)'
        /\ \A d \in Eng : c \in Forwards(d) => d = e
    BY <1>0, <2>1 DEF Forwards, TypeOK
  <2> HIDE DEF F
  <2>4. \A d \in Eng, s \in Slot : Kept(d, s)'
    BY <1>0, <1>3, <2>1, <2>2, <2>3, KeptEnd
  <2>5. \A k \in Key : sub'[k] = "running" => DOMAIN slots'[k] = Public({SegOf(k)})
    BY <1>0, <2>1 DEF KeptInv, TypeOK
  <2> QED BY <2>4, <2>5 DEF KeptInv
<1> QED BY <1>1, <1>2, <1>4, <1>5 DEF CombineStep

\* A batch: what is evicted or free stays free or is held by a request of it.
LEMMA LaunchKept ==
  ASSUME ~Rope, KeptInv, TypeInv', Fresh', NEW e \in Eng, Launch(e)
  PROVE  KeptInv'
<1>0. TypeOK /\ Held
  BY DEF KeptInv, TypeInv
<1>1. PICK R \in Batches(e) : \E V \in Evictions(e, Cardinality(BatchNeeds(R)), BatchHits(R)) :
         LET f == Given(Pool(e, V), BatchNeeds(R))
         IN /\ entry' = [entry EXCEPT ![e] = Without(e, V)]
            /\ free' = [free EXCEPT ![e] = Pool(e, V) \ Range(f)]
            /\ slots' = [r \in Key \cup Comb |->
                           IF r \in R THEN [n \in Needs(r) |-> f[<<r, n>>]] ELSE slots[r]]
            /\ sub' = [k \in Key |-> IF k \in R THEN "running" ELSE sub[k]]
            /\ comb' = [c \in Comb |-> IF c \in R THEN "running" ELSE comb[c]]
  BY DEF Launch
<1>2. PICK V \in Evictions(e, Cardinality(BatchNeeds(R)), BatchHits(R)) :
         LET f == Given(Pool(e, V), BatchNeeds(R))
         IN /\ entry' = [entry EXCEPT ![e] = Without(e, V)]
            /\ free' = [free EXCEPT ![e] = Pool(e, V) \ Range(f)]
            /\ slots' = [r \in Key \cup Comb |->
                           IF r \in R THEN [n \in Needs(r) |-> f[<<r, n>>]] ELSE slots[r]]
            /\ sub' = [k \in Key |-> IF k \in R THEN "running" ELSE sub[k]]
            /\ comb' = [c \in Comb |-> IF c \in R THEN "running" ELSE comb[c]]
  BY <1>1
<1> DEFINE f == Given(Pool(e, V), BatchNeeds(R))
<1>3. /\ R \subseteq Waiting(e) /\ R \subseteq Key \cup Comb
      /\ f \in [BatchNeeds(R) -> Pool(e, V)]
      /\ \A r \in R : \A x \in Needs(r) : <<r, x>> \in BatchNeeds(R)
  BY <1>0, LaunchGives
<1> HIDE DEF f
<1>4. UNCHANGED dst
  BY DEF Launch
<1>5. /\ \A r \in R : DOMAIN slots'[r] = Needs(r) /\ \A n \in Needs(r) : slots'[r][n] = f[<<r, n>>]
      /\ \A r \in (Key \cup Comb) \ R : slots'[r] = slots[r]
  BY <1>2, <1>3 DEF f
<1>6. \A d \in Eng : Forwards(d) \cap R = {} /\ Forwards(d) \subseteq Forwards(d)'
  <2>1. \A k \in R \cap Key : sub[k] = "waiting" /\ k \notin Comb
    BY <1>3, KeyType DEF Waiting
  <2>2. \A c \in R \cap Comb : comb[c] = "waiting" /\ c \notin Key
    BY <1>3, KeyType DEF Waiting
  <2> QED BY <1>2, <2>1, <2>2 DEF Forwards
<1>7. R \subseteq Forwards(e)'
  BY <1>2, <1>3 DEF Waiting, Forwards
<1>8. ASSUME NEW s \in Pool(e, V) PROVE Kept(e, s)'
  <2>1. CASE s \in Range(f)
    <3>1. PICK b \in BatchNeeds(R) : s = f[b]
      BY <1>3, <2>1 DEF Range
    <3>2. PICK r \in R : b \in {r} \X Needs(r)
      BY <3>1 DEF BatchNeeds
    <3>3. b[2] \in Needs(r) /\ b = <<r, b[2]>>
      BY SMTT(30), <3>2
    <3>4. slots'[r][b[2]] = s /\ b[2] \in DOMAIN slots'[r]
      BY <1>5, <3>1, <3>3
    <3> QED BY <1>7, <3>4 DEF Kept
  <2>2. CASE s \notin Range(f)
    <3>1. s \in free'[e]
      BY <1>0, <1>2, <2>2 DEF f, TypeOK
    <3> QED BY <3>1 DEF Kept
  <2> QED BY <2>1, <2>2
<1>9. ASSUME NEW d \in Eng, NEW s \in Slot PROVE Kept(d, s)'
  <2>0. Kept(d, s) /\ s # None
    BY ScatterAssumption DEF KeptInv
  <2>1. CASE d = e /\ s \in Pool(e, V)
    BY <1>8, <2>1
  <2>2. CASE ~(d = e /\ s \in Pool(e, V))
    <3>1. CASE s \in free[d]
      BY <1>0, <1>2, <2>2, <3>1 DEF Kept, Pool, TypeOK
    <3>2. CASE \E h \in Seg : entry[d][h] = s
      BY SMTT(30), <1>0, <1>2, <2>0, <2>2, <3>2 DEF Kept, Pool, Without, TypeOK
    <3>3. CASE \E k \in Key : HomeOf(k) = d /\ dst[k] = s
      BY <1>4, <3>3 DEF Kept
    <3>4. CASE \E r \in Forwards(d) : \E n \in DOMAIN slots[r] : slots[r][n] = s
      <4>1. PICK r \in Forwards(d) : \E n \in DOMAIN slots[r] : slots[r][n] = s
        BY <3>4
      <4>2. r \in Key \cup Comb /\ r \notin R /\ r \in Forwards(d)'
        BY <1>6 DEF Forwards
      <4> QED BY <1>5, <4>1, <4>2 DEF Kept
    <3> QED BY <2>0, <3>1, <3>2, <3>3, <3>4 DEF Kept
  <2> QED BY <2>1, <2>2
<1>10. ASSUME NEW k \in Key, sub'[k] = "running" PROVE DOMAIN slots'[k] = Public({SegOf(k)})
  <2>1. CASE k \in R
    <3>1. k \notin Comb /\ Private({SegOf(k)}) = {}
      BY KeyType DEF Private
    <3>2. Needs(k) = Public({SegOf(k)})
      BY <3>1 DEF Needs
    <3> QED BY <1>5, <2>1, <3>2
  <2>2. CASE k \notin R
    BY <1>2, <1>5, <1>10, <2>2 DEF KeptInv
  <2> QED BY <2>1, <2>2
<1> QED BY <1>9, <1>10 DEF KeptInv

\* Without rope and with no short segment scattered, no path loses a slot: not
\* a duplicate arrival, a timeout, an eviction, a lost or late message or a
\* flush, whatever the topology and even when segments are shared.
THEOREM ScatterSlotsKept ==
  ASSUME ~Rope, \A k \in Key : SegOf(k) \notin Short
  PROVE  Spec => []SlotsKept
<1>1. Init => KeptInv
  <2> SUFFICES ASSUME Init PROVE KeptInv
    OBVIOUS
  <2>1. TypeInv
    BY TypeInit
  <2>2. Fresh
    BY DEF Init, Fresh
  <2>3. \A e \in Eng, s \in Slot : Kept(e, s)
    <3>1. \A e \in Eng : free[e] = Slot
      BY DEF Init
    <3> QED BY <3>1 DEF Kept
  <2>4. \A k \in Key : sub[k] # "running"
    BY DEF Init
  <2> QED BY <2>1, <2>2, <2>3, <2>4 DEF KeptInv
<1>2. KeptInv /\ [Next]_vars => KeptInv'
  <2> SUFFICES ASSUME KeptInv, [Next]_vars PROVE KeptInv'
    OBVIOUS
  <2>0. TypeOK /\ TypeInv /\ Fresh
    BY DEF KeptInv, TypeInv
  <2>1. CASE UNCHANGED vars
    <3>1. TypeInv'
      BY <2>0, <2>1, TypeStep
    <3>2. Fresh'
      BY <2>0, <2>1 DEF Fresh, vars
    <3> QED BY <2>1, <3>1, <3>2, KeptQuiet DEF vars
  <2>2. CASE Next
    <3>0. TypeInv' /\ Fresh'
      BY <2>0, <2>2, TypeStep, FreshStep
    <3>1. ASSUME NEW e \in Eng, EngineStep(e) PROVE KeptInv'
      <4>1. CASE Tick(e)
        BY <3>0, <4>1, LaunchKept, KeptQuiet DEF Tick, Move
      <4> QED BY <3>0, <3>1, <4>1, WorkerKept, HomeKept, CombineKept DEF EngineStep
    <3>2. ASSUME NEW e \in Eng, Spin(e) PROVE KeptInv'
      BY <3>0, <3>2, KeptQuiet DEF Spin, vars
    <3>3. ASSUME NEW e \in Eng, Flush(e) PROVE KeptInv'
      <4>1. \A d \in Eng, s \in Slot : s \in free[d] => s \in free'[d]
        BY <2>0, <3>3 DEF Flush, TypeOK
      <4>2. \A d \in Eng, h \in Seg :
              entry[d][h] # None => entry'[d][h] = entry[d][h] \/ entry[d][h] \in free'[d]
        BY SMTT(30), <2>0, <3>3 DEF Flush, TypeOK
      <4> QED BY <3>0, <3>3, <4>1, <4>2, KeptMoved DEF Flush
    <3>4. ASSUME NEW k \in Key, LoseSub(k) PROVE KeptInv'
      BY <2>0, <3>0, <3>4, KeptQuiet DEF LoseSub, TypeOK
    <3>5. ASSUME NEW c \in Comb, ClientAbort(c) PROVE KeptInv'
      BY <2>0, <3>0, <3>5, KeptQuiet DEF ClientAbort, TypeOK
    <3>6. CASE World
      BY <3>0, <3>6, KeptQuiet DEF World, Land, Deadline, Peer
    <3> QED BY <2>2, <3>1, <3>2, <3>3, <3>4, <3>5, <3>6 DEF Next
  <2> QED BY <2>1, <2>2
<1> QED BY <1>1, <1>2, KeptOwned, PTL DEF Spec
=============================================================================
