------------------------------ MODULE Scatter ------------------------------
(***************************************************************************)
(* Scattered prefill: the router sends each segment of a prompt to a       *)
(* prefill engine (sub-request) and the whole prompt to the engine that    *)
(* combines them (combine request). A combine engine reserves destinations *)
(* and posts handles, workers write their segments into them, and the      *)
(* combine request is parked until all its segments are cached.            *)
(*                                                                         *)
(* Every engine is one thread that goes through the phases of its loop;    *)
(* `at' is its program counter. The network, the transfers, the decode     *)
(* peer and the clocks move on their own.                                  *)
(*                                                                         *)
(* Simplifications of data: the KV slots and the mamba state of a segment  *)
(* are one slot; which unlocked entry is evicted is left open; the batch   *)
(* of an engine is processed before the next one is launched               *)
(* (event_loop_normal_disagg_prefill).                                     *)
(***************************************************************************)
EXTENDS Integers, Sequences, FiniteSets, FiniteSetsExt, Functions

CONSTANTS
  Eng,          \* prefill engines
  Seg,          \* segment contents
  Short,        \* the segments below pic_segment_min_tokens
  Comb,         \* combine requests
  Prompt,       \* Prompt[c]: the scattered segments of c, without the query
  Home,         \* Home[c]: the engine that combines c
  Worker,       \* Worker[<<c, i>>]: the engine given segment i of c
  Slot,         \* slots of an engine's pool
  Transition,   \* policy.compose is TRANSITION
  Rope,         \* policy.rope
  Faults,       \* what may go wrong in a run, a subset of AllFaults
  None

AllFaults == {"lost_sub", "lost_handle", "combine_late", "push_late", "write_late",
              "write_raise", "write_error", "peer_fails", "abort", "flush", "load"}

Key == UNION {{c} \X DOMAIN Prompt[c] : c \in Comb}
Part == {"kv", "mamba"}

ASSUME ScatterAssumption ==
  /\ IsFiniteSet(Slot) /\ IsFiniteSet(Seg) /\ IsFiniteSet(Comb)
  /\ Short \subseteq Seg /\ None \notin Slot /\ Faults \subseteq AllFaults
  /\ Prompt \in [Comb -> Seq(Seg) \ {<<>>}] /\ Home \in [Comb -> Eng]
  /\ Worker \in [Key -> Eng] /\ Key \cap Comb = {}
  /\ Transition \in BOOLEAN /\ Rope \in BOOLEAN

VARIABLES
  at,      \* at[e]: the phase of e's loop
  entry,   \* entry[e][h]: the slot of a cached segment, or None
  lock,    \* lock[e][h]: its lock_ref
  free,    \* free[e]: the free slots
  sub,     \* where each sub-request is
  comb,    \* where each combine request is
  slots,   \* the slots a request in a forward holds, by what they are for
  live,    \* the entries a combine request was admitted with or registered
  dst,     \* _pic_scatter_pending: the reserved slot, or None
  to,      \* the slot the handle names (kept after the reservation is gone)
  handle,  \* the handle of a key
  push,    \* _pic_push_pending
  infl,    \* _pic_write_inflight
  wire,    \* the two transfers of a key
  src,     \* the slot they read
  late,    \* the deadlines that have passed
  peer,    \* what the sender of a combine request polls
  told     \* the combine requests the client got an answer for

cacheVars == <<entry, lock, free>>
reqVars   == <<sub, comb, slots, live>>
xferVars  == <<dst, to, handle, push, infl, wire, src>>
envVars   == <<late, peer, told>>
vars      == <<at, cacheVars, reqVars, xferVars, envVars>>

----------------------------------------------------------------------------
SegOf(k) == Prompt[k[1]][k[2]]
HomeOf(k) == Home[k[1]]
Local(k) == Worker[k] = HomeOf(k)
KeysOf(c) == {k \in Key : k[1] = c}
Gated(c) == Range(Prompt[c])
NoSlots == [t \in {} |-> None]
\* what a slot of a forward is for: a segment's entry, its private copy, the query
Public(N) == {"public"} \X N
Private(N) == IF Rope THEN {"private"} \X N ELSE {}
Query == <<"query", None>>

Cached(e) == {h \in Seg : entry[e][h] # None}
Unlocked(e) == {h \in Cached(e) : lock[e][h] = 0}
AllCached(c) == Gated(c) \subseteq Cached(Home[c])
Sent_Either(k) == \E p \in Part : wire[k][p] = "done"    \* faulty: one of the two
\* drain_injects: both notifications of a segment are here
Sent(k) == \A p \in Part : wire[k][p] = "done"
\* drain_writes: both handles of a write are DONE
Written(k) == \A p \in Part : wire[k][p] = "done"
Late(c) == <<"combine", c>> \in late
Pending(e) == {k \in Key : HomeOf(k) = e /\ dst[k] # None}

\* lock_ref of the entries of one engine
Inc(l, S) == [h \in Seg |-> IF h \in S THEN l[h] + 1 ELSE l[h]]
Dec(l, S) == [h \in Seg |-> IF h \in S /\ l[h] > 0 THEN l[h] - 1 ELSE l[h]]
\* faulty: no test of lock_ref > 0
DropHolds_Unguarded(l, c) ==
  [h \in Seg |-> l[h] - Cardinality({i \in DOMAIN Prompt[c] : Prompt[c][i] = h})]
\* faulty: every lock of the segments is dropped
DropHolds_All(l, c) == [h \in Seg |-> IF h \in Gated(c) THEN 0 ELSE l[h]]
\* release_combine_holds: one per scattered position, whoever's lock it is
DropHolds(l, c) ==
  [h \in Seg |-> Max({0, l[h] - Cardinality({i \in DOMAIN Prompt[c] : Prompt[c][i] = h})})]

\* the ways to evict for n slots on engine e, sparing the entries S: nothing when
\* n slots are free, and otherwise, evict_from_tree_cache asks for n and not for
\* what is missing, up to n entries (they are of different length)
Evictions(e, n, S) ==
  {V \in SUBSET (Unlocked(e) \ S) :
     /\ Cardinality(V) <= IF Cardinality(free[e]) >= n THEN 0 ELSE n
     /\ Cardinality(free[e] \cup {entry[e][h] : h \in V}) >= n}
Pool(e, V) == free[e] \cup {entry[e][h] : h \in V}
\* the slots given for the needs N: any of the pool will do
Given(pool, N) == CHOOSE f \in [N -> pool] : IsInjective(f)
Without(e, V) == [h \in Seg |-> IF h \in V THEN None ELSE entry[e][h]]

----------------------------------------------------------------------------
(* The phases of an engine's loop *)

Rank == [recv |-> 0, push |-> 1, writes |-> 2, injects |-> 3, drained |-> 4,
         retired |-> 4, retire |-> 5, boot |-> 6, batch |-> 7, idle |-> 8,
         resulted |-> 8, results |-> 9, inflight |-> 10]

Waiting(e) ==
  {k \in Key : Worker[k] = e /\ sub[k] = "waiting"}
    \cup {c \in Comb : Home[c] = e /\ comb[c] = "waiting"}
Running(e) ==
  {k \in Key : Worker[k] = e /\ sub[k] = "running"}
    \cup {c \in Comb : Home[c] = e /\ comb[c] = "running"}

\* what match_prefix finds for a combine request, and what a forward must allocate
Hits(c) == {h \in Gated(c) : h \notin Short /\ entry[Home[c]][h] # None}
Needs(r) ==
  IF r \in Comb
    THEN {Query} \cup Public(Gated(r) \ Hits(r)) \cup Private(Gated(r))
    ELSE Public({SegOf(r)}) \cup Private({SegOf(r)})
BatchNeeds(R) == UNION {{r} \X Needs(r) : r \in R}
BatchHits(R) == UNION {Hits(c) : c \in R \cap Comb}
\* ready combine requests go before sub-requests
Batches(e) ==
  {R \in SUBSET Waiting(e) :
     /\ R # {}
     /\ R \ Comb # {} => Waiting(e) \cap Comb \subseteq R
     /\ Evictions(e, Cardinality(BatchNeeds(R)), BatchHits(R)) # {}}

\* what a phase has to do
Items(e, p) ==
  CASE p = "push" ->
         {k \in push : Worker[k] = e /\ (handle[k] = "here" \/ <<"push", k>> \in late)}
    [] p = "writes" ->
         {k \in infl : /\ Worker[k] = e
                       /\ \/ Written(k)
                          \/ \E q \in Part : wire[k][q] = "err"
                          \/ <<"write", k>> \in late}
    [] p = "injects" -> {k \in Pending(e) : Sent(k)}
    [] p \in {"drained", "retired", "idle", "resulted"} ->
         {c \in Comb : Home[c] = e /\ comb[c] = "parked" /\ (Late(c) \/ AllCached(c))}
    [] p = "retire" -> {k \in Key : Worker[k] = e /\ sub[k] = "hit"}
    [] p = "boot" -> {c \in Comb : Home[c] = e /\ comb[c] = "queued" /\ peer[c] # "none"}
    [] p = "batch" -> Batches(e)
    [] p = "results" -> Running(e)
    [] p = "inflight" -> {c \in Comb : Home[c] = e /\ comb[c] = "sending" /\ peer[c] = "sent"}
    [] OTHER -> {}

\* faulty: on_idle does not look at parked requests
Enters_NoIdle(e, p, from) ==
  /\ Items(e, p) # {} /\ p # "idle"
  /\ p = "drained" => from = "injects" \/ Pending(e) # {}
\* drain_injects returns before it looks at parked requests when nothing is
\* pending; on_idle runs only when there is no batch
Enters(e, p, from) ==
  /\ Items(e, p) # {}
  /\ p = "drained" => from = "injects" \/ Pending(e) # {}
  /\ p = "idle" => "load" \notin Faults
NextPhase(e) ==
  LET later == {p \in DOMAIN Rank \ {"retired", "resulted"} :
                  Rank[p] > Rank[at[e]] /\ Enters(e, p, at[e])}
  IN IF later = {} THEN "recv"
     ELSE CHOOSE p \in later : \A q \in later : Rank[p] <= Rank[q]

Goto(e, p) == at' = [at EXCEPT ![e] = p]
\* the loop goes on to the next phase that has something to do
Move(e) ==
  /\ at[e] \in DOMAIN Rank /\ Items(e, at[e]) = {}
  /\ NextPhase(e) # at[e]
  /\ Goto(e, NextPhase(e))
  /\ UNCHANGED <<cacheVars, reqVars, xferVars, envVars>>

----------------------------------------------------------------------------
Init ==
  /\ at = [e \in Eng |-> "recv"]
  /\ entry = [e \in Eng |-> [h \in Seg |-> None]]
  /\ lock = [e \in Eng |-> [h \in Seg |-> 0]]
  /\ free = [e \in Eng |-> Slot]
  /\ sub = [k \in Key |-> "sent"] /\ comb = [c \in Comb |-> "sent"]
  /\ slots = [r \in Key \cup Comb |-> NoSlots] /\ live = [c \in Comb |-> {}]
  /\ dst = [k \in Key |-> None] /\ to = [k \in Key |-> None]
  /\ handle = [k \in Key |-> "none"]
  /\ push = {} /\ infl = {}
  /\ wire = [k \in Key |-> [p \in Part |-> "none"]] /\ src = [k \in Key |-> None]
  /\ late = {} /\ peer = [c \in Comb |-> "none"] /\ told = {}

----------------------------------------------------------------------------
(* Receiving: process_input_requests *)

\* a sub-request: a cached segment is pinned and retired on this tick, another
\* one waits for a forward
RecvSub(k) ==
  LET e == Worker[k]
      h == SegOf(k)
  IN /\ at[e] = "recv" /\ sub[k] = "sent"
     /\ \/ /\ entry[e][h] # None
           /\ sub' = [sub EXCEPT ![k] = "hit"]
           /\ lock' = [lock EXCEPT ![e] = Inc(@, {h})]
        \/ /\ entry[e][h] = None
           /\ sub' = [sub EXCEPT ![k] = "waiting"]
           /\ UNCHANGED lock
     /\ UNCHANGED <<at, entry, free, comb, slots, live, xferVars, envVars>>

RecvHandle(k) ==
  /\ at[Worker[k]] = "recv" /\ handle[k] = "sent"
  /\ handle' = [handle EXCEPT ![k] = "here"]
  /\ UNCHANGED <<at, cacheVars, reqVars, dst, to, push, infl, wire, src, envVars>>

RecvCombine(c) ==
  /\ at[Home[c]] = "recv" /\ comb[c] = "sent"
  /\ comb' = [comb EXCEPT ![c] = "arriving"]
  /\ Goto(Home[c], "gate")
  /\ UNCHANGED <<cacheVars, sub, slots, live, xferVars, envVars>>

\* faulty: the first segment is left out
ToPrealloc_Tail(c) == {k \in KeysOf(c) : k[2] > 1 /\ ~Local(k) /\ handle[k] = "none"}
ToPrealloc(c) == {k \in KeysOf(c) : ~Local(k) /\ handle[k] = "none"}

\* prealloc_and_push_handles, one remote segment: reserve, then post the handle
Prealloc(k) ==
  LET c == k[1]
      e == Home[c]
  IN /\ comb[c] = "arriving" /\ k \in ToPrealloc(c)
     /\ \A j \in ToPrealloc(c) : k[2] <= j[2]
     /\ \/ \E V \in Evictions(e, 1, {}) :
             LET s == CHOOSE s \in Pool(e, V) : TRUE
             IN /\ entry' = [entry EXCEPT ![e] = Without(e, V)]
                /\ free' = [free EXCEPT ![e] = Pool(e, V) \ {s}]
                /\ live' = [d \in Comb |-> IF Home[d] = e THEN live[d] \ V ELSE live[d]]
                /\ dst' = [dst EXCEPT ![k] = s] /\ to' = [to EXCEPT ![k] = s]
                /\ \E post \in {"sent"} \cup (IF "lost_handle" \in Faults THEN {"lost"} ELSE {}) :
                     handle' = [handle EXCEPT ![k] = post]
        \/ /\ Evictions(e, 1, {}) = {}
           /\ handle' = [handle EXCEPT ![k] = "noroom"]
           /\ UNCHANGED <<entry, free, live, dst, to>>
     /\ UNCHANGED <<at, lock, sub, comb, slots, push, infl, wire, src, envVars>>

\* the gate: parked unless every scattered segment is cached already
Gate(c) ==
  /\ comb[c] = "arriving" /\ ToPrealloc(c) = {}
  /\ comb' = [comb EXCEPT ![c] = IF AllCached(c) THEN "queued" ELSE "parked"]
  /\ Goto(Home[c], "recv")
  /\ UNCHANGED <<cacheVars, sub, slots, live, xferVars, envVars>>

----------------------------------------------------------------------------
(* Writing: _start_write, drain_writes, and the transfers themselves *)

\* _fire_write from slot s: both transfers are posted and recorded, or firing
\* raises, before or after the KV transfer was posted, and nothing is recorded
Fire(k, s) ==
  /\ handle' = [handle EXCEPT ![k] = "used"]
  /\ src' = [src EXCEPT ![k] = s]
  /\ \/ /\ infl' = infl \cup {k}
        /\ wire' = [wire EXCEPT ![k] = [p \in Part |-> "posted"]]
     \/ /\ "write_raise" \in Faults
        /\ \E P \in {{}, {"kv"}} :
             wire' = [wire EXCEPT ![k] = [p \in Part |-> IF p \in P THEN "posted" ELSE "none"]]
        /\ UNCHANGED infl

\* faulty: a push that is dropped keeps its hold
PushPending_KeepsHold(k) ==
  LET e == Worker[k]
      h == SegOf(k)
  IN /\ at[e] = "push" /\ k \in Items(e, "push")
     /\ push' = push \ {k}
     /\ \/ /\ handle[k] = "here" /\ entry[e][h] # None
           /\ lock' = [lock EXCEPT ![e] = Inc(Dec(@, {h}), {h})]
           /\ Fire(k, entry[e][h])
        \/ /\ handle[k] # "here" \/ entry[e][h] = None
           /\ UNCHANGED <<lock, handle, src, infl, wire>>
     /\ UNCHANGED <<at, entry, free, reqVars, dst, to, envVars>>

\* try_push_pending, one item
PushPending(k) ==
  LET e == Worker[k]
      h == SegOf(k)
  IN /\ at[e] = "push" /\ k \in Items(e, "push")
     /\ push' = push \ {k}
     /\ \/ /\ handle[k] = "here" /\ entry[e][h] = None
           /\ UNCHANGED <<lock, handle, src, infl, wire>>
        \/ /\ handle[k] = "here" /\ entry[e][h] # None
           /\ lock' = [lock EXCEPT ![e] = Inc(Dec(@, {h}), {h})]
           /\ Fire(k, entry[e][h])
        \/ /\ handle[k] # "here"
           /\ lock' = [lock EXCEPT ![e] = Dec(@, {h} \cap Cached(e))]
           /\ UNCHANGED <<handle, src, infl, wire>>
     /\ UNCHANGED <<at, entry, free, reqVars, dst, to, envVars>>

\* drain_writes, one item: done, failed or past its deadline
Reap(k) ==
  LET e == Worker[k]
  IN /\ at[e] = "writes" /\ k \in Items(e, "writes")
     /\ infl' = infl \ {k}
     /\ lock' = [lock EXCEPT ![e] = Dec(@, {SegOf(k)} \cap Cached(e))]
     /\ UNCHANGED <<at, entry, free, reqVars, dst, to, handle, push, wire, src, envVars>>

\* a posted transfer ends; its notification is at the combine engine
Land(k, p) ==
  /\ wire[k][p] = "posted"
  /\ \E end \in {"done"} \cup (IF "write_error" \in Faults THEN {"err"} ELSE {}) :
       wire' = [wire EXCEPT ![k][p] = end]
  /\ UNCHANGED <<at, cacheVars, reqVars, dst, to, handle, push, infl, src, envVars>>

----------------------------------------------------------------------------
(* Receiving segments: drain_injects, _try_release_combines *)

\* faulty: an entry that is there already is replaced
Inject_Replaces(k) ==
  LET e == HomeOf(k)
  IN /\ at[e] = "injects" /\ k \in Items(e, "injects")
     /\ dst' = [dst EXCEPT ![k] = None]
     /\ lock' = [lock EXCEPT ![e] = Inc(@, {SegOf(k)})]
     /\ entry' = [entry EXCEPT ![e][SegOf(k)] = dst[k]]
     /\ UNCHANGED <<at, free, reqVars, to, handle, push, infl, wire, src, envVars>>

\* faulty: no hold is taken for the combine request
Inject_NoHold(k) ==
  LET e == HomeOf(k)
      h == SegOf(k)
  IN /\ at[e] = "injects" /\ k \in Items(e, "injects")
     /\ dst' = [dst EXCEPT ![k] = None]
     /\ free' = IF entry[e][h] # None THEN [free EXCEPT ![e] = @ \cup {dst[k]}] ELSE free
     /\ entry' = IF entry[e][h] # None THEN entry ELSE [entry EXCEPT ![e][h] = dst[k]]
     /\ UNCHANGED <<at, lock, reqVars, to, handle, push, infl, wire, src, envVars>>

\* a segment that has arrived: a new entry, or the entry there is and a free slot
Inject(k) ==
  LET e == HomeOf(k)
      h == SegOf(k)
  IN /\ at[e] = "injects" /\ k \in Items(e, "injects")
     /\ dst' = [dst EXCEPT ![k] = None]
     /\ lock' = [lock EXCEPT ![e] = Inc(@, {h})]
     /\ \/ /\ entry[e][h] # None
           /\ free' = [free EXCEPT ![e] = @ \cup {dst[k]}]
           /\ UNCHANGED entry
        \/ /\ entry[e][h] = None
           /\ entry' = [entry EXCEPT ![e][h] = dst[k]]
           /\ UNCHANGED free
     /\ UNCHANGED <<at, reqVars, to, handle, push, infl, wire, src, envVars>>

\* faulty: the reservations are forgotten, not freed
FreePending_Forgets(c) ==
  /\ dst' = [k \in Key |-> IF k \in KeysOf(c) THEN None ELSE dst[k]]
  /\ UNCHANGED free
\* faulty: what is freed stays reserved
FreePending_Keeps(c) ==
  /\ free' = [free EXCEPT ![Home[c]] = @ \cup ({dst[k] : k \in KeysOf(c)} \ {None})]
  /\ UNCHANGED dst

\* _free_combine_pending: every reservation of c that is still there
FreePending(c) ==
  /\ dst' = [k \in Key |-> IF k \in KeysOf(c) THEN None ELSE dst[k]]
  /\ free' = [free EXCEPT ![Home[c]] = @ \cup ({dst[k] : k \in KeysOf(c)} \ {None})]

\* abort_request looks in the waiting queue, the bootstrap queue and the
\* batches, and nowhere else
AbortRequest(c) ==
  /\ told' = IF comb[c] = "waiting" THEN told \cup {c} ELSE told
  /\ peer' = IF comb[c] = "queued" /\ peer[c] = "none" THEN [peer EXCEPT ![c] = "failed"] ELSE peer

\* one parked request: the deadline is looked at first
Release(c) ==
  LET e == Home[c]
  IN /\ at[e] \in {"drained", "retired", "idle", "resulted"} /\ c \in Items(e, at[e])
     /\ \/ /\ Late(c)
           /\ FreePending(c)
           /\ lock' = [lock EXCEPT ![e] = DropHolds(@, c)]
           /\ AbortRequest(c)
           /\ comb' = [comb EXCEPT ![c] = "gone"]
        \/ /\ ~Late(c)
           /\ comb' = [comb EXCEPT ![c] = "queued"]
           /\ UNCHANGED <<dst, free, lock, told, peer>>
     /\ UNCHANGED <<at, entry, sub, slots, live, to, handle, push, infl, wire, src, late>>

----------------------------------------------------------------------------
(* Retiring sub-requests: pic_scatter_retire *)

Handover_Unpinned(l, h) == Dec(l, {h})    \* faulty: no lock is taken

\* maybe_push_after_prefill takes a lock (arrival hold, write pin or pending
\* hold), then the retire releases the hit or protect lock
Handover(l, h) == Dec(Inc(l, {h}), {h})

\* E, l: the entries and locks of the engine when the retire starts. A local
\* segment wakes the parked requests; a handle that is here is used at once.
Retire(k, E, l) ==
  LET e == Worker[k]
      h == SegOf(k)
      ready == handle[k] = "here"
  IN /\ sub' = [sub EXCEPT ![k] = "retired"]
     /\ lock' = [lock EXCEPT ![e] = IF E[h] = None THEN l ELSE Handover(l, h)]
     /\ Goto(e, IF ~Local(k) THEN at[e] ELSE IF at[e] = "retire" THEN "retired" ELSE "resulted")
     /\ \/ /\ ~Local(k) /\ ready /\ E[h] # None
           /\ Fire(k, E[h])
           /\ UNCHANGED push
        \/ /\ ~Local(k) /\ ~ready
           /\ push' = push \cup {k}
           /\ UNCHANGED <<infl, wire, src, handle>>
        \/ /\ Local(k) \/ (ready /\ E[h] = None)
           /\ UNCHANGED <<push, infl, wire, src, handle>>

\* a hit: retired on the tick after it was received
HitRetire(k) ==
  LET e == Worker[k]
  IN /\ at[e] = "retire" /\ sub[k] = "hit"
     /\ Retire(k, entry[e], lock[e])
     /\ UNCHANGED <<entry, free, comb, slots, live, dst, to, envVars>>

----------------------------------------------------------------------------
(* Forwards *)

\* pop_bootstrapped, and handle_bootstrap_failure
Bootstrapped(c) ==
  LET e == Home[c]
  IN /\ at[e] = "boot" /\ c \in Items(e, "boot")
     /\ \/ /\ peer[c] = "ok"
           /\ comb' = [comb EXCEPT ![c] = "waiting"]
           /\ UNCHANGED told
        \/ /\ peer[c] = "failed"
           /\ comb' = [comb EXCEPT ![c] = "gone"]
           /\ told' = told \cup {c}
     /\ UNCHANGED <<at, cacheVars, sub, slots, live, xferVars, late, peer>>

\* a batch: lock the hits, allocate, run
Launch(e) ==
  /\ at[e] = "batch"
  /\ \E R \in Batches(e) :
       LET N == BatchNeeds(R)
       IN \E V \in Evictions(e, Cardinality(N), BatchHits(R)) :
            LET f == Given(Pool(e, V), N)
            IN /\ entry' = [entry EXCEPT ![e] = Without(e, V)]
               /\ free' = [free EXCEPT ![e] = Pool(e, V) \ Range(f)]
               /\ slots' = [r \in Key \cup Comb |->
                              IF r \in R THEN [n \in Needs(r) |-> f[<<r, n>>]] ELSE slots[r]]
               /\ lock' = [lock EXCEPT ![e] =
                              [h \in Seg |-> @[h] + Cardinality({c \in R \cap Comb : h \in Hits(c)})]]
               /\ live' = [c \in Comb |-> IF c \in R THEN Hits(c)
                                          ELSE IF Home[c] = e THEN live[c] \ V ELSE live[c]]
               /\ sub' = [k \in Key |-> IF k \in R THEN "running" ELSE sub[k]]
               /\ comb' = [c \in Comb |-> IF c \in R THEN "running" ELSE comb[c]]
  /\ Goto(e, "results")
  /\ UNCHANGED <<xferVars, envVars>>

\* cache_unfinished_req for the segments M of request r on engine e: a segment
\* that is cached already gives its slot back; a new entry is protected in the
\* transition modes
NewSegs(e, M) == {h \in M : entry[e][h] = None}
Registered(e, r, M) ==
  [h \in Seg |-> IF h \in NewSegs(e, M) THEN slots[r][<<"public", h>>] ELSE entry[e][h]]
Protected(e, M) == IF Transition THEN Inc(lock[e], NewSegs(e, M)) ELSE lock[e]
GivenBack(e, r, M) == {slots[r][n] : n \in Public(M \ NewSegs(e, M))}

\* the result of a sub-request: registered, then retired; the retire gives no
\* slot back
SubResult(k) ==
  LET e == Worker[k]
      M == {SegOf(k)} \ Short
  IN /\ at[e] = "results" /\ sub[k] = "running"
     /\ entry' = [entry EXCEPT ![e] = Registered(e, k, M)]
     /\ free' = [free EXCEPT ![e] = @ \cup GivenBack(e, k, M)]
     /\ slots' = [slots EXCEPT ![k] = NoSlots]
     /\ Retire(k, Registered(e, k, M), Protected(e, M))
     /\ UNCHANGED <<comb, live, dst, to, envVars>>

Missed(c) == {h \in Seg \ Short : <<"public", h>> \in DOMAIN slots[c]}

\* the result of a combine request: what it missed is registered, the holds of
\* its segments are dropped, its KV goes to the decode engine
CombineResult(c) ==
  LET e == Home[c]
      M == Missed(c)
  IN /\ at[e] = "results" /\ comb[c] = "running"
     /\ entry' = [entry EXCEPT ![e] = Registered(e, c, M)]
     /\ free' = [free EXCEPT ![e] = @ \cup GivenBack(e, c, M)]
     /\ lock' = [lock EXCEPT ![e] = DropHolds(Protected(e, M), c)]
     /\ live' = [live EXCEPT ![c] = @ \cup M]
     /\ comb' = [comb EXCEPT ![c] = "sending"]
     /\ UNCHANGED <<at, sub, slots, xferVars, envVars>>

\* the slots freed at the end: the query's, the private copies, and without rope
\* those of the short segments
EndFreed(c) == DOMAIN slots[c] \ Public(IF Rope THEN Seg ELSE Missed(c))

\* process_disagg_prefill_inflight_queue, a transfer that succeeded or failed:
\* cache_finished_req registers once more and releases the locks and the
\* remaining slots
SendDone(c) ==
  LET e == Home[c]
      M == Missed(c)
  IN /\ at[e] = "inflight" /\ c \in Items(e, "inflight")
     /\ entry' = [entry EXCEPT ![e] = Registered(e, c, M)]
     /\ free' = [free EXCEPT ![e] = @ \cup GivenBack(e, c, M)
                                      \cup {slots[c][n] : n \in EndFreed(c)}]
     /\ lock' = [lock EXCEPT ![e] = Dec(Protected(e, M), live[c] \cup M)]
     /\ live' = [live EXCEPT ![c] = {}]
     /\ slots' = [slots EXCEPT ![c] = NoSlots]
     /\ comb' = [comb EXCEPT ![c] = "done"]
     /\ told' = told \cup {c}
     /\ UNCHANGED <<at, sub, xferVars, late, peer>>

\* flush_cache: is_fully_idle does not look at parked requests, hits to retire,
\* reservations, pending pushes or writes
Flush(e) ==
  /\ "flush" \in Faults /\ at[e] = "recv"
  /\ Waiting(e) = {}
  /\ \A c \in Comb : Home[c] = e => comb[c] \notin {"queued", "sending"}
  /\ entry' = [entry EXCEPT ![e] = [h \in Seg |-> None]]
  /\ lock' = [lock EXCEPT ![e] = [h \in Seg |-> 0]]
  /\ free' = [free EXCEPT ![e] = Slot]
  /\ entry' # entry \/ free' # free
  /\ UNCHANGED <<at, reqVars, xferVars, envVars>>

----------------------------------------------------------------------------
(* The world outside the engines *)

LoseSub(k) ==
  /\ "lost_sub" \in Faults /\ sub[k] = "sent"
  /\ sub' = [sub EXCEPT ![k] = "lost"]
  /\ UNCHANGED <<at, cacheVars, comb, slots, live, xferVars, envVars>>

\* time passes: pic_scatter_timeout_s for parked requests and pending pushes,
\* ten seconds for writes
Deadline(d) ==
  /\ \/ /\ d \in {"combine"} \X {c \in Comb : comb[c] = "parked"}
        /\ "combine_late" \in Faults
     \/ d \in {"push"} \X push /\ "push_late" \in Faults
     \/ d \in {"write"} \X infl /\ "write_late" \in Faults
  /\ late' = late \cup {d}
  /\ late' # late
  /\ UNCHANGED <<at, cacheVars, reqVars, xferVars, peer, told>>

\* the decode peer: the handshake ends, later the transfer to it
Peer(c) ==
  /\ \/ /\ comb[c] = "queued" /\ peer[c] = "none"
        /\ \E p \in {"ok"} \cup (IF "peer_fails" \in Faults THEN {"failed"} ELSE {}) :
             peer' = [peer EXCEPT ![c] = p]
     \/ /\ comb[c] = "sending" /\ peer[c] # "sent"
        /\ peer' = [peer EXCEPT ![c] = "sent"]
  /\ UNCHANGED <<at, cacheVars, reqVars, xferVars, late, told>>

\* the client goes away: an AbortReq for c
ClientAbort(c) ==
  LET e == Home[c]
  IN /\ "abort" \in Faults /\ at[e] = "recv" /\ comb[c] \in {"parked", "queued", "waiting"}
     /\ AbortRequest(c)
     /\ comb' = IF comb[c] = "waiting" THEN [comb EXCEPT ![c] = "gone"] ELSE comb
     /\ told' # told \/ peer' # peer
     /\ UNCHANGED <<at, cacheVars, sub, slots, live, xferVars, late>>

\* the loop goes round with nothing to do
Spin(e) ==
  /\ at[e] = "recv" /\ NextPhase(e) = "recv"
  /\ UNCHANGED vars

----------------------------------------------------------------------------
Tick(e) == Move(e) \/ Launch(e)
WorkerStep(k) ==
  RecvSub(k) \/ RecvHandle(k) \/ PushPending(k) \/ Reap(k) \/ HitRetire(k) \/ SubResult(k)
HomeStep(k) == Prealloc(k) \/ Inject(k)
CombineStep(c) ==
  RecvCombine(c) \/ Gate(c) \/ Release(c) \/ Bootstrapped(c) \/ CombineResult(c) \/ SendDone(c)
EngineStep(e) ==
  \/ Tick(e)
  \/ \E k \in Key : Worker[k] = e /\ WorkerStep(k)
  \/ \E k \in Key : HomeOf(k) = e /\ HomeStep(k)
  \/ \E c \in Comb : Home[c] = e /\ CombineStep(c)
World ==
  \/ \E k \in Key, p \in Part : Land(k, p)
  \/ \E d \in ({"combine"} \X Comb) \cup ({"push", "write"} \X Key) : Deadline(d)
  \/ \E c \in Comb : Peer(c)
Next ==
  \/ \E e \in Eng : EngineStep(e) \/ Spin(e) \/ Flush(e)
  \/ \E k \in Key : LoseSub(k)
  \/ \E c \in Comb : ClientAbort(c)
  \/ World

Spec == Init /\ [][Next]_vars
FairSpec ==
  /\ Spec
  /\ \A e \in Eng : WF_vars(EngineStep(e))
  /\ \A k \in Key, p \in Part : WF_vars(Land(k, p))
  /\ \A c \in Comb : WF_vars(Deadline(<<"combine", c>>)) /\ WF_vars(Peer(c))

----------------------------------------------------------------------------
(* Properties *)

\* Every variable stays within its type; no lock_ref is negative.
TypeOK ==
  /\ at \in [Eng -> DOMAIN Rank \cup {"gate"}]
  /\ entry \in [Eng -> [Seg -> Slot \cup {None}]]
  /\ lock \in [Eng -> [Seg -> Nat]]
  /\ free \in [Eng -> SUBSET Slot]
  /\ sub \in [Key -> {"sent", "lost", "hit", "waiting", "running", "retired"}]
  /\ comb \in [Comb -> {"sent", "arriving", "parked", "queued", "waiting",
                        "running", "sending", "done", "gone"}]
  /\ live \in [Comb -> SUBSET Seg] /\ DOMAIN slots = Key \cup Comb
  /\ dst \in [Key -> Slot \cup {None}] /\ to \in [Key -> Slot \cup {None}]
  /\ handle \in [Key -> {"none", "noroom", "sent", "lost", "here", "used"}]
  /\ push \subseteq Key /\ infl \subseteq Key
  /\ wire \in [Key -> [Part -> {"none", "posted", "done", "err"}]]
  /\ src \in [Key -> Slot \cup {None}]
  /\ peer \in [Comb -> {"none", "ok", "failed", "sent"}] /\ told \subseteq Comb

\* An engine that gives reservations up (drain_injects, _free_combine_pending)
\* and a transfer of another engine are not synchronised: a transfer under way
\* still writes into the slot that the combine engine reserved for it.
TargetReserved ==
  \A k \in Key, p \in Part : wire[k][p] = "posted" => dst[k] = to[k]

\* _start_write's pin: whatever else releases locks of the segment meanwhile
\* (retire, deadline, another request), a transfer under way reads the slot of
\* an entry that is cached and cannot be evicted.
SourcePinned ==
  \A k \in Key, p \in Part :
    wire[k][p] = "posted" =>
      entry[Worker[k]][SegOf(k)] = src[k] /\ lock[Worker[k]][SegOf(k)] > 0

\* the references to segment h on engine e that someone will release
Arrived(k) == IF Local(k) THEN sub[k] = "retired" ELSE handle[k] # "none" /\ Sent(k) /\ dst[k] = None
Holders(e, h) ==
  Cardinality({k \in Key : Worker[k] = e /\ SegOf(k) = h /\ (sub[k] = "hit" \/ k \in push \/ k \in infl)})
  + Cardinality({k \in Key : /\ HomeOf(k) = e /\ SegOf(k) = h /\ Arrived(k)
                             /\ comb[k[1]] \notin {"sending", "done", "gone"}})
  + Cardinality({c \in Comb : Home[c] = e /\ h \in live[c]})

\* The locks of an entry are anonymous: they are taken by arrivals, hits, pending
\* pushes, writes and admissions, and each is dropped by decrementing. Every
\* lock_ref still has exactly one holder that will release it.
LocksAccounted == \A e \in Eng, h \in Seg : lock[e][h] = Holders(e, h)

\* who owns slot s of engine e: an entry, a reservation or a forward
Owners(e, s) ==
  {<<"entry", h>> : h \in {x \in Seg : entry[e][x] = s}}
    \cup {<<"reserved", k>> : k \in {x \in Pending(e) : dst[x] = s}}
    \cup {<<"forward", r>> :
             r \in {x \in Running(e) \cup {c \in Comb : Home[c] = e /\ comb[c] = "sending"} :
                      s \in Range(slots[x])}}

\* On every path (arrival, duplicate arrival, timeout, retire, end of a request)
\* no slot is lost: what is not free belongs to an entry, a reservation or a
\* forward, each of which gives it back in the end.
SlotsKept == \A e \in Eng, s \in Slot : s \in free[e] \/ Owners(e, s) # {}

\* A slot is never given back twice or handed out while in use: none has two
\* owners (entries, reservations, forwards), and none that is free has one.
SlotsExclusive ==
  \A e \in Eng, s \in Slot :
    Cardinality(Owners(e, s)) <= IF s \in free[e] THEN 0 ELSE 1

\* A combine request that was let through the gate, by _add_request_to_queue or
\* by _try_release_combines, still has all its segments when it is launched.
ReadyStays ==
  \A c \in Comb : comb[c] \in {"queued", "waiting"} => Gated(c) \subseteq Cached(Home[c])

\* While a combine request runs and its KV goes to the decode engine, the
\* entries it composes are locked against eviction.
SendingPinned ==
  \A c \in Comb : comb[c] \in {"running", "sending"} =>
    \A h \in Gated(c) \ Missed(c) : h \in live[c] /\ lock[Home[c]][h] > 0

\* maybe_push_after_prefill takes it that a segment computed on the engine that
\* combines it was cached by cache_unfinished_req: its retire finds it cached.
RetiredCached ==
  [][\A k \in Key : Local(k) /\ sub[k] # "retired" /\ sub'[k] = "retired"
                      => entry'[Worker[k]][SegOf(k)] # None]_vars

\* _try_release_combines aborts a request through abort_request: a request that
\* is taken out of the engine is answered.
AllAnswered == \A c \in Comb : comb[c] = "gone" => c \in told

\* The gate, the priority of combine requests and the evictions together: as long
\* as nothing fails, every combine request runs to its end.
AllRun == \A c \in Comb : <>(comb[c] = "done")
\* Whatever is lost, late or aborted on the way, a combine request does not stay
\* parked, queued or waiting for ever: it ends or is given up.
AllLeave == \A c \in Comb : <>(comb[c] \in {"done", "gone"})
=============================================================================
