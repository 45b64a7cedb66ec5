------------------------------ MODULE PICache ------------------------------
(***************************************************************************)
(* The segment cache of one engine and the requests that go through it:    *)
(* matching and locking at admission, slot allocation for a prefill batch, *)
(* registration of missed segments, release, eviction, retraction, flush.  *)
(*                                                                         *)
(* Simplifications of data, not of control:                                *)
(*  - a segment is its content: hash and token comparison never disagree;  *)
(*  - the KV slots of one segment travel together and are one slot here,   *)
(*    as if every segment were one token long; decode tokens are one slot; *)
(*  - pools are bags, so that a slot freed twice is counted twice; the     *)
(*    order in which a pool hands out slots is the parameter Pick.         *)
(***************************************************************************)
EXTENDS Integers, Sequences, FiniteSets, FiniteSetsExt, Functions

CONSTANTS
  Seg,          \* segment contents
  Short,        \* the segments below pic_segment_min_tokens ({} when it is -1)
  Prompts,      \* the prompts clients send: non-empty sequences of segments
  Req,          \* request objects
  KV, Mamba,    \* slots of the two pools
  Pick(_, _),   \* Pick(bag, needs): candidate allocations of needs out of the bag
  Transition,   \* policy.compose is TRANSITION (else ADDITION)
  Rope,         \* policy.rope
  Depth,        \* batches in flight: 1 in event_loop_normal, 2 with overlap
  MaxDecode,    \* max_new_tokens - 1; 0: requests end at their prefill
  RetractSteps, \* SGLANG_RETRACT_DECODE_STEPS
  None

ASSUME SegAssumption ==
  /\ IsFiniteSet(Seg) /\ IsFiniteSet(Req) /\ IsFiniteSet(KV) /\ IsFiniteSet(Mamba)
  /\ Short \subseteq Seg
  /\ Prompts \subseteq Seq(Seg) \ {<<>>}
  /\ None \notin [kv : KV, mb : Mamba]

ASSUME PolicyAssumption ==
  /\ Transition \in BOOLEAN /\ Rope \in BOOLEAN
  /\ Rope => Transition
  /\ Depth \in {1, 2} /\ MaxDecode \in Nat /\ RetractSteps \in Nat

VARIABLES
  entry,    \* PICache._entries: the slots of a cached segment, or None
  lock,     \* SegmentEntry.lock_ref of the entry (0 without one)
  older,    \* pairs <<g, h>>: g was accessed before h
  kvFree,   \* free list of the token pool, as a bag
  mbFree,   \* free list of the mamba pool, as a bag
  inflKV,   \* _inflight_full_tokens
  inflMb,   \* _inflight_mamba_slots
  phase,    \* where each request is
  prompt,   \* its segments
  hit,      \* pic_hit_segments: positions served from the cache
  live,     \* pic_segment_entries that are still objects of _entries
  kv, mb,   \* slots recorded on the request, by tag
  loop,     \* what the scheduler loop is doing
  launched  \* batches whose result is not processed yet, oldest first

cacheVars == <<entry, lock, older>>
poolVars  == <<kvFree, mbFree, inflKV, inflMb>>
reqVars   == <<phase, prompt, hit, live, kv, mb>>
loopVars  == <<loop, launched>>
vars      == <<cacheVars, poolVars, reqVars, loopVars>>

NoSlots == [t \in {} |-> None]
NoPrompt == <<>>

----------------------------------------------------------------------------
(* Pools *)

Occ(f, s) == Cardinality({t \in DOMAIN f : f[t] = s})
Give(bag, f) == [s \in DOMAIN bag |-> bag[s] + Occ(f, s)]
Take(bag, f) == [s \in DOMAIN bag |-> bag[s] - Occ(f, s)]
Fits(bag, f) == \A s \in DOMAIN bag : Occ(f, s) <= bag[s]
Alloc(bag, needs) ==
  {f \in Pick(bag, needs) : f \in [needs -> DOMAIN bag] /\ Fits(bag, f)}
Avail(bag) == Cardinality(UNION {{s} \X (1 .. bag[s]) : s \in DOMAIN bag})
Sub(a, b) == IF a > b THEN a - b ELSE 0     \* max(0, a - b)

----------------------------------------------------------------------------
(* Cache index *)

Cached(e) == {h \in Seg : e[h] # None}
Unlocked_Any(e, l) == Cached(e)    \* faulty: locked entries are candidates too
Unlocked(e, l) == {h \in Cached(e) : l[h] = 0}
Without(e, V) == [h \in Seg |-> IF h \in V THEN None ELSE e[h]]
KVOf(V) == [h \in V |-> entry[h].kv]
MbOf(V) == [h \in V |-> entry[h].mb]

\* evict(): the n least recently used of the candidates S
Oldest(S, n) == {h \in S : Cardinality({g \in S : <<g, h>> \in older}) < n}

\* recency after the positions I of prompt p were accessed in order, with C cached
Accessed(p, I, C) ==
  LET T == {p[i] : i \in I}
      last(h) == Max({i \in I : p[i] = h})
  IN {gh \in C \X C : IF gh[2] \in T
                        THEN gh[1] \notin T \/ last(gh[1]) < last(gh[2])
                        ELSE gh[1] \notin T /\ gh \in older}

----------------------------------------------------------------------------
(* What a request needs and registers *)

Pos(r) == 1 .. Len(prompt[r])
Miss(r) == Pos(r) \ hit[r]
Multi(r) == Len(prompt[r]) > 1
\* the query segment: the last one of a prompt of several
IsQuery(r, i) == Multi(r) /\ i = Len(prompt[r])
IsShort(r, i) == prompt[r][i] \in Short
Admitted == {r \in Req : phase[r] = "admitted"}
\* the running batch: with overlap it includes prefills whose result is out
Batch == {r \in Req : phase[r] \in {"running", "decoding"}}

\* match_prefix: positions of p that hit
Matched(p) == {i \in 1 .. Len(p) - 1 : p[i] \notin Short /\ entry[p[i]] # None}

\* misses that cache_unfinished_req registers
Cacheable(r) == {i \in Miss(r) : ~IsQuery(r, i) /\ ~IsShort(r, i)}

KVNeeds(r) ==
  IF Rope THEN ({"priv"} \X Pos(r)) \cup ({"pub"} \X {i \in Miss(r) : ~IsQuery(r, i)})
          ELSE {"priv"} \X Miss(r)
MbNeeds(r) ==
  {"seg"} \X {i \in Miss(r) : Rope \/ i = Len(prompt[r]) \/ ~IsShort(r, i)}

\* the tag under which a registered segment's KV slot is recorded
EntryKind == IF Rope THEN "pub" ELSE "priv"
EntryTag(i) == <<EntryKind, i>>
SegTag(i) == <<"seg", i>>
PoolTag == <<"pool", 0>>
Decs(r) == {t \in DOMAIN kv[r] : t[1] = "dec"}

\* batches of r whose result is outstanding, and outputs r has produced so far
Outstanding(r) == Cardinality({i \in DOMAIN launched : r \in launched[i]})
Outputs(r) == 1 + Cardinality(Decs(r)) - Outstanding(r)

\* add_one_req: total_tokens, and rem_total_tokens of the adder
Need(p, I) == Len(p) - Cardinality(I) + (MaxDecode + 1) + 1
RemTotalTokens ==
  Avail(kvFree) + Cardinality(Unlocked(entry, lock))
    - MapThenSumSet(LAMBDA r : Need(prompt[r], hit[r]), Admitted)

----------------------------------------------------------------------------
Init ==
  /\ entry = [h \in Seg |-> None] /\ lock = [h \in Seg |-> 0] /\ older = {}
  /\ kvFree = [s \in KV |-> 1] /\ mbFree = [s \in Mamba |-> 1]
  /\ inflKV = 0 /\ inflMb = 0
  /\ phase = [r \in Req |-> "idle"] /\ prompt = [r \in Req |-> NoPrompt]
  /\ hit = [r \in Req |-> {}] /\ live = [r \in Req |-> {}]
  /\ kv = [r \in Req |-> NoSlots] /\ mb = [r \in Req |-> NoSlots]
  /\ loop = "form" /\ launched = <<>>

\* a request arrives and is split into segments
Arrive(r, p) ==
  /\ phase[r] = "idle" /\ loop # "down"
  /\ phase' = [phase EXCEPT ![r] = "waiting"]
  /\ prompt' = [prompt EXCEPT ![r] = p]
  /\ UNCHANGED <<cacheVars, poolVars, hit, live, kv, mb, loopVars>>

\* abort_request on a waiting request: it holds nothing yet
AbortWaiting(r) ==
  /\ phase[r] = "waiting" /\ loop # "down"
  /\ phase' = [phase EXCEPT ![r] = "idle"]
  /\ prompt' = [prompt EXCEPT ![r] = NoPrompt]
  /\ UNCHANGED <<cacheVars, poolVars, hit, live, kv, mb, loopVars>>

\* init_next_round_input then add_one_req: match, check the budget, lock the hits
Admit(r) ==
  LET I == Matched(prompt[r])
      H == {prompt[r][i] : i \in I}
  IN /\ loop = "form" /\ phase[r] = "waiting"
     /\ Need(prompt[r], I) < RemTotalTokens
     /\ phase' = [phase EXCEPT ![r] = "admitted"]
     /\ hit' = [hit EXCEPT ![r] = I]
     /\ live' = [live EXCEPT ![r] = H]
     /\ lock' = [h \in Seg |-> IF h \in H THEN lock[h] + 1 ELSE lock[h]]
     /\ older' = Accessed(prompt[r], I, Cached(entry))
     /\ UNCHANGED <<entry, poolVars, prompt, kv, mb, loopVars>>

\* the same call returning NO_TOKEN: the match has touched the entries, and the
\* scheduler stops adding requests to this batch
Reject(r) ==
  LET I == Matched(prompt[r])
  IN /\ loop = "form" /\ phase[r] = "waiting"
     /\ Need(prompt[r], I) >= RemTotalTokens
     /\ older' = Accessed(prompt[r], I, Cached(entry))
     /\ loop' = "full"
     /\ UNCHANGED <<entry, lock, poolVars, reqVars, launched>>

\* after a batch was appended: process a result when Depth batches are out
AfterLaunch(L) == IF Len(L) >= Depth THEN "results" ELSE "form"

----------------------------------------------------------------------------
(* Launching a prefill batch: pic_alloc_for_extend *)

SlotNeeds == UNION {{r} \X KVNeeds(r) : r \in Admitted}
SegNeeds == UNION {{r} \X MbNeeds(r) : r \in Admitted}
PoolNeeds == Admitted \X {PoolTag}

\* The evictions of the three allocations in turn (alloc_req_slots asks for
\* three mamba states per request and takes one; alloc_token_slots asks for n
\* whenever fewer are free; _alloc_one_mamba evicts one at a time), and whether
\* all of them succeed.
AllocPlan ==
  LET m == Cardinality(Admitted)
      n == Cardinality(SlotNeeds)
      k == Cardinality(SegNeeds)
      U == Cardinality(Unlocked(entry, lock))
      e1 == Min({U, Sub(3 * m, Avail(mbFree))})
      e2 == IF Avail(kvFree) + e1 < n THEN Min({U - e1, n}) ELSE 0
      e3 == Sub(k, Avail(mbFree) + e1 - m + e2)
  IN [evict |-> e1 + e2 + e3,
      ok |-> /\ Avail(mbFree) + e1 >= m
             /\ Avail(kvFree) + e1 + e2 >= n
             /\ e1 + e2 + e3 <= U]

Launch ==
  LET V == Oldest(Unlocked(entry, lock), AllocPlan.evict)
      kvBag == Give(kvFree, KVOf(V))
      mbBag == Give(mbFree, MbOf(V))
  IN /\ loop \in {"form", "full"} /\ Admitted # {} /\ AllocPlan.ok
     /\ \E f \in Alloc(kvBag, SlotNeeds), g \in Alloc(mbBag, PoolNeeds \cup SegNeeds) :
          /\ kvFree' = Take(kvBag, f)
          /\ mbFree' = Take(mbBag, g)
          /\ kv' = [r \in Req |-> IF r \in Admitted
                                    THEN [t \in KVNeeds(r) |-> f[<<r, t>>]] ELSE kv[r]]
          /\ mb' = [r \in Req |-> IF r \in Admitted
                                    THEN [t \in {PoolTag} \cup MbNeeds(r) |-> g[<<r, t>>]]
                                    ELSE mb[r]]
     /\ entry' = Without(entry, V)
     /\ older' = older \cap (Cached(entry') \X Cached(entry'))
     /\ live' = [r \in Req |-> live[r] \ V]
     /\ inflKV' = inflKV + Cardinality(SlotNeeds)
     /\ inflMb' = inflMb + Cardinality(SegNeeds)
     /\ phase' = [r \in Req |-> IF r \in Admitted THEN "running" ELSE phase[r]]
     /\ launched' = Append(launched, Admitted)
     /\ loop' = AfterLaunch(launched')
     /\ UNCHANGED <<lock, prompt, hit>>

\* faulty: the error is swallowed and the batch forgotten
LaunchFails_Swallowed ==
  /\ loop \in {"form", "full"} /\ Admitted # {} /\ ~AllocPlan.ok
  /\ UNCHANGED vars

\* one of the allocations raises: the scheduler process goes down
LaunchFails ==
  /\ loop \in {"form", "full"} /\ Admitted # {} /\ ~AllocPlan.ok
  /\ loop' = "down"
  /\ UNCHANGED <<cacheVars, poolVars, reqVars, launched>>

\* nothing to launch: process what is outstanding, or go round
NoBatch ==
  /\ loop \in {"form", "full"} /\ Admitted = {} /\ Batch = {}
  /\ loop = "full" \/ launched # <<>>
  /\ loop' = IF launched = <<>> THEN "form" ELSE "results"
  /\ UNCHANGED <<cacheVars, poolVars, reqVars, launched>>

----------------------------------------------------------------------------
(* Registering and releasing: cache_unfinished_req, cache_finished_req *)

\* the positions of M that become entries; the others find one and are freed
NewlyOwned(r, M) ==
  {i \in M : /\ entry[prompt[r][i]] = None
             /\ \A j \in M : j < i => prompt[r][j] # prompt[r][i]}
Registered(r, M) ==
  [h \in Seg |->
     IF \E i \in NewlyOwned(r, M) : prompt[r][i] = h
       THEN LET i == CHOOSE j \in NewlyOwned(r, M) : prompt[r][j] = h
            IN [kv |-> kv[r][EntryTag(i)], mb |-> mb[r][SegTag(i)]]
       ELSE entry[h]]
Segs(r, M) == {prompt[r][i] : i \in M}
\* faulty: an entry that was found is locked again
LockNew_Again(r, M) ==
  [h \in Seg |-> IF h \in Segs(r, M) THEN lock[h] + 1 ELSE lock[h]]
\* a new entry is protected in the transition modes
LockNew(r, M) ==
  [h \in Seg |-> IF Transition /\ h \in Segs(r, NewlyOwned(r, M)) THEN lock[h] + 1 ELSE lock[h]]
\* faulty: no test of lock_ref > 0
Dec_Unguarded(l, S) == [h \in Seg |-> IF h \in S THEN l[h] - 1 ELSE l[h]]
\* dec_lock_ref over a set of entries
Dec(l, S) == [h \in Seg |-> IF h \in S /\ l[h] > 0 THEN l[h] - 1 ELSE l[h]]

DupKV_Kept(r, M) == NoSlots    \* faulty: the duplicate's slots are not freed
DupKV(r, M) == Restrict(kv[r], {EntryKind} \X (M \ NewlyOwned(r, M)))
DupMb(r, M) == Restrict(mb[r], {"seg"} \X (M \ NewlyOwned(r, M)))

\* private slots freed when the request ends, with its decode tokens
EndFreed(r) ==
  IF Rope THEN Pos(r)
          ELSE {i \in Miss(r) : IsQuery(r, i) \/ (i < Len(prompt[r]) /\ IsShort(r, i))}
EndKV_NoDecode(r) == Restrict(kv[r], {"priv"} \X EndFreed(r))    \* faulty: decode tokens stay
EndKV(r) == Restrict(kv[r], ({"priv"} \X EndFreed(r)) \cup Decs(r))
EndMb(r) == Restrict(mb[r], {PoolTag} \cup ({"seg"} \X {i \in Pos(r) : IsQuery(r, i)}))
\* faulty: only the registered slots leave the counter
EndInflKV_Entries(r, M) ==
  IF Transition THEN Cardinality(M) ELSE Cardinality(Miss(r))
\* what leaves the inflight counters at the end, M having been registered just before
EndInflKV(r, M) ==
  IF Transition THEN Cardinality(M) + Cardinality(EndFreed(r)) ELSE Cardinality(Miss(r))
EndInflMb(r, M) ==
  IF Transition THEN Cardinality(M) + (IF Multi(r) THEN 1 ELSE 0)
                ELSE Cardinality(DOMAIN mb[r] \ {PoolTag})

\* r is out of every outstanding batch: later results for it are skipped
Drop(r) == [i \in DOMAIN launched |-> launched[i] \ {r}]

\* request fields once its slots are given back
Cleared(r, ph, p) ==
  /\ phase' = [phase EXCEPT ![r] = ph]
  /\ prompt' = [prompt EXCEPT ![r] = p]
  /\ hit' = [hit EXCEPT ![r] = {}]
  /\ kv' = [kv EXCEPT ![r] = NoSlots]
  /\ mb' = [mb EXCEPT ![r] = NoSlots]

----------------------------------------------------------------------------
(* Processing results *)

\* a prefill result that does not end its request: cache_unfinished_req
PrefillContinue(r) ==
  LET M == Cacheable(r)
  IN /\ loop = "results" /\ r \in Head(launched) /\ phase[r] = "running"
     /\ Outputs(r) < MaxDecode
     /\ entry' = Registered(r, M)
     /\ lock' = LockNew(r, M)
     /\ older' = Accessed(prompt[r], M, Cached(entry'))
     /\ kvFree' = Give(kvFree, DupKV(r, M))
     /\ mbFree' = Give(mbFree, DupMb(r, M))
     /\ inflKV' = IF Transition THEN Sub(inflKV, Cardinality(M)) ELSE inflKV
     /\ inflMb' = IF Transition THEN Sub(inflMb, Cardinality(M)) ELSE inflMb
     /\ live' = [live EXCEPT ![r] = @ \cup Segs(r, M)]
     /\ phase' = [phase EXCEPT ![r] = "decoding"]
     /\ launched' = [launched EXCEPT ![1] = @ \ {r}]
     /\ UNCHANGED <<prompt, hit, kv, mb, loop>>

DecodeContinue(r) ==
  /\ loop = "results" /\ r \in Head(launched) /\ phase[r] = "decoding"
  /\ Outputs(r) < MaxDecode
  /\ launched' = [launched EXCEPT ![1] = @ \ {r}]
  /\ UNCHANGED <<cacheVars, poolVars, reqVars, loop>>

\* a result that ends its request, by length, stop token or abort:
\* release_kv_cache, that is cache_finished_req, which registers once more
Finish(r) ==
  LET M == Cacheable(r)
  IN /\ loop = "results" /\ r \in Head(launched)
     /\ entry' = Registered(r, M)
     /\ lock' = Dec(LockNew(r, M), live[r] \cup Segs(r, M))
     /\ older' = Accessed(prompt[r], M, Cached(entry'))
     /\ kvFree' = Give(Give(kvFree, DupKV(r, M)), EndKV(r))
     /\ mbFree' = Give(Give(mbFree, DupMb(r, M)), EndMb(r))
     /\ inflKV' = Sub(inflKV, EndInflKV(r, M))
     /\ inflMb' = Sub(inflMb, EndInflMb(r, M))
     /\ live' = [live EXCEPT ![r] = {}]
     /\ Cleared(r, "idle", NoPrompt)
     /\ launched' = Drop(r)
     /\ UNCHANGED loop

EndBatch ==
  /\ loop = "results" /\ Head(launched) = {}
  /\ launched' = Tail(launched)
  /\ loop' = "form"
  /\ UNCHANGED <<cacheVars, poolVars, reqVars>>

----------------------------------------------------------------------------
(* Decode: update_running_batch *)

DecodeTurn == loop = "retract" \/ (loop \in {"form", "full"} /\ Admitted = {})
\* check_decode_mem after its eviction
DecodeFits == Avail(kvFree) + Cardinality(Unlocked(entry, lock)) >= Cardinality(Batch)
DecTag(r) == <<"dec", Cardinality(Decs(r)) + 1>>

DecodeStep ==
  LET n == Cardinality(Batch)
      V == IF Avail(kvFree) < n THEN Oldest(Unlocked(entry, lock), n) ELSE {}
      bag == Give(kvFree, KVOf(V))
  IN /\ DecodeTurn /\ Batch # {} /\ DecodeFits
     /\ \E f \in Alloc(bag, {<<r, DecTag(r)>> : r \in Batch}) :
          /\ kvFree' = Take(bag, f)
          /\ kv' = [r \in Req |->
                      IF r \in Batch
                        THEN [t \in DOMAIN kv[r] \cup {DecTag(r)} |->
                                IF t = DecTag(r) THEN f[<<r, t>>] ELSE kv[r][t]]
                        ELSE kv[r]]
     /\ mbFree' = Give(mbFree, MbOf(V))
     /\ entry' = Without(entry, V)
     /\ older' = older \cap (Cached(entry') \X Cached(entry'))
     /\ live' = [r \in Req |-> live[r] \ V]
     /\ launched' = Append(launched, Batch)
     /\ loop' = AfterLaunch(launched')
     /\ UNCHANGED <<lock, inflKV, inflMb, phase, prompt, hit, mb>>

\* faulty: a request that is left alone stays
FirstToRetract_NotLast(r) ==
  /\ Batch # {r}
  /\ \A q \in Batch : \/ Outputs(r) < Outputs(q)
                      \/ Outputs(r) = Outputs(q) /\ Len(prompt[r]) >= Len(prompt[q])

\* retract_decode picks the request with the fewest outputs, then the longest prompt
FirstToRetract(r) ==
  \A q \in Batch : \/ Outputs(r) < Outputs(q)
                   \/ Outputs(r) = Outputs(q) /\ Len(prompt[r]) >= Len(prompt[q])

\* one round of retract_decode: the check has evicted all it could; release r
\* without inserting, evict again for the others; the last request is aborted
Retract(r) ==
  LET V0 == Unlocked(entry, lock)
      locks == Dec(lock, live[r] \ V0)
      n == (Cardinality(Batch) - 1) * RetractSteps
      bag == Give(Give(kvFree, KVOf(V0)), EndKV(r))
      V1 == IF Avail(bag) < n THEN Oldest(Unlocked(Without(entry, V0), locks), n) ELSE {}
      V == V0 \cup V1
  IN /\ DecodeTurn /\ r \in Batch /\ ~DecodeFits /\ FirstToRetract(r)
     /\ entry' = Without(entry, V)
     /\ lock' = locks
     /\ older' = older \cap (Cached(entry') \X Cached(entry'))
     /\ kvFree' = Give(bag, KVOf(V1))
     /\ mbFree' = Give(Give(mbFree, EndMb(r)), MbOf(V))
     /\ inflKV' = Sub(inflKV, EndInflKV(r, {}))
     /\ inflMb' = Sub(inflMb, EndInflMb(r, {}))
     /\ live' = [q \in Req |-> IF q = r THEN {} ELSE live[q] \ V]
     /\ launched' = Drop(r)
     /\ \/ /\ Batch # {r}
           /\ Cleared(r, "waiting", prompt[r])
           /\ loop' = "retract"
        \/ /\ Batch = {r}
           /\ Cleared(r, "idle", NoPrompt)
           /\ loop' = IF launched = <<>> THEN "form" ELSE "results"

\* flush_cache: accepted only when nothing is queued or running
Flush ==
  /\ loop # "down" /\ launched = <<>> /\ \A r \in Req : phase[r] = "idle"
  /\ entry' = [h \in Seg |-> None] /\ lock' = [h \in Seg |-> 0] /\ older' = {}
  /\ kvFree' = [s \in KV |-> 1] /\ mbFree' = [s \in Mamba |-> 1]
  /\ inflKV' = 0 /\ inflMb' = 0
  /\ UNCHANGED <<reqVars, loopVars>>

----------------------------------------------------------------------------
LoopStep ==
  \/ Launch \/ LaunchFails \/ NoBatch \/ EndBatch \/ DecodeStep
  \/ \E r \in Req : \/ Admit(r) \/ Reject(r) \/ PrefillContinue(r)
                    \/ DecodeContinue(r) \/ Finish(r) \/ Retract(r)
Next ==
  \/ LoopStep
  \/ \E r \in Req, p \in Prompts : Arrive(r, p)
  \/ \E r \in Req : AbortWaiting(r)
  \/ Flush

Spec == Init /\ [][Next]_vars
FairSpec == Spec /\ WF_vars(LoopStep)

----------------------------------------------------------------------------
(* Properties *)

Tags == {"priv", "pub", "dec", "seg", "pool"} \X Nat

\* Every variable stays within its type; no free-list count or lock_ref is negative.
TypeOK ==
  /\ entry \in [Seg -> [kv : KV, mb : Mamba] \cup {None}]
  /\ lock \in [Seg -> Nat]
  /\ older \subseteq Seg \X Seg
  /\ kvFree \in [KV -> Nat] /\ mbFree \in [Mamba -> Nat]
  /\ inflKV \in Nat /\ inflMb \in Nat
  /\ phase \in [Req -> {"idle", "waiting", "admitted", "running", "decoding"}]
  /\ prompt \in [Req -> Prompts \cup {NoPrompt}]
  /\ hit \in [Req -> SUBSET Nat] /\ live \in [Req -> SUBSET Seg]
  /\ DOMAIN kv = Req /\ DOMAIN mb = Req
  /\ \A r \in Req : /\ kv[r] \in [DOMAIN kv[r] -> KV] /\ DOMAIN kv[r] \subseteq Tags
                    /\ mb[r] \in [DOMAIN mb[r] -> Mamba] /\ DOMAIN mb[r] \subseteq Tags
  /\ loop \in {"form", "full", "retract", "results", "down"}
  /\ launched \in Seq(SUBSET Req)

\* Every lock_ref is accounted for by a request that will release it: an entry
\* is never pinned more often than there are requests holding a reference to it
\* (cache_finished_req's dec_lock_ref runs once per request), and an entry that
\* is pinned exists.
NoLockLeak ==
  \A h \in Seg : /\ lock[h] <= Cardinality({r \in Req : h \in live[r]})
                 /\ lock[h] > 0 => entry[h] # None

\* No KV or mamba slot is lost: each is on its free list, in a cache entry, or
\* recorded on a request that is still in the engine.
NoSlotLost ==
  /\ \A s \in KV : \/ kvFree[s] > 0
                   \/ \E h \in Cached(entry) : entry[h].kv = s
                   \/ \E r \in Req : Occ(kv[r], s) > 0
  /\ \A s \in Mamba : \/ mbFree[s] > 0
                      \/ \E h \in Cached(entry) : entry[h].mb = s
                      \/ \E r \in Req : Occ(mb[r], s) > 0

\* the slots recorded on requests, as pairs of a request and a tag, and those that are s
Taken(slots) == UNION {{r} \X DOMAIN slots[r] : r \in Req}
Takers(slots, s) == {x \in Taken(slots) : slots[x[1]][x[2]] = s}
Uses(s) == kvFree[s] + Cardinality({h \in Cached(entry) : entry[h].kv = s})
             + Cardinality(Takers(kv, s))
MbUses(s) == mbFree[s] + Cardinality({h \in Cached(entry) : entry[h].mb = s})
               + Cardinality(Takers(mb, s))

\* When every request ends with its prefill, each slot has exactly one user:
\* the free list, one entry or one request. No slot is freed while an entry or
\* a request still has it, and none is freed twice.
SlotsExclusive == (\A s \in KV : Uses(s) = 1) /\ (\A s \in Mamba : MbUses(s) = 1)

\* _check_pic_memory's balance: the free slots, the slots of entries and the
\* inflight counter add up to the pool (plus the per-request state for mamba).
MemoryBalance ==
  /\ Avail(kvFree) + Cardinality(Cached(entry)) + inflKV = Cardinality(KV)
  /\ Avail(mbFree) + Cardinality(Cached(entry)) + inflMb
       + Cardinality({r \in Req : PoolTag \in DOMAIN mb[r]}) = Cardinality(Mamba)

Idle == launched = <<>> /\ \A r \in Req : phase[r] = "idle"

\* The same balance on an idle engine, whatever the workload: used slots are
\* those of entries (_check_pic_memory: "used = entries(protected + evictable) + inflight").
IdleBalance == Idle /\ loop # "down" => MemoryBalance

\* On an idle engine nothing is inflight any more: every allocated slot has
\* become an entry's or was freed (_check_pic_memory, "Slot lifecycle").
IdleNothingInflight == Idle => inflKV = 0 /\ inflMb = 0

\* The cached segments a request was admitted with stay in the cache until the
\* request is done with them: nothing evicts an entry between match_prefix and
\* the end of the request that hit it. (With batches in flight or decoding the
\* lock can be lost, see ProtectedUntilFinish.)
HitsStayCached ==
  \A r \in Admitted \cup Batch : Segs(r, hit[r]) \subseteq live[r]

\* "protect newly inserted entry until req finishes" (picache.py, cache_unfinished_req):
\* the entries a request of a transition mode refers to stay locked.
ProtectedUntilFinish ==
  Transition => \A r \in Batch, h \in Seg : h \in live[r] => lock[h] > 0

\* The prefill batch that admission accepted can be allocated: the scheduler
\* does not go down in pic_alloc_for_extend.
AdmittedBatchFits == loop # "down"

\* update_running_batch and retract_decode: when the next decode step does not fit,
\* requests are sent back until it does, and the last one is aborted. A request of
\* the running batch does not stay in it for want of slots that only it has.
BatchProgresses == \A r \in Req : r \in Batch ~> (r \notin Batch \/ loop = "down")

\* A request that was admitted leaves the engine (or the engine has gone down).
AdmittedFinishes ==
  \A r \in Req : phase[r] = "admitted" ~> (phase[r] = "idle" \/ loop = "down")
=============================================================================
