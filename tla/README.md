# Position-independent caching: specification and proofs

HYPIC is a serving engine with *position-independent caching* (PIC): a prompt is
split into segments, the KV cache and the recurrent (mamba) state of each segment
are cached under its content, and a later prompt that contains the segment, at any
position, reuses them. This directory specifies that machinery in TLA+, checks it
with TLC on small instances, and proves part of it with TLAPS.

With several prefill engines the segments of one prompt are *scattered*: the router
sends each segment to an engine as a request of its own (sub-request) and the whole
prompt to one engine (combine request), which gets the computed segments from the
others by remote writes and runs when all of them are in its cache.

Paths below are relative to `src/`; `srt/` stands for `python/sglang/srt/`.

## 1. Inventory

| Part | Code | State | Operations | Interacts with |
|---|---|---|---|---|
| Segment cache | `srt/pic/picache.py` | `_entries` (slots, `lock_ref`, access time), inflight counters | `match_prefix`, `cache_unfinished_req`, `cache_finished_req`, `evict`, `inc_lock_ref`, `dec_lock_ref`, `inject_received_segment`, `reset` | pools, scheduler, scatter transfer |
| Allocation | `srt/pic/pic_alloc.py` | slots recorded on the request | `pic_alloc_for_extend` (two paths), `_alloc_one_mamba` | pools, segment cache (evicts) |
| Pools | `srt/mem_cache/allocator/{token,mamba}.py` | free lists | `alloc`, `free`, `clear` | everyone |
| Scheduler | `srt/managers/scheduler.py`, `schedule_policy.py`, `schedule_batch.py`, result processor | queues, running batch, results outstanding | admission, launch, results, decode, retraction, abort, flush | segment cache, pools |
| Scatter transfer | `srt/pic/scatter_xfer.py`, `srt/disaggregation/prefill.py` | pending destinations, handles, pushes, writes in flight, parked combine requests | `prealloc_and_push_handles`, `maybe_push_after_prefill`, `try_push_pending`, `drain_writes`, `drain_injects`, timeouts | other engines, segment cache |
| Router | `sgl-model-gateway/src/policies/pic.rs`, `routers/http/pd_router.rs` | directory, cursor, loads, permits | `assign_with_directory`, `scatter_prefill`, rebuild | engines |
| Segmenter, conv tails, completion reshaping | `srt/pic/segmenter.py`, `conv_tails.py`, `routers/http/pic_completion.rs` | none | pure functions | engine, router |

There are four modes. *addition* and *transition* keep one set of KV slots for a
segment; the rope modes (*transition_rope*, *transition_rope_recompute*) keep a
public copy at position 0, which the cache owns, and a private copy at the real
position, which the request owns. The transition modes lock an entry when they
insert it.

What makes it hard: slots change owner (pool, inflight, entry, request) in
different functions for each mode; registration runs twice for a request that
decodes; two requests may compute the same segment at the same time; the overlap
scheduler launches a batch before the results of the previous one are known, so
finished requests are decoded once more and unfinished prefills can be retracted.
Between engines nothing is synchronised: a reservation, the handle that names it, the
write into it and its notification are steps of different machines with a deadline
each, and locks are anonymous counts that any holder may release. In the router a
handler can be dropped at every await, and the directory is rebuilt while requests
record in it. `PROJECT.json` lists these hazards at the lines where they bite.

## 2. Modules

| Module | What it is |
|---|---|
| `PICache` | the segment cache of one engine, its pools, and the life of requests through the scheduler loop; its properties |
| `Scatter` | several prefill engines, their loops, sub-requests, combine requests and the transfers between them; its properties |
| `Router` | the gateway's scatter path, its permits, its directory and the rebuild, and what it sees of the engines; its properties |
| `Admission` | what an admission gate promises; `Router` is shown to implement it |
| `Assignment`, `AssignmentCalls` | both assignment policies as operators; sequences of calls and rebuilds over them |
| `Segments` | the two ways in which router and engine split a prompt, and what follows where they differ |
| `MCPICache`, `MCScatter`, `MCRouter`, `MCAssignment`, `MCSegments` | instances for TLC |
| `PICacheProofs` | the inductive invariant of `PICache`, its steps one by one, and the theorems about types, locks and hits |
| `PICacheSlots` | every slot of `PICache` has one user; the inflight counters and the memory check |
| `ScatterTypes` | types, and what handles say of reservations |
| `ScatterProofs` | the slot a transfer writes stays reserved; no slot is lost |
| `ScatterPins` | which steps leave a segment alone; the holds of a combine request: its segments stay cached and locked |
| `ScatterSlots` | what a transfer reads is pinned; slots have one owner |
| `ScatterLocks` | every lock has one holder |
| `RouterProofs` | permits and the cap; the refinement of `Admission`; where sub-requests go; a step of the LPT pass |

### How `PICache` corresponds to the code

State. `entry`, `lock` and `older` are `PICache._entries` (slots, `lock_ref`, and
the order of access times). `kvFree` and `mbFree` are the free lists as bags: a
slot that is freed twice is there twice. `inflKV`, `inflMb` are the inflight
counters. For each request, `hit` is `pic_hit_segments`, `live` the recorded
entries (`pic_segment_entries`) that are still in the index, and `kv`, `mb` the
slots recorded on it, under a tag: `priv` and `pub` for private and public KV
slots of a segment position, `seg` for its mamba state, `pool` for the state of
the request itself, `dec` for decode tokens. `launched` is the queue of batches
whose results are not processed, `loop` the place in the scheduler loop.

| Action | Code |
|---|---|
| `Arrive`, `AbortWaiting` | `_add_request_to_queue`, `abort_request` on the waiting queue |
| `Admit`, `Reject` | `init_next_round_input` (match) and `add_one_req` (budget, lock) |
| `Launch`, `LaunchFails` | `prepare_for_extend`, that is `pic_alloc_for_extend` with its evictions |
| `PrefillContinue` | a prefill result of a request that goes on: `cache_unfinished_req` |
| `DecodeContinue` | a decode result of a request that goes on |
| `Finish` | a result that ends its request: `release_kv_cache`, that is `cache_finished_req`, which calls `cache_unfinished_req` again |
| `EndBatch`, `NoBatch` | the event loops |
| `DecodeStep`, `Retract` | `update_running_batch`, `retract_decode`, `release_req` |
| `Flush` | `flush_cache`, refused unless the engine is idle |

`Finish` is always enabled for a request in the batch whose result is processed:
stop tokens and aborts of running requests may end it at any step, and its length
limit does at the latest (`MaxDecode`).

Abstractions. A segment is its content. The KV slots of a segment travel together
and are one slot, as if each segment had one token. Decode tokens are one slot
each. Frees inside a group take effect at once: nothing is allocated until the
group ends. After `NO_TOKEN` the engine does not try to admit until a request
leaves; the model may try again in the next round, which allows more behaviours.
The budget reserved for running requests is taken as 0, the smallest value of
`new_token_ratio`.

### How `Scatter` corresponds to the code

Every engine is one thread (`event_loop_normal_disagg_prefill`); `at[e]` is the phase
of its loop: receive requests and handles, `try_push_pending`, `drain_writes`,
`drain_injects` and the parked requests, retire hits, bootstrap queue, batch, idle,
results, inflight queue. A phase with nothing to do is passed over. A key
`<<c, i>>` is segment `i` of combine request `c`, that is `(room, seg_index)`.

| State | Code |
|---|---|
| `entry`, `lock`, `free` | `_entries` with `lock_ref`, and the pools, of each engine |
| `sub`, `comb` | where each sub-request and combine request is |
| `slots`, `live` | what a request in a forward has allocated, and the entries it holds |
| `dst`, `to`, `handle` | `_pic_scatter_pending`, and the handle posted to the worker |
| `push`, `infl` | `_pic_push_pending`, `_pic_write_inflight` |
| `wire`, `src` | the KV and the state transfer of a key, and the slot they read |
| `late`, `peer`, `told` | deadlines that have passed, the decode engine, answers to clients |

| Action | Code |
|---|---|
| `RecvSub`, `RecvHandle`, `RecvCombine` | `process_input_requests` |
| `Prealloc`, `Gate` | `prealloc_and_push_handles`, then parked or queued |
| `PushPending`, `Reap` | `try_push_pending`, `drain_writes`, one item each |
| `Inject`, `Release` | `drain_injects`, `_try_release_combines`, one item each |
| `HitRetire`, `SubResult` | `maybe_push_after_prefill` and `pic_scatter_retire`, for a hit and after a forward |
| `Bootstrapped`, `Launch`, `CombineResult`, `SendDone` | the way of a combine request to the decode engine |
| `Flush`, `ClientAbort` | `flush_cache`, `abort_request` |
| `Land`, `Deadline`, `Peer`, `LoseSub` | the network, the clocks, the decode engine (external) |

`Faults` names what may go wrong in a run: sub-requests and handles that are lost,
deadlines of combine requests, pushes and writes, writes that raise or fail, failing
handshakes, client aborts, a flush, and a loop that is never idle.

Abstractions. The KV slots and the state of a segment are one slot. Which unlocked
entries are evicted is left open, and so is their number: `evict_from_tree_cache` asks
for all that is needed and not for what is missing, so up to that many go. The batch of
an engine is processed before the next one is launched. Which of several equal slots is
given out does not matter and is not enumerated. A batch that does not fit waits
(`Batches`), which is what admission does for KV slots; that states are not counted
there, so that a launch can raise and end the engine, is in `PICache` (`LaunchFails`)
and left out here.

### How `Router`, `Admission` and `Assignment` correspond to the code

`scatter_prefill` awaits twice: for the combine worker's permit and for the answer of
the combine request. `Arrive` is the part before the first, `Acquire` (or `NoWorkers`)
the part between them (assign, record, fire the sub-requests, dispatch), `Return` and
`TimeOut` the ends. The dispatch of a streaming request (`Streams`) returns with the
response headers, at any time after the engine has it (`Responded`), and the permit goes
back there; what is still to come is forwarded by a task of its own. The request timeout
of the HTTP client ends a dispatch whether the engine has dropped the request or is still
at work on it (the fault `late`). `Disconnect` drops the handler at either await. `RebuildStart`,
`RebuildPoll` and `RebuildSwap` are the rebuild task with an await per worker;
`Register` is the registry. `Land`, `Warm`, `Lose`, `EngineEnds` and `Evict` are what
the router sees of the engines (external). A failing poll is an outcome of
`RebuildPoll`, a silent drop one of `EngineEnds`.

`Admission` has one line and one set of admitted clients per worker; its steps are
enter, turn, quit and leave. `Router` implements it with `line` as the semaphore's
queue and `open` as the dispatched requests (`Gate`, `GateImplemented`).

`Assignment` defines `assign_with_directory`: directory first, then round robin by
the cursor or, for `pic_lpt`, the longest miss to the least loaded worker.
`AssignmentCalls` makes any sequence of such calls and of rebuilds.

### How `Segments` corresponds to the code

A prompt is the sequence of its parts between separators. `RouterSegments` drops
white space (`scatter_prefill`), `EngineSegments` drops what has no tokens
(`split_and_tokenize`). `Dispatch`, `Arrive`, `Write` and `Release` follow a prompt
through scatter, reservation by position, arrival and gate. A segment's hash is
taken as injective.

## 3. Runs

| Run | Instance | Question | Result |
|---|---|---|---|
| `one_shot` | rope, 1 batch, no decode, 5 prompts, 8+7 slots; 103,025 states | `TypeOK`, `SlotsExclusive`, `MemoryBalance`, `HitsStayCached`, `IdleNothingInflight` | hold |
| `overlap` | transition, 2 batches, no decode beyond the one launched too early, a segment below the minimum, fair loop | `SlotsExclusive`, `IdleNothingInflight`, `AdmittedFinishes` | hold |
| `decode` | rope, 2 batches, 2 decode steps, tight pools: retraction and abort of the last request happen, fair loop; 11,328 states | `NoLockLeak`, `BatchProgresses` | hold |
| `balance_after_decode` | rope, decode | `IdleBalance` | violated |
| `scatter_mutual` | two engines with two slots, each combines one prompt and computes the other's segment, nothing fails, fair | `TargetReserved`, `SourcePinned`, `SendingPinned`, `AllRun` | hold |
| `scatter_faults` | two prompts on one engine with two slots; handles are lost, combine requests and pushes are late; 336,013 states | `TypeOK`, `SlotsExclusive`, `LocksAccounted`, `ReadyStays` | hold |
| `scatter_duplicate` | two prompts with one common segment, two slots on each engine; sub-requests are lost, combine requests late; 155,479 states | `SlotsKept`, `SlotsExclusive` | hold |
| `scatter_leave` | one prompt, one segment remote and one local, every fault but constant load, fair; 38,329 states | `SlotsKept`, `AllLeave` | hold |
| `router_gate` | two requests, two workers, one permit each, one request streams; disconnects, silent and late engines, a registry that changes, failing polls; 681,880 states | `PermitsKept`, `TypeOK`, `PostedRegistered`, `GateImplemented` | hold |
| `router_serve` | two requests, one of them streams, two workers that stay and answer polls; disconnects, silent and late engines, lost sub-requests, evictions, fair; 122,646 states | `WaitingServed`, `PromiseAges`, `DirectorySettles` | hold |
| `assign_lpt` | prompts of up to 3 of 4 segments, two with one hash, 3 workers | `LoadsBalanced`, `LoadsOrderFree`, `HoldersKept` | hold |
| `segments_agree` | prompts of 2 to 5 parts, empty ones included, no white space | `CacheTruthful`, `GateOpens` | hold |

What they show:

* **Slots of one engine.** As long as requests end with their prefill (one batch or
  two in flight), slots have one owner and the memory check balances, duplicates,
  evictions and aborts included. With decode they do not: a request is registered at
  the end of its prefill and again when it finishes; the second time its segments are
  found, and what is freed as a duplicate is what the entry itself holds
  (`balance_after_decode`).
* **Locks of one engine.** There is never a lock too many. There can be one too few:
  a request that finds its segment registered takes no lock and releases one.
  `HitsStayCached` is therefore asked in `one_shot` only, where a batch is registered
  before the next one is matched.
* **Decode under pressure.** When the next decode step does not fit, requests are sent
  back until it does and the last one is aborted: nobody stays in the running batch
  (`BatchProgresses`). A request that was sent back waits in the queue with the new
  ones; that it is admitted again some time is not claimed.
* **Transfers.** Without deadlines and with one sub-request per segment, what a
  transfer reads is pinned and what it writes is reserved, however the phases of the
  two engines fall, and two engines that need each other's segments never wait for
  each other for ever.
* **Errors.** Lost and late messages leave no lock behind, and a combine request that
  passed the gate keeps its segments although the other prompt needs their slots
  (`scatter_faults`); no error path loses a slot, and a combine request leaves the
  engine under every fault but constant load (`scatter_leave`).
* **Router.** Permits are conserved on every way out of a handler. Those in line are
  served in order. That permits bound what an engine holds is another matter: they do
  only when no request streams, none times out on a working engine and no client goes
  away (section 4, `RouterStream.cfg`). A promise of the directory that never came true is gone after a
  rebuild; one that came true settles at a holder that reports it.
* **Assignment.** Over any sequence of calls and halvings the loads of two workers
  differ by at most one longest segment.

### Bounds

`PICache`: two requests are enough for every interaction the code has between
requests: one inserts and one finds, one holds a lock and one evicts, one decodes and
one is retracted. Prompts have at most three segments and a query. The pools are just
large enough for one request and too small for two with a full cache, so that
eviction happens, and in `decode` too small for two decoding requests, and at times
for one. Slots that are
freed twice would multiply on the free lists without end; the runs with decode stop
(`FewCopies`) where a slot is there more than `MaxCopies` = 2 times. `overlap` does
not check deadlock: the engine may go down (`LaunchFails`), after which nothing
happens. TLC gives slots out lowest first (`LowestFirst`); slots are
interchangeable, and the proofs hold for every `Pick`.

`Scatter`: two engines make every pair of roles; two combine requests compete for one
engine or cross; pools of two slots force evictions between a segment's arrival and its
use (`scatter_leave` has three: its question is how requests end, and nothing is evicted). `ScatterCross.cfg` is a larger instance of `scatter_mutual`'s
safety properties (two prompts of two segments each, three slots), and
`PICacheAddition.cfg` one of the *addition* mode with a segment twice in a prompt and
two decode steps (`NoLockLeak`, `NoSlotLost`); both pass.

`Router`: one permit and two requests make a line; two workers let one leave while
the directory names it. The loads of the router are not bounded, requests are.
`AssignmentCalls` takes no request at a load above `MaxLoad`, which is more than the
longest segment. `Segments` has `MaxParts` = 5 parts, room for two empty ones between
two segments and a query; it does not check deadlock, a released prompt is the end.

### Fairness

* `PICache!FairSpec`: weak fairness of the scheduler loop as a whole; the loop is a
  single thread that always takes its next step. None is assumed of clients.
* `Scatter!FairSpec`: each engine's loop (again one thread each), posted transfers,
  the deadline of combine requests (a monotonic clock) and the answer of the decode
  engine. Losses, aborts and the other deadlines are never forced.
* `Router!FairSpec`: the handlers that can go on (the async runtime polls them), the
  rebuild (an interval timer and polls with a timeout), the end of a dispatched
  request (headers, answer or the client's request timeout, which may pass while the
  engine works but is forced only when no answer will come), an engine that ends a request in
  one way or the other, and the arrival of a sub-request that is not lost.
* `Segments!FairSpec`: the next step of the one prompt it follows.

## 4. Theorems

| Theorem | States | Assumes |
|---|---|---|
| `PICacheProofs!TypeCorrect` | `Spec => []TypeOK` | |
| `PICacheProofs!LockSafety` | `Spec => []NoLockLeak` | |
| `PICacheProofs!HitsAlwaysCached` | `Spec => []HitsStayCached` | one batch in flight, requests end with their prefill |
| `PICacheSlots!OneUserPerSlot` | `Spec => []SlotsExclusive` | the same, and `ShortReleased` |
| `PICacheSlots!NothingInflight` | `Spec => []IdleNothingInflight` | the same |
| `PICacheSlots!BalanceAlways` | `Spec => []MemoryBalance` | the same |
| `ScatterTypes!ScatterTyped` | `Spec => []TypeOK` | |
| `ScatterProofs!TargetStaysReserved` | `Spec => []TargetReserved` | no combine request times out |
| `ScatterProofs!ScatterSlotsKept` | `Spec => []SlotsKept` | no rope, no short segment scattered |
| `ScatterPins!ScatterReadyStays` | `Spec => []ReadyStays` | `Apart`, `ProtectedLocal` |
| `ScatterPins!ScatterSendingPinned` | `Spec => []SendingPinned` | `Apart`, `ProtectedLocal`, no short segment scattered |
| `ScatterSlots!ScatterSourcePinned` | `Spec => []SourcePinned` | `Apart`, a transition mode, no write fails or is given up, no flush |
| `ScatterSlots!ScatterSlotsExclusive` | `Spec => []SlotsExclusive` | `Apart`, `ProtectedLocal`, no flush |
| `ScatterLocks!ScatterLocksAccounted` | `Spec => []LocksAccounted` | `Apart`, a transition mode, `HoldsEnd`, no short segment scattered |
| `RouterProofs!PermitsAlwaysKept` | `Spec => []PermitsKept` | |
| `RouterProofs!EngineStaysCapped` | `Spec => []EngineCapped` | `HandlersOutlast` |
| `RouterProofs!RouterImplementsGate` | `Spec => GateImplemented` | |
| `RouterProofs!PostedToRegistered` | `Spec => PostedRegistered` | |
| `RouterProofs!LeastKeepsBalance` | a step of the LPT pass (`TakeLeast`) keeps all loads within `d` of each other | its segment has at most `d` bytes |

They hold for all sets of segments, requests, engines and workers, all pools, prompts,
modes, permits and, where the last column does not exclude one, faults.

The assumptions of the last column. `ShortReleased`: a rope mode has no segment below
`pic_segment_min_tokens`, and no prompt is such a segment alone; `Apart`: no two scattered positions with the same
segment have an engine in common; `ProtectedLocal`: a transition mode, or no segment is
computed where it is combined; `HoldsEnd`: no write raises, no handshake fails, no
client aborts, no flush, and combine requests time out only if all their segments come
from elsewhere; `HandlersOutlast`: no request streams, no request timeout passes on an
engine that still works, no client disconnects. They are the conditions under which the code is right, and section 6
has the counterexamples: a timeout (`ScatterTarget.cfg`), rope and short segments
(`ScatterRope.cfg`, `ScatterShort.cfg`, and for `ShortReleased` `PICacheShortRope.cfg`
and `PICacheShortSingle.cfg`), shared segments, whose anonymous locks one
request drops for another (`ScatterShared.cfg`, `ScatterPresent.cfg`,
`ScatterStale.cfg`), a mode without protect locks (`ScatterAddition.cfg`), a write that
raises or is given up (`ScatterPin.cfg`, `ScatterSource.cfg`), a failing handshake
(`ScatterPeer.cfg`), a flush (`ScatterFlush.cfg`) and a streaming
request (`RouterStream.cfg`; a late answer or a disconnect has the same effect). With two batches in flight or decode the lost protection of
`PICacheProtect.cfg` reaches hits; with decode slots are freed that entries have
(`balance_after_decode`), and with two batches in flight a request can be retracted
before its prefill result (`PICacheRetract.cfg`). `SlotsExclusive` of `Scatter` needs
`Apart` as well: after the entry is evicted under a combine request (`ScatterStale.cfg`)
that request computes the segment itself, and its second registration frees the slot of
its own entry. `scatter_duplicate` is an instance without `Apart` in which that does not
happen.
`one_shot`, `scatter_mutual`, `scatter_faults` and `scatter_leave` are instances that satisfy what
the theorems about their properties assume.

**`PICache`.** Neither of the first two is inductive alone. The invariant `IInv` adds
`Shape` (hits are positions of the prompt, allocations are finite, a request that
waits refers to nothing), `Holding` (a request of the running batch has the slots it
was launched with, which registration reads) and `Queue` (outstanding results are of
requests in the running batch, and there is one when the loop processes results).
The lock argument: eviction takes only unlocked entries, so it strands no lock; a
newly inserted entry was absent, hence unlocked, and its single lock has its inserter
as holder; the end of a request removes one holder and one lock, or a lock of an
entry that it found, and never leaves more locks than holders.

**Hits.** `HitInv` adds to `HitsStayCached` that the outstanding batch is the whole
running batch (`OneBatch`), so that nobody is matched while results are processed,
and that an admitted request holds one lock on each of its hits (`AdmittedLocked`,
counted over the requests). Evictions happen between admission and launch only, and
there the counts protect the hits.

**Owners in `PICache`.** `SlotsExclusive` counts the users of a slot: its copies on the
free list, the entries that have it, and the tags under which requests recorded it; the
sum is 1. It is not inductive: `SlotInv` adds that a request has just the slots it needs
from its launch to its end and none before (`Recorded`), and that the inflight counters
count the recorded slots (`Counted`). The long case is the end of a request. Its slots
fall into three parts: those of segments that it registers, those of segments that have
an entry by now (another request of its batch or an earlier position of its own prompt
registered them), and the private, query and short ones. The first go to one new entry
each, the others to the free list once each (`FinishParts`, `FinishOcc`), and the
counters go down by their number (`FinishCount`). From `HitInv` it takes that the whole
running batch ends before the next one is launched, so that nobody decodes.
`BalanceHolds` then counts both sides: if every slot has one user, free slots, entries
and recorded slots add up to the pool.

**Targets.** `TargetInv` follows a reservation through the handle: as long as a handle
is on its way, at the worker or used by a transfer under way, the reservation it names
is still there. Only `Inject`, which waits for both transfers, and a timeout end one.

**Types of `Scatter`.** Not inductive alone either: a forward registers and gives back
the slots it holds, so `TypeInv` adds `Held`, that these are slots of the pool and that
a running sub-request has one for its segment. That a batch gets distinct slots rests
on `Given`, a choice among the injections from the needs of a batch into the pool, of
which there is one because `Batches` counts.

**No slot lost.** `KeptInv` says of each slot of each engine that it is free, in an
entry, reserved or held by a forward (`Kept`), that nothing is reserved for a key
before its handle is made (`Fresh`), and that a running sub-request holds just the slot
of its segment. Every step moves slots between these places. Sharing is allowed: a
duplicate arrival frees the slot it brought.

**Pins.** `PinInv` has `CombInv` (what a combine request has locked or missed are
segments of its prompt), `PhaseInv` (a batch is processed before its loop goes on, and a
combine request that is being received passes the gate before anything else happens on
its engine) and `HomePin`: a segment that has arrived for a combine request has a lock
until the request sends its KV (the arrival hold, or the protect lock of a local
sub-request) and another from its admission to its end, and the segments a request was
let through with are cached. With `Apart` each lock of an entry belongs to one key,
which reduces the steps of every other key to frames (`Foreign`); evictions take
unlocked entries only.

**Sources.** `WorkPin` is the same for the engine that computes a segment: a push that
waits has its hold, and a write under way its pin on the entry it reads.

**Owners.** `Exclusive(e)` separates the slots of free list, entries, reservations and
forwards pairwise; `ExclusiveOwners` turns it into the count that `SlotsExclusive`
makes. A combine request that was let through misses nothing (`PinInv`), so that at its
end it gives back no slot that an entry has.

**Locks.** `KeyLocks(k)` is the exact number of locks on either engine as a sum of its
holders, each 0 or 1 (`One`). `LocksAccounted` counts holders over all requests of an
engine; `Apart` makes all but one of the summands 0.

**Permits and the cap.** `GateInv` has the types of the gate's state, that a request
that waits or is dispatched has a worker, and `PermitsKept`. `HeldInv` adds that an
engine works on a request only while its handler is there, which bounds the engine's
requests by the dispatched ones, and these by the cap. It is kept by a step that ends a
handler only under `HandlersOutlast`, and says nothing of a router that streams.

**Refinement.** `LineInv` says that each line holds exactly the waiting requests of its
worker, each once; lemmas on sequences show that removing a request from the middle,
as a disconnect does, keeps it so and is the abstract `Quit`. Every other step of
`Router` maps to one step of the gate or to none.

**Posted workers.** `PostedRegistered` is an action property. The directory may name a
worker that has left; what makes it hold is the fallback to the first registered worker,
which exists because the handler refuses when there is none (`FirstIsRegistered`). It
needs only that the registry is a set of workers (`PostInv`).

**Loads.** `LeastIsLeast` shows that the choice of `LeastLoaded` exists and is a minimum.
If the loads differ by at most `d`, the least one plus a segment of at most `d` exceeds no
other by more than `d`; halving all loads, as a rebuild does, keeps them as close
(`HalvingKeepsBalance`). That a call, which folds this step over the missing segments,
keeps the bound is an induction over the list; it stays with TLC (`assign_lpt`).

Assumptions on constants: `SegAssumption`, `PolicyAssumption`, `ScatterAssumption`,
`RouterAssumption` (finite sets, `None` is no member, keys are no requests, the modes
that `policy.py` defines, prompts and tables have their types). TLC evaluates them in
the runs.

The proof modules make Zenon the default prover (`USE ZenonT(40)`) and name SMT on the
leaves that need arithmetic or nested updates: SMT first, as is usual, takes several
times as long on modules of this size.

## 5. Only model-checked

* `SlotsExclusive` and `IdleNothingInflight` of `PICache` with two batches in flight
  (`overlap`): requests that have ended are then decoded once more, so that
  a request has slots beyond those of its launch and `Recorded` does not hold.
* `TypeOK` of `Router`, the assignment policy over whole calls (`LoadsBalanced`,
  `LoadsOrderFree`, `HoldersKept`) and the splitting of prompts (`CacheTruthful`): their
  definitions fold over or filter sequences, and what a recursive definition returns
  needs an induction over data.
* Everything temporal: `AdmittedFinishes`, `BatchProgresses`, `AllRun`, `AllLeave`, `WaitingServed`,
  `PromiseAges`, `DirectorySettles`, `GateOpens`. Liveness under fairness is out of the
  prover's reach.

## 6. Where the code departs from what it says

`balance_after_decode` is the run for the most severe case. The following
configurations are kept beside the runs; each asks for the property named, which a
comment of the code states, and TLC finds it violated
(`tlc -config <file> <MC module>`).

| Configuration | Property | What happens |
|---|---|---|
| `PICacheProtect.cfg` | `ProtectedUntilFinish` | a request that finds its segment registered takes no lock (`picache.py:382`) and releases one; "protect newly inserted entry until req finishes" (399) |
| `PICacheAdmit.cfg` | `AdmittedBatchFits` | admission counts a slot per missed token, the rope allocation takes more (`pic_alloc.py:166`), states are not counted |
| `PICacheShortRope.cfg` | `IdleNothingInflight` | the rope modes never free the public slot and the state of a short segment (`picache.py:472`) |
| `PICacheShortSingle.cfg` | `IdleNothingInflight` | nor does any mode for a prompt of one short segment (`picache.py:485`) |
| `PICacheRetract.cfg` | `NoSlotLost` | with overlap a request is retracted before its prefill result: its slots are in no entry and not freed (`schedule_batch.py:2572`) |
| `ScatterTarget.cfg` | `TargetReserved` | a combine request that times out frees destinations that a slow worker still writes (`scatter_xfer.py:249`) |
| `ScatterSource.cfg` | `SourcePinned` | a write past its deadline loses its pin and goes on reading (550); "Pin the source entry for the RDMA read's duration" (482) |
| `ScatterShared.cfg` | `SourcePinned` | two sub-requests of one segment in a batch: the second's retire releases the pin of a write (676) |
| `ScatterPin.cfg` | `LocksAccounted` | a write that raises leaves its pin (489) |
| `ScatterAddition.cfg` | `LocksAccounted` | in *addition* mode a miss has no protect lock, and its retire releases the hold just taken (676) |
| `ScatterPeer.cfg` | `LocksAccounted` | a failed handshake drops a combine request and leaves its holds (`disaggregation/prefill.py:893`) |
| `ScatterPresent.cfg` | `LocksAccounted` | a combine request whose segments were all cached took no hold and drops another's; "harmless" (`scheduler.py:2375`) |
| `ScatterStale.cfg` | `ReadyStays`, with `-continue` also `SlotsExclusive` | of two combine requests that share a segment with one hold, the first drops it and the entry is evicted under the second (285), which then registers the segment twice |
| `ScatterFull.cfg` | `AllRun` | a pool full of held segments leaves no slot for the query of any combine request (94); "always ready to run" (1105) |
| `ScatterLoad.cfg` | `AllLeave` | with nothing pending and a loop that is never idle, nobody looks at a parked request's deadline (350) |
| `ScatterAnswer.cfg` | `AllAnswered` | a parked request that times out is in no queue that `abort_request` searches: no answer (312) |
| `ScatterShort.cfg` | `RetiredCached` | a scattered segment below the minimum is not registered; the combine request waits for it in vain (592) |
| `ScatterRope.cfg` | `SlotsKept` | a retired sub-request takes the private slots of its segment with it (683) |
| `ScatterFlush.cfg` | `SlotsExclusive` | `flush_cache` takes an engine with reservations for idle (`scheduler.py:3669`) |
| `RouterStream.cfg` | `EngineCapped` | the dispatch of a streaming request returns at its headers (`pd_router.rs:812`) and gives the permit back while the engine has the request; "Caps the number of concurrent scatter requests for which a worker is the combine role" (69) |
| `RouterStale.cfg` | `StaleAges` | workers report what they once computed (`tokenizer_manager.py:1223`); "stale holders age out within one interval" (`pd_router.rs:244`) |
| `AssignmentOrder.cfg` | `ResultOrderFree` | segments of one length trade workers with their order; "result is independent of input order" (`pic.rs:68`) |
| `SegmentsIndex.cfg` | `CacheTruthful` | a part of white space shifts the engine's positions: an entry is filled with another segment's state (`pd_router.rs:1459`) |
| `SegmentsGate.cfg` | `GateOpens` | and the engine waits for a segment that was never sent (`scheduler.py:2361`) |

## 7. Not modelled

The decode side of a disaggregated pair and `req_to_token`; the overlap loop of a
prefill engine (`Scatter` has the loop without overlap, `PICache` both); synchronous
writes; the test for locality by port, taken as a comparison of engines; which
segments are billed as cached; ping-pong buffers of the mamba pool; output tokens of
a retracted request, which lie beyond its segments; collisions of the engine's
segment hash; requests that are not scattered, circuit breakers and retries of the
router; chunked prefill, sessions, priorities, speculative decoding. Conv tails and
completion reshaping are index and string conversions of one request without state;
numerical kernels and debugging dumps are outside what a model checker can say
anything about.

What would come next: the decode side with `req_to_token`, under which a duplicate's
slots are freed while its request still decodes over them; ownership of slots in
`PICache` proved with two batches in flight, and in `Scatter` for segments that requests
share.
