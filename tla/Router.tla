------------------------------- MODULE Router -------------------------------
(***************************************************************************)
(* The gateway's scatter path (PDRouter::scatter_prefill), the task that   *)
(* rebuilds its segment directory, and as much of the prefill workers as   *)
(* these two see: what a worker reports, what it has cached, and whether   *)
(* it still works on a combine request.                                    *)
(*                                                                         *)
(* A request chooses its combine worker, waits for one of the worker's     *)
(* permits and then, without another await, assigns and fires its segments *)
(* and dispatches the combine request: these are one step here. The permit *)
(* goes back when the handler ends, on whichever path: with the answer, at *)
(* the response headers of a streaming request, at the HTTP client's       *)
(* timeout or when the client goes away. The engine has a life of its own. *)
(***************************************************************************)
EXTENDS Assignment, FiniteSets

CONSTANTS
  Url,      \* the prefill workers, in the order the registry lists them
  Req,      \* scatter requests
  Prompt,   \* Prompt[r]: the scattered segments of r
  Streams,  \* the requests with body.stream
  Cap,      \* PIC_MAX_COMBINE_INFLIGHT
  Lpt,      \* the policy is pic_lpt
  Faults    \* what may go wrong in a run, a subset of AllFaults

AllFaults == {"lost_sub", "poll_fails", "disconnect", "silent", "late", "evict", "registry"}
Worker == Range(Url)
Sub == UNION {{r} \X DOMAIN Prompt[r] : r \in Req}

ASSUME RouterAssumption ==
  /\ IsFiniteSet(Req) /\ Cap \in Nat \ {0} /\ Lpt \in BOOLEAN /\ Faults \subseteq AllFaults
  /\ Url \in Seq(Worker) /\ None \notin Worker
  /\ Prompt \in [Req -> Seq(Seg)] /\ Streams \subseteq Req /\ Size \in [Seg -> Nat]

VARIABLES
  reg,       \* the registered workers
  route,     \* pic_route_state: dir, cursor, loads
  fresh,     \* the directory being rebuilt
  todo,      \* the workers it has still to ask; None between two rebuilds
  req,       \* new, waiting, open (dispatched) or closed
  combine,   \* the combine worker of a request
  permits,   \* the free permits of each worker's semaphore
  queue,     \* those waiting for one, in order
  sub,       \* each sub-request: none, fired, landed, done or lost
  target,    \* the worker it was posted to
  reported,  \* _pic_cached_text_hashes of each worker
  cached,    \* the segments in each worker's cache, by text_hash
  engine     \* the combine request at its engine: none, here, answered, dropped

stateVars == <<reg, route, fresh, todo>>
gateVars  == <<req, combine, permits, queue>>
subVars   == <<sub, target>>
workVars  == <<reported, cached, engine>>
vars      == <<stateVars, gateVars, subVars, workVars>>

Registered == SelectSeq(Url, LAMBDA w : w \in reg)
Empty == [h \in Keys |-> None]
Open(w) == {r \in Req : combine[r] = w /\ req[r] = "open"}

Init ==
  /\ reg = Worker
  /\ route = [dir |-> Empty, cursor |-> 0, loads |-> [w \in Worker |-> 0]]
  /\ fresh = Empty /\ todo = None
  /\ req = [r \in Req |-> "new"] /\ combine = [r \in Req |-> None]
  /\ permits = [w \in Worker |-> Cap] /\ queue = [w \in Worker |-> <<>>]
  /\ sub = [k \in Sub |-> "none"] /\ target = [k \in Sub |-> None]
  /\ reported = [w \in Worker |-> {}] /\ cached = [w \in Worker |-> {}]
  /\ engine = [r \in Req |-> "none"]

----------------------------------------------------------------------------
(* The handler of a request *)

\* select_pd_pair gives the combine worker; the request waits for its permit
Arrive(r, w) ==
  /\ req[r] = "new" /\ w \in reg
  /\ req' = [req EXCEPT ![r] = "waiting"]
  /\ combine' = [combine EXCEPT ![r] = w]
  /\ queue' = [queue EXCEPT ![w] = Append(@, r)]
  /\ UNCHANGED <<stateVars, permits, subVars, workVars>>

\* no worker can be selected: an error response
Refuse(r) ==
  /\ req[r] = "new" /\ reg = {}
  /\ req' = [req EXCEPT ![r] = "closed"]
  /\ UNCHANGED <<stateVars, combine, permits, queue, subVars, workVars>>

\* the first worker of the registry's list
FirstRegistered ==
  Url[CHOOSE i \in DOMAIN Url : Url[i] \in reg /\ \A j \in 1 .. i - 1 : Url[j] \notin reg]
\* the worker a segment is posted to: the assigned one, or the first of the
\* list when that one is no longer registered
Posted_Assigned(w) == w    \* faulty: no fallback
Posted(w) == IF w \in reg THEN w ELSE FirstRegistered

\* faulty: a free permit is not asked for
HasPermit_Always(w) == TRUE
HasPermit(w) == permits[w] > 0

\* faulty: whoever asks takes the free permit
InTurn_Any(r) == HasPermit(combine[r])
InTurn(r) == HasPermit(combine[r]) /\ Head(queue[combine[r]]) = r

\* the next in line gets a permit, fires its sub-requests and dispatches itself
Acquire(r) ==
  LET w == combine[r]
      n == assign_with_directory(Prompt[r], Registered, route, Lpt)
  IN /\ req[r] = "waiting" /\ InTurn(r) /\ reg # {}
     /\ queue' = [queue EXCEPT ![w] = Tail(@)]
     /\ permits' = [permits EXCEPT ![w] = @ - 1]
     /\ req' = [req EXCEPT ![r] = "open"]
     /\ route' = [dir |-> n.dir, cursor |-> n.cursor, loads |-> n.loads]
     /\ sub' = [k \in Sub |-> IF k[1] = r THEN "fired" ELSE sub[k]]
     /\ target' = [k \in Sub |-> IF k[1] = r THEN Posted(n.out[k[2]]) ELSE target[k]]
     /\ engine' = [engine EXCEPT ![r] = "here"]
     /\ UNCHANGED <<reg, fresh, todo, combine, reported, cached>>

\* the same with no worker left: an error response, and the permit goes back
NoWorkers(r) ==
  LET w == combine[r]
  IN /\ req[r] = "waiting" /\ InTurn(r) /\ reg = {}
     /\ queue' = [queue EXCEPT ![w] = Tail(@)]
     /\ req' = [req EXCEPT ![r] = "closed"]
     /\ UNCHANGED <<stateVars, combine, permits, subVars, workVars>>

\* the handler ends: the permit is dropped
End(r) ==
  /\ req' = [req EXCEPT ![r] = "closed"]
  /\ permits' = [permits EXCEPT ![combine[r]] = @ + 1]

\* the response headers have come: with the answer or, for a streaming request,
\* before the engine generates
Responded(r) == engine[r] = "answered" \/ (r \in Streams /\ engine[r] # "none")

\* the dispatch returns; a task of its own forwards what is still to be streamed
Return(r) ==
  /\ req[r] = "open" /\ Responded(r)
  /\ End(r)
  /\ UNCHANGED <<stateVars, combine, queue, subVars, workVars>>

\* faulty: the dispatch waits without end
TimeOut_Never(r) == FALSE /\ UNCHANGED vars

\* the request timeout of the HTTP client (app_context.rs) ends the dispatch: no
\* answer will come, or the engine is still at work
TimeOut(r) ==
  /\ req[r] = "open"
  /\ engine[r] = "dropped" \/ ("late" \in Faults /\ engine[r] = "here")
  /\ End(r)
  /\ UNCHANGED <<stateVars, combine, queue, subVars, workVars>>

\* a waiter that is dropped is unlinked from the semaphore's line
LeaveLine(r) ==
  \E i \in DOMAIN queue[combine[r]] :
    /\ queue[combine[r]][i] = r
    /\ queue' = [queue EXCEPT ![combine[r]] = RemoveAt(@, i)]

\* faulty: a request that leaves the line gives a permit back
Disconnect_Twice(r) ==
  /\ "disconnect" \in Faults /\ req[r] \in {"waiting", "open"}
  /\ End(r)
  /\ LeaveLine(r)
  /\ UNCHANGED <<stateVars, combine, subVars, workVars>>

\* the client goes away and the handler's future is dropped where it stands, or
\* the decode worker fails: the engine may still hold the combine request
Disconnect(r) ==
  /\ "disconnect" \in Faults
  /\ \/ /\ req[r] = "waiting"
        /\ req' = [req EXCEPT ![r] = "closed"]
        /\ LeaveLine(r)
        /\ UNCHANGED permits
     \/ /\ req[r] = "open"
        /\ End(r)
        /\ UNCHANGED queue
  /\ UNCHANGED <<stateVars, combine, subVars, workVars>>

----------------------------------------------------------------------------
(* The workers, as the router sees them *)

Key(k) == Hash[Prompt[k[1]][k[2]]]

\* the worker's tokenizer records the text_hash of a sub-request
Land(k) ==
  /\ sub[k] = "fired"
  /\ sub' = [sub EXCEPT ![k] = "landed"]
  /\ reported' = [reported EXCEPT ![target[k]] = @ \cup {Key(k)}]
  /\ UNCHANGED <<stateVars, gateVars, target, cached, engine>>

\* its scheduler prefills and caches the segment
Warm(k) ==
  /\ sub[k] = "landed"
  /\ sub' = [sub EXCEPT ![k] = "done"]
  /\ cached' = [cached EXCEPT ![target[k]] = @ \cup {Key(k)}]
  /\ UNCHANGED <<stateVars, gateVars, target, reported, engine>>

Lose(k) ==
  /\ "lost_sub" \in Faults /\ sub[k] = "fired"
  /\ sub' = [sub EXCEPT ![k] = "lost"]
  /\ UNCHANGED <<stateVars, gateVars, target, workVars>>

\* the combine request is answered, or dropped without an answer
EngineEnds(r) ==
  /\ engine[r] = "here"
  /\ \/ engine' = [engine EXCEPT ![r] = "answered"]
     \/ "silent" \in Faults /\ engine' = [engine EXCEPT ![r] = "dropped"]
  /\ UNCHANGED <<stateVars, gateVars, subVars, reported, cached>>

\* a segment leaves the cache; the tokenizer is not told
Evict(w, h) ==
  /\ "evict" \in Faults /\ h \in cached[w]
  /\ cached' = [cached EXCEPT ![w] = @ \ {h}]
  /\ UNCHANGED <<stateVars, gateVars, subVars, reported, engine>>

----------------------------------------------------------------------------
(* spawn_seg_cache_rebuild *)

RebuildStart ==
  /\ todo = None
  /\ todo' = Registered /\ fresh' = Empty
  /\ UNCHANGED <<reg, route, gateVars, subVars, workVars>>

\* faulty: the map is created anew for each worker
RebuildPoll_LastOnly ==
  /\ todo \notin {None, <<>>}
  /\ todo' = Tail(todo)
  /\ fresh' = [h \in Keys |-> IF h \in reported[Head(todo)] THEN Head(todo) ELSE None]
  /\ UNCHANGED <<reg, route, gateVars, subVars, workVars>>

\* one worker answers, or its answer is skipped
RebuildPoll ==
  /\ todo \notin {None, <<>>}
  /\ todo' = Tail(todo)
  /\ \/ fresh' = [h \in Keys |-> IF h \in reported[Head(todo)] THEN Head(todo) ELSE fresh[h]]
     \/ "poll_fails" \in Faults /\ UNCHANGED fresh
  /\ UNCHANGED <<reg, route, gateVars, subVars, workVars>>

\* faulty: the fresh map is laid over the old one
NewDirectory_Merged == [h \in Keys |-> IF fresh[h] # None THEN fresh[h] ELSE route.dir[h]]
NewDirectory == fresh

\* the fresh map replaces the directory and the loads are halved
RebuildSwap ==
  /\ todo = <<>>
  /\ todo' = None
  /\ route' = [route EXCEPT !.dir = NewDirectory,
                            !.loads = [w \in Worker |-> route.loads[w] \div 2]]
  /\ UNCHANGED <<reg, fresh, gateVars, subVars, workVars>>

\* workers leave the registry and come back
Register(w) ==
  /\ "registry" \in Faults
  /\ reg' = IF w \in reg THEN reg \ {w} ELSE reg \cup {w}
  /\ UNCHANGED <<route, fresh, todo, gateVars, subVars, workVars>>

----------------------------------------------------------------------------
Rebuild == RebuildStart \/ RebuildPoll \/ RebuildSwap
Serve(r) == Acquire(r) \/ NoWorkers(r)
Next ==
  \/ \E r \in Req : \/ \E w \in Worker : Arrive(r, w)
                    \/ Refuse(r) \/ Serve(r) \/ Return(r) \/ TimeOut(r) \/ Disconnect(r)
                    \/ EngineEnds(r)
  \/ \E k \in Sub : Land(k) \/ Warm(k) \/ Lose(k)
  \/ \E w \in Worker : Register(w) \/ \E h \in Keys : Evict(w, h)
  \/ Rebuild

Spec == Init /\ [][Next]_vars

\* the runtime polls the handlers, the interval timer ticks, the engine finishes
\* or the request timeout passes, a sub-request that is not lost arrives
FairSpec ==
  /\ Spec /\ WF_vars(Rebuild)
  /\ \A r \in Req : WF_vars(Serve(r)) /\ WF_vars(Return(r) \/ TimeOut(r)) /\ WF_vars(EngineEnds(r))
  /\ \A k \in Sub : WF_vars(Land(k) \/ Warm(k))

----------------------------------------------------------------------------
(* Properties *)

\* The state of PDRouter and of the workers has its shape; in particular no
\* semaphore holds more permits than PIC_MAX_COMBINE_INFLIGHT or fewer than none.
TypeOK ==
  /\ reg \subseteq Worker
  /\ route.dir \in [Keys -> Worker \cup {None}] /\ route.cursor \in Nat
  /\ route.loads \in [Worker -> Nat] /\ fresh \in [Keys -> Worker \cup {None}]
  /\ req \in [Req -> {"new", "waiting", "open", "closed"}]
  /\ combine \in [Req -> Worker \cup {None}] /\ permits \in [Worker -> 0 .. Cap]
  /\ sub \in [Sub -> {"none", "fired", "landed", "done", "lost"}]
  /\ target \in [Sub -> Worker \cup {None}]
  /\ engine \in [Req -> {"none", "here", "answered", "dropped"}]

\* combine_permit_sem: whatever ends a handler and wherever it stands (in line,
\* dispatched, timed out, disconnected), no permit is lost or given back twice:
\* free permits and dispatched requests of a worker add up to the cap.
PermitsKept == \A w \in Worker : permits[w] + Cardinality(Open(w)) = Cap

Gate == INSTANCE Admission WITH
  Client <- Req, Lane <- Worker, line <- queue, open <- [w \in Worker |-> Open(w)]

\* The permit comment's "fair FIFO backpressure": the handlers together implement
\* an admission gate. A worker's requests are dispatched in the order in which they
\* asked, one whose turn never comes overtakes nobody, and at most Cap are open,
\* whatever is dropped, timed out or unregistered meanwhile.
GateImplemented == Gate!Spec

\* pic_combine_sems "caps the number of concurrent scatter requests for which a
\* worker is the combine role": no worker's engine has more than Cap of them. The
\* permit bounds handlers, and only a request that does not stream and is answered
\* within the timeout, to a client that stays, keeps its handler that long.
EngineCapped ==
  \A w \in Worker : Cardinality({r \in Req : combine[r] = w /\ engine[r] = "here"}) <= Cap

\* scatter_prefill looks the assigned url up in the registry and falls back to
\* the first worker: a sub-request is posted to a worker registered at that
\* moment, though the directory may name one that has left.
PostedRegistered ==
  [][\A k \in Sub : sub[k] = "none" /\ sub'[k] = "fired" => target'[k] \in reg]_vars

\* The admission gate: a request in line is served or leaves it, although
\* engines drop requests silently and clients disconnect.
WaitingServed == \A r \in Req : req[r] = "waiting" ~> req[r] # "waiting"

\* spawn_seg_cache_rebuild starts from an empty map: an optimistic entry whose
\* sub-request never arrived does not stay.
PromiseAges ==
  \A h \in Keys : \A w \in Worker :
    (route.dir[h] = w /\ h \notin reported[w]) ~> (route.dir[h] # w \/ h \in reported[w])

\* The rebuild races with requests that record holders and with sub-requests that
\* arrive: once a worker reports a segment, the directory comes to name a worker
\* that reports it and does so ever after.
DirectorySettles ==
  \A h \in Keys : (\E w \in Worker : h \in reported[w])
    ~> [](\E w \in Worker : route.dir[h] = w /\ h \in reported[w])

\* spawn_seg_cache_rebuild's "stale holders age out within one interval": a
\* holder that no longer has the segment does not stay in the directory.
StaleAges ==
  \A h \in Keys : \A w \in Worker :
    (route.dir[h] = w /\ h \notin cached[w]) ~> (route.dir[h] # w \/ h \in cached[w])
=============================================================================
