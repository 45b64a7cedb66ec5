---------------------------- MODULE RouterProofs ----------------------------
(***************************************************************************)
(* For every number of workers, requests and permits and every set of      *)
(* faults, the admission gate keeps its permits, the handlers of           *)
(* scatter_prefill implement Admission, no sub-request is posted to a      *)
(* worker that left the registry, and one step of the LPT pass and the     *)
(* rebuild keep the loads of the workers as close as they were. The gate   *)
(* bounds what an engine holds when handlers outlast their engines.        *)
(***************************************************************************)
EXTENDS Router, FiniteSetTheorems, SequenceTheorems, WellFoundedInduction, TLAPS

\* Leaves are given to Zenon; those that need arithmetic or nested function updates name SMT.
USE ZenonT(40)

\* What the gate knows of a request: its combine worker once it is in line, and
\* the permits of each worker, which are never negative.
GateInv ==
  /\ req \in [Req -> {"new", "waiting", "open", "closed"}]
  /\ combine \in [Req -> Worker \cup {None}]
  /\ permits \in [Worker -> Nat]
  /\ \A r \in Req : req[r] \in {"waiting", "open"} => combine[r] \in Worker
  /\ PermitsKept

\* What the cap on an engine needs: the dispatch of no request returns before its
\* engine is done, as it does at the headers of a stream, at the request timeout
\* and when the client goes away.
HandlersOutlast == Streams = {} /\ "late" \notin Faults /\ "disconnect" \notin Faults

\* An engine holds a combine request only while its handler waits for it.
HeldInv ==
  /\ engine \in [Req -> {"none", "here", "answered", "dropped"}]
  /\ \A r \in Req : engine[r] = "here" => req[r] = "open"

\* The initial state has all permits free and no request dispatched.
LEMMA GateInit == Init => GateInv
<1> SUFFICES ASSUME Init PROVE GateInv
  OBVIOUS
<1>1. \A w \in Worker : Open(w) = {}
  BY DEF Init, Open
<1>2. \A w \in Worker : permits[w] = Cap /\ Cardinality(Open(w)) = 0
  BY <1>1, FS_EmptySet DEF Init
<1>3. PermitsKept
  BY SMTT(30), <1>2, RouterAssumption DEF PermitsKept
<1> QED
  BY <1>3, RouterAssumption DEF Init, GateInv

\* The open requests of a worker are finitely many, as all requests are.
LEMMA OpenFinite == \A w : IsFiniteSet(Open(w)) /\ Cardinality(Open(w)) \in Nat
<1> TAKE w
<1>1. Open(w) \subseteq Req
  BY DEF Open
<1> QED
  BY <1>1, FS_Subset, FS_CardinalityType, RouterAssumption

\* A request that gets a permit (Acquire) adds itself to the open requests of its
\* worker and to no other.
LEMMA OpenGrows ==
  ASSUME GateInv, NEW r \in Req, req[r] = "waiting", permits[combine[r]] > 0,
         req' = [req EXCEPT ![r] = "open"], UNCHANGED combine,
         permits' = [permits EXCEPT ![combine[r]] = @ - 1]
  PROVE  GateInv'
<1>1. PICK v \in Worker : v = combine[r]
  BY DEF GateInv
<1>2. r \notin Open(v) /\ Open(v)' = Open(v) \cup {r}
  BY <1>1 DEF GateInv, Open
<1>3. Cardinality(Open(v)') = Cardinality(Open(v)) + 1
  BY <1>2, OpenFinite, FS_AddElement
<1>4. \A w \in Worker : w # v => Open(w)' = Open(w)
  BY <1>1 DEF GateInv, Open
<1>5. ASSUME NEW w \in Worker
      PROVE  permits'[w] + Cardinality(Open(w)') = Cap
  <2>1. permits[w] + Cardinality(Open(w)) = Cap /\ permits[w] \in Nat /\ Cardinality(Open(w)) \in Nat
    BY OpenFinite DEF GateInv, PermitsKept
  <2>2. CASE w = v
    <3>1. permits'[v] = permits[v] - 1
      BY <1>1 DEF GateInv
    <3> QED
      BY SMTT(30), <2>1, <2>2, <3>1, <1>3
  <2>3. CASE w # v
    <3>1. permits'[w] = permits[w] /\ Open(w)' = Open(w)
      BY <2>3, <1>1, <1>4 DEF GateInv
    <3> QED
      BY <3>1, <2>1
  <2> QED
    BY <2>2, <2>3
<1>6. permits' \in [Worker -> Nat]
  BY SMTT(30), <1>1 DEF GateInv
<1> QED
  BY <1>5, <1>6 DEF GateInv, PermitsKept

\* A handler that ends after it was dispatched (Return, TimeOut, Disconnect)
\* removes itself from the open requests and gives one permit back.
LEMMA OpenShrinks ==
  ASSUME GateInv, NEW r \in Req, req[r] = "open", End(r), UNCHANGED combine
  PROVE  GateInv'
<1>1. PICK v \in Worker : v = combine[r]
  BY DEF GateInv
<1>2. r \in Open(v) /\ Open(v)' = Open(v) \ {r}
  BY <1>1 DEF GateInv, Open, End
<1>3. Cardinality(Open(v)') = Cardinality(Open(v)) - 1
  BY <1>2, OpenFinite, FS_RemoveElement
<1>4. \A w \in Worker : w # v => Open(w)' = Open(w)
  BY <1>1 DEF GateInv, Open, End
<1>5. ASSUME NEW w \in Worker
      PROVE  permits'[w] + Cardinality(Open(w)') = Cap
  <2>1. permits[w] + Cardinality(Open(w)) = Cap /\ permits[w] \in Nat /\ Cardinality(Open(w)) \in Nat
    BY OpenFinite DEF GateInv, PermitsKept
  <2>2. CASE w = v
    <3>1. permits'[v] = permits[v] + 1
      BY <1>1 DEF GateInv, End
    <3> QED
      BY SMTT(30), <2>1, <2>2, <3>1, <1>3
  <2>3. CASE w # v
    <3>1. permits'[w] = permits[w] /\ Open(w)' = Open(w)
      BY <2>3, <1>1, <1>4 DEF GateInv, End
    <3> QED
      BY <3>1, <2>1
  <2> QED
    BY <2>2, <2>3
<1>6. permits' \in [Worker -> Nat]
  BY SMTT(30), <1>1 DEF GateInv, End
<1> QED
  BY <1>5, <1>6 DEF GateInv, PermitsKept, End

\* A step that leaves the open requests and the permits alone keeps the gate.
LEMMA OpenStays ==
  ASSUME GateInv, req' \in [Req -> {"new", "waiting", "open", "closed"}],
         combine' \in [Req -> Worker \cup {None}], UNCHANGED permits,
         \A r \in Req : req'[r] = "open" <=> req[r] = "open",
         \A r \in Req : req[r] = "open" => combine'[r] = combine[r],
         \A r \in Req : req'[r] \in {"waiting", "open"} => combine'[r] \in Worker
  PROVE  GateInv'
<1>1. \A w \in Worker : Open(w)' = Open(w)
  BY DEF Open
<1> QED
  BY <1>1 DEF GateInv, PermitsKept

\* Every action of the system keeps the gate.
LEMMA GateStep == GateInv /\ [Next]_vars => GateInv'
<1> SUFFICES ASSUME GateInv, [Next]_vars PROVE GateInv'
  OBVIOUS
<1> USE DEF stateVars, gateVars, subVars, workVars
<1>1. ASSUME UNCHANGED gateVars PROVE GateInv'
  BY <1>1, OpenStays DEF GateInv
<1>2. ASSUME NEW r \in Req, NEW w \in Worker, Arrive(r, w) PROVE GateInv'
  <2>1. req' = [req EXCEPT ![r] = "waiting"] /\ combine' = [combine EXCEPT ![r] = w]
        /\ req[r] = "new" /\ UNCHANGED permits
    BY <1>2 DEF Arrive
  <2> QED
    BY <2>1, OpenStays DEF GateInv
<1>3. ASSUME NEW r \in Req, Refuse(r) \/ NoWorkers(r) PROVE GateInv'
  <2>1. req' = [req EXCEPT ![r] = "closed"] /\ req[r] # "open" /\ UNCHANGED <<combine, permits>>
    BY <1>3 DEF Refuse, NoWorkers
  <2> QED
    BY <2>1, OpenStays DEF GateInv
<1>4. ASSUME NEW r \in Req, Acquire(r) PROVE GateInv'
  <2>1. /\ req[r] = "waiting" /\ permits[combine[r]] > 0
        /\ req' = [req EXCEPT ![r] = "open"] /\ UNCHANGED combine
        /\ permits' = [permits EXCEPT ![combine[r]] = @ - 1]
    BY <1>4, Zenon DEF Acquire, InTurn, HasPermit
  <2> QED
    BY <2>1, OpenGrows
<1>5. ASSUME NEW r \in Req, Return(r) \/ TimeOut(r) PROVE GateInv'
  BY <1>5, OpenShrinks DEF Return, TimeOut
<1>6. ASSUME NEW r \in Req, Disconnect(r) PROVE GateInv'
  <2>1. CASE req[r] = "waiting" /\ req' = [req EXCEPT ![r] = "closed"] /\ UNCHANGED <<combine, permits>>
    BY <2>1, OpenStays DEF GateInv
  <2>2. CASE req[r] = "open" /\ End(r) /\ UNCHANGED combine
    BY <2>2, OpenShrinks
  <2> QED
    BY <1>6, <2>1, <2>2, Zenon DEF Disconnect
<1>7. ASSUME NEW r \in Req, EngineEnds(r) PROVE UNCHANGED gateVars
  BY <1>7 DEF EngineEnds
<1>8. ASSUME NEW k \in Sub, Land(k) \/ Warm(k) \/ Lose(k) PROVE UNCHANGED gateVars
  BY <1>8 DEF Land, Warm, Lose
<1>9. ASSUME NEW w \in Worker, Register(w) \/ \E h \in Keys : Evict(w, h) PROVE UNCHANGED gateVars
  BY <1>9 DEF Register, Evict
<1>10. ASSUME Rebuild \/ UNCHANGED vars PROVE UNCHANGED gateVars
  BY <1>10 DEF Rebuild, RebuildStart, RebuildPoll, RebuildSwap, vars
<1> QED
  BY <1>1, <1>2, <1>3, <1>4, <1>5, <1>6, <1>7, <1>8, <1>9, <1>10, Zenon DEF Next, Serve

\* combine_permit_sem: on every exit path, for any number of workers, requests and
\* permits and under every fault, free permits and dispatched requests add up.
THEOREM PermitsAlwaysKept == Spec => []PermitsKept
<1>1. GateInv => PermitsKept
  BY DEF GateInv
<1> QED
  BY <1>1, GateInit, GateStep, PTL DEF Spec

\* If handlers outlast their engines, an engine holds a combine request only while
\* its handler waits: every action keeps this.
LEMMA HeldStep ==
  ASSUME HandlersOutlast
  PROVE  GateInv /\ HeldInv /\ [Next]_vars => HeldInv'
<1> SUFFICES ASSUME GateInv, HeldInv, [Next]_vars PROVE HeldInv'
  OBVIOUS
<1> USE DEF stateVars, gateVars, subVars, workVars
<1>1. ASSUME UNCHANGED <<req, engine>> PROVE HeldInv'
  BY <1>1 DEF HeldInv
<1>2. ASSUME NEW r \in Req, NEW x \in {"waiting", "closed"}, req[r] # "open",
             req' = [req EXCEPT ![r] = x], UNCHANGED engine
      PROVE  HeldInv'
  BY <1>2 DEF HeldInv, GateInv
<1>3. ASSUME NEW r \in Req, (\E w \in Worker : Arrive(r, w)) \/ Refuse(r) \/ NoWorkers(r) PROVE HeldInv'
  <2>1. req[r] # "open" /\ UNCHANGED engine /\ \E x \in {"waiting", "closed"} : req' = [req EXCEPT ![r] = x]
    BY <1>3 DEF Arrive, Refuse, NoWorkers
  <2> QED
    BY <1>2, <2>1
<1>4. ASSUME NEW r \in Req, Acquire(r) PROVE HeldInv'
  <2>1. req' = [req EXCEPT ![r] = "open"] /\ engine' = [engine EXCEPT ![r] = "here"]
    BY <1>4, Zenon DEF Acquire
  <2> QED
    BY <2>1 DEF HeldInv, GateInv
<1>5. ASSUME NEW r \in Req, Return(r) \/ TimeOut(r) PROVE HeldInv'
  <2>1. engine[r] # "here" /\ req' = [req EXCEPT ![r] = "closed"] /\ UNCHANGED engine
    BY <1>5 DEF Return, Responded, TimeOut, End, HandlersOutlast
  <2> QED
    BY <2>1 DEF HeldInv, GateInv
<1>6. ASSUME NEW r \in Req, Disconnect(r) PROVE FALSE
  BY <1>6 DEF Disconnect, HandlersOutlast
<1>7. ASSUME NEW r \in Req, EngineEnds(r) PROVE HeldInv'
  <2>1. UNCHANGED req /\ \E x \in {"answered", "dropped"} : engine' = [engine EXCEPT ![r] = x]
    BY <1>7 DEF EngineEnds
  <2> QED
    BY <2>1 DEF HeldInv
<1>8. ASSUME NEW k \in Sub, Land(k) \/ Warm(k) \/ Lose(k) PROVE UNCHANGED <<req, engine>>
  BY <1>8 DEF Land, Warm, Lose
<1>9. ASSUME NEW w \in Worker, Register(w) \/ \E h \in Keys : Evict(w, h) PROVE UNCHANGED <<req, engine>>
  BY <1>9 DEF Register, Evict
<1>10. ASSUME Rebuild \/ UNCHANGED vars PROVE UNCHANGED <<req, engine>>
  BY <1>10 DEF Rebuild, RebuildStart, RebuildPoll, RebuildSwap, vars
<1> QED
  BY <1>1, <1>3, <1>4, <1>5, <1>6, <1>7, <1>8, <1>9, <1>10, Zenon DEF Next, Serve

\* What an engine holds is open at the gate, and the gate opens at most Cap.
LEMMA HeldCapped == GateInv /\ HeldInv => EngineCapped
<1> SUFFICES ASSUME GateInv, HeldInv, NEW w \in Worker
             PROVE  Cardinality({r \in Req : combine[r] = w /\ engine[r] = "here"}) <= Cap
  BY DEF EngineCapped
<1> DEFINE H == {r \in Req : combine[r] = w /\ engine[r] = "here"}
<1>1. H \subseteq Open(w)
  BY DEF HeldInv, Open
<1>2. Cardinality(H) \in Nat /\ Cardinality(H) <= Cardinality(Open(w))
  BY <1>1, OpenFinite, FS_Subset, FS_CardinalityType
<1>3. permits[w] \in Nat /\ Cardinality(Open(w)) \in Nat /\ permits[w] + Cardinality(Open(w)) = Cap
  BY OpenFinite DEF GateInv, PermitsKept
<1> HIDE DEF H
<1>4. Cardinality(H) <= Cap
  BY SMTT(30), <1>2, <1>3, RouterAssumption
<1> QED
  BY <1>4 DEF H

\* pic_combine_sems caps the combine requests an engine holds, for every Cap, in
\* runs in which no request streams, no request timeout passes on an engine that
\* still works and no client goes away: the permit is tied to the handler, and
\* each of these three ends the handler first.
THEOREM EngineStaysCapped ==
  ASSUME HandlersOutlast
  PROVE  Spec => []EngineCapped
<1>1. Init => HeldInv
  BY DEF Init, HeldInv
<1>2. Init => GateInv /\ HeldInv
  BY <1>1, GateInit
<1>3. GateInv /\ HeldInv /\ [Next]_vars => (GateInv /\ HeldInv)'
  BY GateStep, HeldStep
<1> QED
  BY <1>2, <1>3, HeldCapped, PTL DEF Spec

----------------------------------------------------------------------------
(* The lines, and what unlinking one element does to a sequence *)

\* Each line has the waiting requests of its worker, each of them once.
LineInv ==
  /\ queue \in [Worker -> Seq(Req)]
  /\ \A w \in Worker : \A i \in DOMAIN queue[w] :
       req[queue[w][i]] = "waiting" /\ combine[queue[w][i]] = w
  /\ \A w \in Worker : \A i, j \in DOMAIN queue[w] : queue[w][i] = queue[w][j] => i = j
  /\ \A r \in Req : req[r] = "waiting" => \E i \in DOMAIN queue[combine[r]] : queue[combine[r]][i] = r

\* Nobody waits at first.
LEMMA LineInit == Init => LineInv
BY SMTT(30) DEF Init, LineInv

\* What is left of a sequence when the element at i is unlinked from it: the same
\* elements in the same order, but for that one.
LEMMA RemoveOne ==
  ASSUME NEW S, NEW s \in Seq(S), NEW i \in DOMAIN s
  PROVE  /\ RemoveAt(s, i) \in Seq(S)
         /\ Len(RemoveAt(s, i)) = Len(s) - 1
         /\ \A j \in DOMAIN RemoveAt(s, i) : RemoveAt(s, i)[j] = IF j < i THEN s[j] ELSE s[j + 1]
<1> DEFINE a == SubSeq(s, 1, i - 1)
           b == SubSeq(s, i + 1, Len(s))
<1>1. Len(s) \in Nat /\ DOMAIN s = 1 .. Len(s) /\ i \in 1 .. Len(s)
  BY LenProperties
<1>2. a \in Seq(S) /\ Len(a) = i - 1 /\ \A j \in 1 .. i - 1 : a[j] = s[j]
  BY SMTT(30), <1>1, SubSeqProperties, LenProperties
<1>3. b \in Seq(S) /\ Len(b) = Len(s) - i /\ \A j \in 1 .. Len(s) - i : b[j] = s[i + j]
  <2>1. \A j \in i + 1 .. Len(s) : s[j] \in S
    BY SMTT(30), <1>1, ElementOfSeq
  <2>2. /\ b \in Seq(S)
        /\ Len(b) = IF i + 1 <= Len(s) THEN Len(s) - (i + 1) + 1 ELSE 0
        /\ \A j \in 1 .. Len(s) - (i + 1) + 1 : b[j] = s[i + 1 + j - 1]
    BY SMTT(30), <1>1, <2>1, SubSeqProperties, i + 1 \in Int
  <2> HIDE DEF b
  <2>3. Len(b) = Len(s) - i
    BY SMTT(30), <1>1, <2>2
  <2>4. ASSUME NEW j \in 1 .. Len(s) - i PROVE b[j] = s[i + j]
    <3>1. j \in 1 .. Len(s) - (i + 1) + 1 /\ i + 1 + j - 1 = i + j
      BY SMTT(30), <1>1
    <3> QED
      BY <2>2, <3>1
  <2> QED
    BY <2>2, <2>3, <2>4
<1>4. RemoveAt(s, i) = a \o b
  BY DEF RemoveAt
<1> HIDE DEF a, b
<1>5. a \o b \in Seq(S) /\ Len(a \o b) = Len(s) - 1
  <2>1. a \o b \in Seq(S) /\ Len(a \o b) = Len(a) + Len(b)
    BY <1>2, <1>3, ConcatProperties, Zenon
  <2> QED
    BY SMTT(30), <2>1, <1>1, <1>2, <1>3
<1>6. \A j \in 1 .. Len(s) - 1 : (a \o b)[j] = IF j < i THEN s[j] ELSE s[j + 1]
  <2>1. \A j \in 1 .. Len(a) + Len(b) : (a \o b)[j] = IF j <= Len(a) THEN a[j] ELSE b[j - Len(a)]
    BY <1>2, <1>3, ConcatProperties
  <2> SUFFICES ASSUME NEW j \in 1 .. Len(s) - 1
               PROVE  (a \o b)[j] = IF j < i THEN s[j] ELSE s[j + 1]
    OBVIOUS
  <2>2. CASE j < i
    BY SMTT(30), <2>1, <2>2, <1>1, <1>2, <1>3
  <2>3. CASE ~(j < i)
    <3>1. j - (i - 1) \in 1 .. Len(s) - i /\ i + (j - (i - 1)) = j + 1
      BY SMTT(30), <2>3, <1>1
    <3>2. (a \o b)[j] = b[j - (i - 1)]
      BY SMTT(30), <2>1, <2>3, <1>1, <1>2, <1>3
    <3> QED
      BY <3>1, <3>2, <2>3, <1>3
  <2> QED
    BY <2>2, <2>3
<1>7. DOMAIN (a \o b) = 1 .. Len(s) - 1
  BY <1>5, LenProperties
<1> QED
  BY <1>4, <1>5, <1>6, <1>7

\* Taking the first of a line is unlinking the one at position 1.
LEMMA TailRemoves ==
  ASSUME NEW S, NEW s \in Seq(S), s # <<>>
  PROVE  1 \in DOMAIN s /\ Head(s) = s[1] /\ Tail(s) = RemoveAt(s, 1)
<1>1. Len(s) \in Nat /\ DOMAIN s = 1 .. Len(s) /\ Len(s) > 0
  BY SMTT(30), LenProperties, EmptySeq
<1>2. Tail(s) = SubSeq(s, 2, Len(s)) /\ Tail(s) \in Seq(S)
  BY TailIsSubSeq, HeadTailProperties
<1>3. SubSeq(s, 1, 0) = <<>>
  BY SMTT(30), SubSeqEmpty
<1>4. RemoveAt(s, 1) = <<>> \o Tail(s)
  BY SMTT(30), <1>1, <1>2, <1>3 DEF RemoveAt
<1> QED
  BY SMTT(30), <1>1, <1>2, <1>4, ConcatEmptySeq

-----------------------------------------------------------------------------
(* The handlers implement an admission gate *)

\* A waiting request that leaves the line, served or not, leaves it in order.
LEMMA LineShrinks ==
  ASSUME GateInv, LineInv, NEW r \in Req, req[r] = "waiting", NEW x \in {"open", "closed"},
         NEW i \in DOMAIN queue[combine[r]], queue[combine[r]][i] = r,
         queue' = [queue EXCEPT ![combine[r]] = RemoveAt(@, i)],
         req' = [req EXCEPT ![r] = x], UNCHANGED combine
  PROVE  LineInv'
<1>1. PICK v \in Worker : v = combine[r]
  BY DEF GateInv
<1>2. PICK s \in Seq(Req) : s = queue[v]
  BY DEF LineInv
<1>3. PICK t \in Seq(Req) : t = RemoveAt(s, i)
  BY <1>1, <1>2, RemoveOne
<1>4. Len(s) \in Nat /\ DOMAIN s = 1 .. Len(s) /\ i \in 1 .. Len(s) /\ s[i] = r
  BY <1>1, <1>2, LenProperties
<1>5. /\ DOMAIN t = 1 .. Len(s) - 1
      /\ \A j \in 1 .. Len(s) - 1 : t[j] = IF j < i THEN s[j] ELSE s[j + 1]
  <2>1. i \in DOMAIN s
    BY <1>4
  <2>2. /\ Len(RemoveAt(s, i)) = Len(s) - 1
        /\ \A j \in DOMAIN RemoveAt(s, i) : RemoveAt(s, i)[j] = IF j < i THEN s[j] ELSE s[j + 1]
    BY <2>1, RemoveOne, Zenon
  <2>3. DOMAIN t = 1 .. Len(t)
    BY LenProperties
  <2> QED
    BY <2>2, <2>3, <1>3
<1>6. queue' = [queue EXCEPT ![v] = t] /\ queue'[v] = t /\ \A w \in Worker : w # v => queue'[w] = queue[w]
  BY SMTT(30), <1>1, <1>2, <1>3 DEF LineInv
<1>7. \A j \in DOMAIN s : req[s[j]] = "waiting" /\ combine[s[j]] = v
  BY SMTT(30), <1>2 DEF LineInv
<1>8. \A j, k \in DOMAIN s : s[j] = s[k] => j = k
  BY <1>2 DEF LineInv
<1>9. \A j \in DOMAIN t : req[t[j]] = "waiting" /\ combine[t[j]] = v /\ t[j] # r
  BY SMTT(30), <1>4, <1>5, <1>7, <1>8
<1>10. ASSUME NEW j \in DOMAIN t, NEW k \in DOMAIN t, t[j] = t[k] PROVE j = k
  <2>1. PICK m \in DOMAIN s : t[j] = s[m] /\ m = IF j < i THEN j ELSE j + 1
    BY SMTT(30), <1>4, <1>5
  <2>2. PICK n \in DOMAIN s : t[k] = s[n] /\ n = IF k < i THEN k ELSE k + 1
    BY SMTT(30), <1>4, <1>5
  <2>3. m = n
    BY <2>1, <2>2, <1>8, <1>10
  <2> QED
    BY SMTT(30), <2>1, <2>2, <2>3, <1>4, <1>5
<1>11. \A k \in DOMAIN s : s[k] # r => \E j \in DOMAIN t : t[j] = s[k]
  <2> TAKE k \in DOMAIN s
  <2> HAVE s[k] # r
  <2>1. CASE k < i
    BY SMTT(30), <2>1, <1>4, <1>5
  <2>2. CASE k > i
    <3>1. k - 1 \in DOMAIN t /\ t[k - 1] = s[k]
      BY SMTT(30), <2>2, <1>4, <1>5
    <3> QED
      BY <3>1
  <2> QED
    BY SMTT(30), <2>1, <2>2, <1>4
<1>12. queue' \in [Worker -> Seq(Req)]
  BY <1>6 DEF LineInv
<1>13. ASSUME NEW w \in Worker
       PROVE  /\ \A j \in DOMAIN queue'[w] : req'[queue'[w][j]] = "waiting" /\ combine[queue'[w][j]] = w
              /\ \A j, k \in DOMAIN queue'[w] : queue'[w][j] = queue'[w][k] => j = k
  <2>1. CASE w = v
    <3>1. \A j \in DOMAIN t : t[j] \in Req
      BY ElementOfSeq, LenProperties
    <3> QED
      BY <2>1, <3>1, <1>6, <1>9, <1>10 DEF GateInv
  <2>2. CASE w # v
    <3>1. queue'[w] = queue[w] /\ queue[w] \in Seq(Req)
      BY <2>2, <1>6 DEF LineInv
    <3>2. \A j \in DOMAIN queue[w] : queue[w][j] \in Req /\ queue[w][j] # r
      BY SMTT(30), <2>2, <3>1, <1>1, ElementOfSeq, LenProperties DEF LineInv
    <3> QED
      BY SMTT(30), <3>1, <3>2 DEF LineInv, GateInv
  <2> QED
    BY <2>1, <2>2
<1>14. ASSUME NEW q \in Req, req'[q] = "waiting"
       PROVE  \E j \in DOMAIN queue'[combine[q]] : queue'[combine[q]][j] = q
  <2>1. q # r /\ req[q] = "waiting" /\ combine[q] \in Worker
    BY <1>14 DEF GateInv
  <2>2. PICK k \in DOMAIN queue[combine[q]] : queue[combine[q]][k] = q
    BY <2>1 DEF LineInv
  <2>3. CASE combine[q] = v
    BY SMTT(30), <2>1, <2>2, <2>3, <1>2, <1>6, <1>11
  <2>4. CASE combine[q] # v
    BY <2>1, <2>2, <2>4, <1>6
  <2> QED
    BY <2>3, <2>4
<1>15. \A w \in Worker : \A j \in DOMAIN queue'[w] :
         req'[queue'[w][j]] = "waiting" /\ combine'[queue'[w][j]] = w
  BY SMTT(30), <1>13, combine' = combine
<1>16. \A w \in Worker : \A j, k \in DOMAIN queue'[w] : queue'[w][j] = queue'[w][k] => j = k
  BY <1>13, Zenon
<1>17. \A q \in Req : req'[q] = "waiting" => \E j \in DOMAIN queue'[combine'[q]] : queue'[combine'[q]][j] = q
  BY <1>14, combine' = combine
<1> QED
  BY <1>12, <1>15, <1>16, <1>17, Zenon DEF LineInv

\* A request that arrives goes to the end of one line.
LEMMA LineGrows ==
  ASSUME GateInv, LineInv, NEW r \in Req, NEW v \in Worker, Arrive(r, v)
  PROVE  LineInv'
<1>1. /\ req[r] = "new" /\ req' = [req EXCEPT ![r] = "waiting"]
      /\ combine' = [combine EXCEPT ![r] = v] /\ queue' = [queue EXCEPT ![v] = Append(@, r)]
  BY DEF Arrive
<1>2. PICK s \in Seq(Req) : s = queue[v]
  BY DEF LineInv
<1>3. PICK t \in Seq(Req) : t = Append(s, r)
  BY AppendProperties, Zenon
<1>4. /\ Len(s) \in Nat /\ DOMAIN s = 1 .. Len(s) /\ DOMAIN t = 1 .. Len(s) + 1
      /\ t[Len(s) + 1] = r /\ \A j \in 1 .. Len(s) : t[j] = s[j]
  BY SMTT(30), <1>3, AppendProperties, LenProperties
<1>5. queue' = [queue EXCEPT ![v] = t] /\ queue'[v] = t /\ \A w \in Worker : w # v => queue'[w] = queue[w]
  BY SMTT(30), <1>1, <1>2, <1>3 DEF LineInv
<1>6. \A w \in Worker : \A j \in DOMAIN queue[w] :
        /\ queue[w][j] \in Req /\ queue[w][j] # r
        /\ req'[queue[w][j]] = "waiting" /\ combine'[queue[w][j]] = w
  <2> TAKE w \in Worker
  <2>1. \A j \in DOMAIN queue[w] : queue[w][j] \in Req
    BY SMTT(30), ElementOfSeq, LenProperties DEF LineInv
  <2> QED
    BY SMTT(30), <2>1, <1>1 DEF LineInv, GateInv
<1>7. queue' \in [Worker -> Seq(Req)]
  BY <1>5 DEF LineInv
<1>8. req'[r] = "waiting" /\ combine'[r] = v
  BY <1>1 DEF GateInv
<1>9. ASSUME NEW w \in Worker, NEW j \in DOMAIN queue'[w]
      PROVE  req'[queue'[w][j]] = "waiting" /\ combine'[queue'[w][j]] = w
  <2>1. CASE w = v /\ j = Len(s) + 1
    BY <2>1, <1>4, <1>5, <1>8
  <2>2. CASE w = v /\ j # Len(s) + 1
    <3>1. j \in DOMAIN s /\ queue'[w][j] = s[j]
      BY SMTT(30), <2>2, <1>4, <1>5, <1>9
    <3> QED
      BY SMTT(30), <3>1, <2>2, <1>2, <1>6
  <2>3. CASE w # v
    BY SMTT(30), <2>3, <1>5, <1>6, <1>9
  <2> QED
    BY <2>1, <2>2, <2>3
<1>10. ASSUME NEW w \in Worker, NEW j \in DOMAIN queue'[w], NEW k \in DOMAIN queue'[w],
              queue'[w][j] = queue'[w][k]
       PROVE  j = k
  <2>1. CASE w = v
    <3>1. \A m, n \in DOMAIN s : s[m] = s[n] => m = n
      BY <1>2 DEF LineInv
    <3>2. \A m \in DOMAIN s : s[m] # r
      BY <1>2, <1>6
    <3> QED
      BY SMTT(30), <3>1, <3>2, <2>1, <1>4, <1>5, <1>10
  <2>2. CASE w # v
    BY <2>2, <1>5, <1>10 DEF LineInv
  <2> QED
    BY <2>1, <2>2
<1>11. ASSUME NEW q \in Req, req'[q] = "waiting"
       PROVE  \E j \in DOMAIN queue'[combine'[q]] : queue'[combine'[q]][j] = q
  <2>1. CASE q = r
    <3>1. Len(s) + 1 \in DOMAIN t
      BY SMTT(30), <1>4
    <3> QED
      BY <2>1, <3>1, <1>4, <1>5, <1>8
  <2>2. CASE q # r
    <3>1. req[q] = "waiting" /\ combine'[q] = combine[q] /\ combine[q] \in Worker
      BY <2>2, <1>1, <1>11 DEF GateInv
    <3>2. PICK k \in DOMAIN queue[combine[q]] : queue[combine[q]][k] = q
      BY <3>1 DEF LineInv
    <3>3. CASE combine[q] = v
      <4>1. k \in DOMAIN t /\ t[k] = q
        BY SMTT(30), <3>2, <3>3, <1>2, <1>4
      <4> QED
        BY <4>1, <3>1, <3>3, <1>5
    <3>4. CASE combine[q] # v
      BY <3>1, <3>2, <3>4, <1>5
    <3> QED
      BY <3>3, <3>4
  <2> QED
    BY <2>1, <2>2
<1> QED
  BY <1>7, <1>9, <1>10, <1>11, ZenonT(30) DEF LineInv

\* Every action keeps the lines.
LEMMA LineStep == GateInv /\ LineInv /\ [Next]_vars => LineInv'
<1> SUFFICES ASSUME GateInv, LineInv, [Next]_vars PROVE LineInv'
  OBVIOUS
<1> USE DEF stateVars, gateVars, subVars, workVars
<1>1. ASSUME NEW r \in Req, req[r] # "waiting", NEW x \in {"open", "closed"},
             req' = [req EXCEPT ![r] = x], UNCHANGED <<combine, queue>>
      PROVE  LineInv'
  <2>1. \A q \in Req : req'[q] = "waiting" <=> req[q] = "waiting"
    BY <1>1 DEF GateInv
  <2>2. \A w \in Worker : \A j \in DOMAIN queue[w] : queue[w][j] \in Req
    BY SMTT(30), ElementOfSeq, LenProperties DEF LineInv
  <2> QED
    BY SMTT(30), <2>1, <2>2, <1>1 DEF LineInv
<1>2. ASSUME UNCHANGED gateVars PROVE LineInv'
  BY SMTT(30), <1>2 DEF LineInv
<1>3. ASSUME NEW r \in Req, Serve(r) PROVE LineInv'
  <2>1. PICK x \in {"open", "closed"} :
          /\ req[r] = "waiting" /\ Head(queue[combine[r]]) = r
          /\ queue' = [queue EXCEPT ![combine[r]] = Tail(@)]
          /\ req' = [req EXCEPT ![r] = x] /\ UNCHANGED combine
    BY <1>3, Zenon DEF Serve, Acquire, NoWorkers, InTurn
  <2>2. combine[r] \in Worker /\ queue[combine[r]] \in Seq(Req) /\ queue[combine[r]] # <<>>
    BY SMTT(30), <2>1 DEF GateInv, LineInv
  <2>3. /\ 1 \in DOMAIN queue[combine[r]] /\ queue[combine[r]][1] = r
        /\ Tail(queue[combine[r]]) = RemoveAt(queue[combine[r]], 1)
    BY <2>1, <2>2, TailRemoves
  <2>4. queue' = [queue EXCEPT ![combine[r]] = RemoveAt(@, 1)]
    BY <2>1, <2>3
  <2> QED
    BY <2>1, <2>3, <2>4, LineShrinks
<1>4. ASSUME NEW r \in Req, Disconnect(r) PROVE LineInv'
  <2>1. CASE req[r] = "waiting" /\ req' = [req EXCEPT ![r] = "closed"] /\ LeaveLine(r) /\ UNCHANGED combine
    BY <2>1, LineShrinks DEF LeaveLine
  <2>2. CASE req[r] = "open" /\ End(r) /\ UNCHANGED <<combine, queue>>
    BY <2>2, <1>1 DEF End
  <2> QED
    BY <1>4, <2>1, <2>2, Zenon DEF Disconnect
<1>5. ASSUME NEW r \in Req, Refuse(r) \/ Return(r) \/ TimeOut(r) PROVE LineInv'
  <2>1. req[r] # "waiting" /\ req' = [req EXCEPT ![r] = "closed"] /\ UNCHANGED <<combine, queue>>
    BY <1>5 DEF Refuse, Return, TimeOut, End
  <2> QED
    BY <2>1, <1>1
<1>6. ASSUME NEW r \in Req, EngineEnds(r) PROVE UNCHANGED gateVars
  BY <1>6 DEF EngineEnds
<1>7. ASSUME NEW k \in Sub, Land(k) \/ Warm(k) \/ Lose(k) PROVE UNCHANGED gateVars
  BY <1>7 DEF Land, Warm, Lose
<1>8. ASSUME NEW w \in Worker, Register(w) \/ \E h \in Keys : Evict(w, h) PROVE UNCHANGED gateVars
  BY <1>8 DEF Register, Evict
<1>9. ASSUME Rebuild \/ UNCHANGED vars PROVE UNCHANGED gateVars
  BY <1>9 DEF Rebuild, RebuildStart, RebuildPoll, RebuildSwap, vars
<1> QED
  BY <1>2, <1>3, <1>4, <1>5, <1>6, <1>7, <1>8, <1>9, LineGrows, Zenon DEF Next

\* A gate with nobody in line and nobody admitted.
LEMMA GateStarts == Init => Gate!Init
<1> SUFFICES ASSUME Init PROVE Gate!Init
  OBVIOUS
<1>1. \A w \in Worker : Open(w) = {}
  BY DEF Init, Open
<1> QED
  BY <1>1 DEF Init, Gate!Init

\* A step that changes neither the lines nor who is open is a step the gate does
\* not see.
LEMMA GateStutters ==
  ASSUME UNCHANGED queue, \A w \in Worker : Open(w)' = Open(w)
  PROVE  UNCHANGED Gate!vars
BY DEF Gate!vars

\* The open requests that stay when one that is not open changes to another state
\* in which it is not.
LEMMA OpenSame ==
  ASSUME GateInv, NEW r \in Req, req[r] # "open", NEW x \in {"waiting", "closed"},
         req' = [req EXCEPT ![r] = x], \A q \in Req : q # r => combine'[q] = combine[q]
  PROVE  \A w \in Worker : Open(w)' = Open(w)
BY DEF GateInv, Open

\* A handler that ends leaves the gate.
LEMMA GateLeaves ==
  ASSUME GateInv, NEW r \in Req, req[r] = "open", End(r), UNCHANGED <<combine, queue>>
  PROVE  Gate!Next
<1>1. PICK v \in Worker : v = combine[r]
  BY DEF GateInv
<1>2. r \in Open(v) /\ Open(v)' = Open(v) \ {r}
  BY <1>1 DEF GateInv, Open, End
<1>3. \A w \in Worker : w # v => Open(w)' = Open(w)
  BY <1>1 DEF GateInv, Open, End
<1>4. Gate!Leave(r, v)
  BY <1>2, <1>3 DEF Gate!Leave
<1> QED
  BY <1>4 DEF Gate!Next

\* Whoever gets a free permit is first in line, and fewer than Cap are open.
LEMMA GateTurns ==
  ASSUME GateInv, LineInv, NEW r \in Req, Serve(r)
  PROVE  Gate!Next
<1>1. PICK v \in Worker : v = combine[r]
  BY Zenon DEF GateInv, Serve, Acquire, NoWorkers
<1>2. /\ req[r] = "waiting" /\ permits[v] > 0 /\ Head(queue[v]) = r
      /\ queue' = [queue EXCEPT ![v] = Tail(@)] /\ UNCHANGED combine
  BY <1>1, Zenon DEF Serve, Acquire, NoWorkers, InTurn, HasPermit
<1>3. queue[v] # <<>>
  BY SMTT(30), <1>1, <1>2 DEF LineInv
<1>4. Cardinality(Open(v)) < Cap
  <2>1. permits[v] + Cardinality(Open(v)) = Cap /\ permits[v] \in Nat /\ Cardinality(Open(v)) \in Nat
    BY OpenFinite DEF GateInv, PermitsKept
  <2> QED
    BY SMTT(30), <2>1, <1>2
<1> DEFINE open == [w \in Worker |-> Open(w)]
<1>5. Gate!Cardinality(open[v]) < Cap
  <2>1. open[v] = Open(v)
    OBVIOUS
  <2>2. Gate!Cardinality(Open(v)) = Cardinality(Open(v))
    BY Zenon DEF Gate!Cardinality, Cardinality
  <2> QED
    BY <2>1, <2>2, <1>4
<1>6. CASE req' = [req EXCEPT ![r] = "open"]
  <2>1. Open(v)' = Open(v) \cup {r} /\ \A w \in Worker : w # v => Open(w)' = Open(w)
    BY <1>1, <1>2, <1>6 DEF GateInv, Open
  <2>2. open' = [open EXCEPT ![v] = @ \cup {Head(queue[v])}]
    BY <2>1, <1>2
  <2>3. Gate!Turn(v)
    BY <2>2, <1>2, <1>3, <1>5, Zenon DEF Gate!Turn
  <2> QED
    BY <2>3 DEF Gate!Next
<1>7. CASE req' = [req EXCEPT ![r] = "closed"]
  <2>1. \A w \in Worker : Open(w)' = Open(w)
    BY <1>2, <1>7, OpenSame
  <2>2. UNCHANGED open
    BY <2>1
  <2>3. Gate!Turn(v)
    BY <2>2, <1>2, <1>3, <1>5, Zenon DEF Gate!Turn
  <2> QED
    BY <2>3 DEF Gate!Next
<1> QED
  BY <1>6, <1>7, Zenon DEF Serve, Acquire, NoWorkers

\* A request enters one line, and is nowhere else.
LEMMA GateEnters ==
  ASSUME GateInv, LineInv, NEW r \in Req, NEW v \in Worker, Arrive(r, v)
  PROVE  Gate!Next
<1>1. \A w \in Worker : Open(w)' = Open(w)
  BY OpenSame DEF Arrive, GateInv
<1>2. \A w \in Worker : r \notin Open(w) /\ r \notin Gate!Waiting(w)
  BY SMTT(30) DEF Arrive, Open, LineInv, Gate!Waiting
<1>3. Gate!Enter(r, v)
  BY <1>1, <1>2 DEF Gate!Enter, Arrive
<1> QED
  BY <1>3 DEF Gate!Next

\* A waiter that is dropped quits the line.
LEMMA GateQuits ==
  ASSUME GateInv, NEW r \in Req, req[r] = "waiting", req' = [req EXCEPT ![r] = "closed"],
         LeaveLine(r), UNCHANGED combine
  PROVE  Gate!Next
<1>1. PICK v \in Worker : v = combine[r]
  BY DEF GateInv
<1>2. PICK i \in DOMAIN queue[v] : queue' = [queue EXCEPT ![v] = RemoveAt(@, i)]
  BY <1>1, Zenon DEF LeaveLine
<1>3. \A w \in Worker : Open(w)' = Open(w)
  BY OpenSame
<1>4. Gate!Quit(v, i)
  BY <1>2, <1>3 DEF Gate!Quit, RemoveAt
<1> QED
  BY <1>4, Zenon DEF Gate!Next

\* Every action of the router is a step of the gate or one it does not see.
LEMMA GateSteps == GateInv /\ LineInv /\ [Next]_vars => [Gate!Next]_(Gate!vars)
<1> SUFFICES ASSUME GateInv, LineInv, [Next]_vars PROVE Gate!Next \/ UNCHANGED Gate!vars
  OBVIOUS
<1> USE DEF stateVars, gateVars, subVars, workVars
<1>1. ASSUME UNCHANGED gateVars PROVE UNCHANGED Gate!vars
  <2>1. \A w \in Worker : Open(w)' = Open(w)
    BY <1>1 DEF Open
  <2> QED
    BY <2>1, <1>1, GateStutters
<1>2. ASSUME NEW r \in Req, Refuse(r) PROVE UNCHANGED Gate!vars
  <2>1. req[r] # "open" /\ req' = [req EXCEPT ![r] = "closed"] /\ UNCHANGED <<combine, queue>>
    BY <1>2 DEF Refuse
  <2>2. \A w \in Worker : Open(w)' = Open(w)
    BY <2>1, OpenSame
  <2> QED
    BY <2>1, <2>2, GateStutters
<1>3. ASSUME NEW r \in Req, Return(r) \/ TimeOut(r) PROVE Gate!Next
  BY <1>3, GateLeaves DEF Return, TimeOut
<1>4. ASSUME NEW r \in Req, Disconnect(r) PROVE Gate!Next
  <2>1. CASE req[r] = "waiting" /\ req' = [req EXCEPT ![r] = "closed"] /\ LeaveLine(r) /\ UNCHANGED combine
    BY <2>1, GateQuits
  <2>2. CASE req[r] = "open" /\ End(r) /\ UNCHANGED <<combine, queue>>
    BY <2>2, GateLeaves
  <2> QED
    BY <1>4, <2>1, <2>2, Zenon DEF Disconnect
<1>5. ASSUME NEW r \in Req, EngineEnds(r) PROVE UNCHANGED gateVars
  BY <1>5 DEF EngineEnds
<1>6. ASSUME NEW k \in Sub, Land(k) \/ Warm(k) \/ Lose(k) PROVE UNCHANGED gateVars
  BY <1>6 DEF Land, Warm, Lose
<1>7. ASSUME NEW w \in Worker, Register(w) \/ \E h \in Keys : Evict(w, h) PROVE UNCHANGED gateVars
  BY <1>7 DEF Register, Evict
<1>8. ASSUME Rebuild \/ UNCHANGED vars PROVE UNCHANGED gateVars
  BY <1>8 DEF Rebuild, RebuildStart, RebuildPoll, RebuildSwap, vars
<1> QED
  BY <1>1, <1>2, <1>3, <1>4, <1>5, <1>6, <1>7, <1>8, GateEnters, GateTurns, Zenon DEF Next

\* "Fair FIFO backpressure": scatter_prefill's handlers implement the admission
\* gate for every number of workers, requests and permits, under every fault.
THEOREM RouterImplementsGate == Spec => GateImplemented
<1>1. Init => GateInv /\ LineInv
  BY GateInit, LineInit
<1>2. GateInv /\ LineInv /\ [Next]_vars => (GateInv /\ LineInv)'
  BY GateStep, LineStep
<1> QED
  BY <1>1, <1>2, GateStarts, GateSteps, PTL DEF Spec, GateImplemented, Gate!Spec

-----------------------------------------------------------------------------
(* Sub-requests go to registered workers *)

\* Workers that leave and come back are those the gateway was started with; the
\* sub-requests stay the ones of the prompts.
PostInv == reg \subseteq Worker /\ DOMAIN sub = Sub

\* A registry that is not empty has a first worker.
LEMMA FirstIsRegistered ==
  ASSUME reg \subseteq Worker, reg # {}
  PROVE  FirstRegistered \in reg
<1> DEFINE T == {i \in DOMAIN Url : Url[i] \in reg}
<1>1. Url \in Seq(Worker)
  BY RouterAssumption
<1>2. DOMAIN Url = 1 .. Len(Url) /\ Len(Url) \in Nat
  BY SMTT(30), <1>1
<1>3. T \subseteq Nat
  BY SMTT(30), <1>2
<1>4. T # {}
  BY DEF Worker, Range
<1>5. PICK i \in T : \A j \in T : ~(<<j, i>> \in OpToRel(<, Nat))
  <2> HIDE DEF T
  <2> QED BY <1>3, <1>4, NatLessThanWellFounded, WFMin
<1>6. \A j \in 1 .. i - 1 : Url[j] \notin reg
  <2> SUFFICES ASSUME NEW j \in 1 .. i - 1, Url[j] \in reg PROVE FALSE
    OBVIOUS
  <2>1. i \in Nat /\ i \in 1 .. Len(Url)
    BY <1>2, <1>3
  <2>2. j \in 1 .. Len(Url) /\ j < i /\ j \in Nat
    BY SMTT(30), <1>2, <2>1
  <2>3. j \in T
    BY <1>2, <2>2
  <2>4. <<j, i>> \in OpToRel(<, Nat)
    BY SMTT(30), <2>1, <2>2 DEF OpToRel
  <2> QED BY <1>5, <2>3, <2>4
<1>7. \E k \in DOMAIN Url : Url[k] \in reg /\ \A j \in 1 .. k - 1 : Url[j] \notin reg
  BY <1>5, <1>6
<1> QED BY <1>7 DEF FirstRegistered

\* Where a segment is posted, whatever the directory says.
LEMMA PostedIsRegistered ==
  ASSUME reg \subseteq Worker, reg # {}, NEW w
  PROVE  Posted(w) \in reg
BY FirstIsRegistered DEF Posted

\* The registry and the sub-requests keep their shape.
LEMMA PostStep == PostInv /\ [Next]_vars => PostInv'
<1> SUFFICES ASSUME PostInv, [Next]_vars PROVE PostInv'
  OBVIOUS
<1> USE DEF stateVars, gateVars, subVars, workVars
<1>1. reg' \subseteq Worker
  <2>1. ASSUME NEW w \in Worker, Register(w) PROVE reg' \subseteq Worker
    BY <2>1 DEF Register, PostInv
  <2>2. ASSUME NEW r \in Req, Acquire(r) PROVE reg' = reg
    BY <2>2 DEF Acquire
  <2>3. ASSUME NEW r \in Req,
               (\E w \in Worker : Arrive(r, w)) \/ Refuse(r) \/ NoWorkers(r) \/ Return(r)
                 \/ TimeOut(r) \/ Disconnect(r) \/ EngineEnds(r)
        PROVE  reg' = reg
    BY <2>3 DEF Arrive, Refuse, NoWorkers, Return, TimeOut, Disconnect, EngineEnds
  <2>4. ASSUME NEW k \in Sub, Land(k) \/ Warm(k) \/ Lose(k) PROVE reg' = reg
    BY <2>4 DEF Land, Warm, Lose
  <2>5. ASSUME NEW w \in Worker, NEW h \in Keys, Evict(w, h) PROVE reg' = reg
    BY <2>5 DEF Evict
  <2>6. ASSUME Rebuild \/ UNCHANGED vars PROVE reg' = reg
    BY <2>6 DEF Rebuild, RebuildStart, RebuildPoll, RebuildSwap, vars
  <2> QED BY <2>1, <2>2, <2>3, <2>4, <2>5, <2>6 DEF Next, Serve, PostInv
<1>2. DOMAIN sub' = Sub
  <2>1. ASSUME NEW r \in Req, Acquire(r) PROVE DOMAIN sub' = Sub
    BY <2>1 DEF Acquire
  <2>2. ASSUME NEW k \in Sub, Land(k) \/ Warm(k) \/ Lose(k) PROVE DOMAIN sub' = Sub
    BY <2>2 DEF Land, Warm, Lose, PostInv
  <2>3. ASSUME NEW r \in Req,
               (\E w \in Worker : Arrive(r, w)) \/ Refuse(r) \/ NoWorkers(r) \/ Return(r)
                 \/ TimeOut(r) \/ Disconnect(r) \/ EngineEnds(r)
        PROVE  sub' = sub
    BY <2>3 DEF Arrive, Refuse, NoWorkers, Return, TimeOut, Disconnect, EngineEnds
  <2>4. ASSUME NEW w \in Worker, Register(w) \/ \E h \in Keys : Evict(w, h) PROVE sub' = sub
    BY <2>4 DEF Register, Evict
  <2>5. ASSUME Rebuild \/ UNCHANGED vars PROVE sub' = sub
    BY <2>5 DEF Rebuild, RebuildStart, RebuildPoll, RebuildSwap, vars
  <2> QED BY <2>1, <2>2, <2>3, <2>4, <2>5 DEF Next, Serve, PostInv
<1> QED BY <1>1, <1>2 DEF PostInv

\* Only a handler that has its permit fires sub-requests.
LEMMA FireStep ==
  ASSUME PostInv, [Next]_vars, NEW k \in Sub, sub[k] = "none", sub'[k] = "fired"
  PROVE  target'[k] \in reg
<1> USE DEF stateVars, gateVars, subVars, workVars
<1>1. ASSUME NEW r \in Req, Acquire(r) PROVE target'[k] \in reg
  <2>1. k[1] = r
    BY <1>1 DEF Acquire
  <2>2. \E w : target'[k] = Posted(w)
    BY <1>1, <2>1 DEF Acquire
  <2>3. reg \subseteq Worker /\ reg # {}
    BY <1>1 DEF Acquire, PostInv
  <2> QED BY <2>2, <2>3, PostedIsRegistered
<1>2. ASSUME NEW j \in Sub, Land(j) \/ Warm(j) \/ Lose(j) PROVE FALSE
  BY <1>2 DEF Land, Warm, Lose, PostInv
<1>3. ASSUME NEW r \in Req,
             (\E w \in Worker : Arrive(r, w)) \/ Refuse(r) \/ NoWorkers(r) \/ Return(r)
               \/ TimeOut(r) \/ Disconnect(r) \/ EngineEnds(r)
      PROVE  sub' = sub
  BY <1>3 DEF Arrive, Refuse, NoWorkers, Return, TimeOut, Disconnect, EngineEnds
<1>4. ASSUME NEW w \in Worker, Register(w) \/ \E h \in Keys : Evict(w, h) PROVE sub' = sub
  BY <1>4 DEF Register, Evict
<1>5. ASSUME Rebuild \/ UNCHANGED vars PROVE sub' = sub
  BY <1>5 DEF Rebuild, RebuildStart, RebuildPoll, RebuildSwap, vars
<1> QED BY <1>1, <1>2, <1>3, <1>4, <1>5 DEF Next, Serve

\* scatter_prefill's fallback to the first worker: a sub-request goes to a worker that
\* is registered at that moment, whatever the directory names and whoever has left.
THEOREM PostedToRegistered == Spec => PostedRegistered
<1>1. Init => PostInv
  BY DEF Init, PostInv
<1>2. PostInv /\ [Next]_vars =>
        [\A k \in Sub : sub[k] = "none" /\ sub'[k] = "fired" => target'[k] \in reg]_vars
  BY FireStep
<1> QED BY <1>1, <1>2, PostStep, PTL DEF Spec, PostedRegistered

-----------------------------------------------------------------------------
(* The loads of the workers under pic_lpt *)

\* No two of these workers have loads further apart than d.
Within(loads, W, d) == \A v, w \in W : loads[v] - loads[w] <= d

\* What a pass over the segments of a prompt carries along.
Passes(W, n) ==
  [dir : [Keys -> W \cup {None}], cursor : Nat, loads : [W -> Nat], out : [1 .. n -> W \cup {None}]]

\* The least loaded worker of a list has the least load.
LEMMA LeastIsLeast ==
  ASSUME NEW W, NEW workers \in Seq(W), workers # <<>>, W = Range(workers), NEW loads \in [W -> Nat]
  PROVE  /\ LeastLoaded(workers, loads) \in W
         /\ \A w \in W : loads[LeastLoaded(workers, loads)] <= loads[w]
<1> DEFINE D == DOMAIN workers
           T == {loads[workers[i]] : i \in D}
<1>1. D = 1 .. Len(workers) /\ Len(workers) \in Nat /\ 1 \in D /\ \A i \in D : workers[i] \in W
  BY SMTT(30)
<1>2. T \subseteq Nat /\ T # {}
  BY <1>1
<1>3. PICK m \in T : \A y \in T : ~(<<y, m>> \in OpToRel(<, Nat))
  <2> HIDE DEF T
  <2> QED BY <1>2, NatLessThanWellFounded, WFMin
<1>4. \A y \in T : m <= y
  <2> SUFFICES ASSUME NEW y \in T PROVE m <= y
    OBVIOUS
  <2>1. m \in Nat /\ y \in Nat /\ ~(<<y, m>> \in OpToRel(<, Nat))
    BY <1>2, <1>3
  <2> QED BY SMTT(30), <2>1 DEF OpToRel
<1> DEFINE I == {i \in D : loads[workers[i]] = m}
<1>5. I \subseteq Nat /\ I # {}
  <2>1. D \subseteq Nat
    BY SMTT(30), <1>1
  <2> QED BY <2>1
<1>6. PICK i \in I : \A j \in I : ~(<<j, i>> \in OpToRel(<, Nat))
  <2> HIDE DEF I
  <2> QED BY <1>5, NatLessThanWellFounded, WFMin
<1>7. ASSUME NEW j \in D
      PROVE  \/ loads[workers[i]] < loads[workers[j]]
             \/ loads[workers[i]] = loads[workers[j]] /\ i <= j
  <2>1. loads[workers[i]] = m /\ m <= loads[workers[j]] /\ m \in Nat /\ loads[workers[j]] \in Nat
    BY <1>1, <1>2, <1>4
  <2>2. CASE loads[workers[j]] = m
    <3>1. j \in I /\ i \in Nat /\ j \in Nat /\ ~(<<j, i>> \in OpToRel(<, Nat))
      BY <1>5, <1>6, <2>2
    <3>2. i <= j
      BY SMTT(30), <3>1 DEF OpToRel
    <3> QED BY <2>1, <2>2, <3>2
  <2>3. CASE loads[workers[j]] # m
    <3>1. m < loads[workers[j]]
      BY SMTT(30), <2>1, <2>3
    <3> QED BY <2>1, <3>1
  <2> QED BY <2>2, <2>3
<1> DEFINE c == CHOOSE k \in DOMAIN workers :
                  \A j \in DOMAIN workers :
                    \/ loads[workers[k]] < loads[workers[j]]
                    \/ loads[workers[k]] = loads[workers[j]] /\ k <= j
<1>8. /\ c \in D
      /\ \A j \in D : \/ loads[workers[c]] < loads[workers[j]]
                      \/ loads[workers[c]] = loads[workers[j]] /\ c <= j
  BY <1>7
<1>9. LeastLoaded(workers, loads) = workers[c]
  BY DEF LeastLoaded
<1> HIDE DEF c
<1>10. ASSUME NEW w \in W PROVE loads[workers[c]] <= loads[w]
  <2>1. PICK j \in D : workers[j] = w
    BY DEF Range
  <2>2. loads[workers[c]] \in Nat /\ loads[w] \in Nat
    BY <1>1, <1>8
  <2>3. loads[workers[c]] < loads[w] \/ loads[workers[c]] = loads[w]
    BY <1>8, <2>1
  <2> QED BY SMTT(30), <2>2, <2>3
<1> QED BY <1>1, <1>8, <1>9, <1>10

\* A position that finds its segment in the directory, and one that does not.
LEMMA PassUpdate ==
  ASSUME NEW acc, NEW d, NEW c, NEW l, NEW o, NEW i, NEW h, NEW w, NEW z, NEW x,
         acc = [dir |-> d, cursor |-> c, loads |-> l, out |-> o]
  PROVE  /\ [acc EXCEPT !.out[i] = x] = [dir |-> d, cursor |-> c, loads |-> l, out |-> [o EXCEPT ![i] = x]]
         /\ [acc EXCEPT !.out[i] = w, !.dir[h] = w, !.loads[w] = @ + z]
              = [dir |-> [d EXCEPT ![h] = w], cursor |-> c, loads |-> [l EXCEPT ![w] = l[w] + z],
                 out |-> [o EXCEPT ![i] = w]]
<1> DEFINE d2 == [d EXCEPT ![h] = w]
           l2 == [l EXCEPT ![w] = l[w] + z]
           o2 == [o EXCEPT ![i] = w]
           a1 == [acc EXCEPT !.out[i] = w]
           a2 == [a1 EXCEPT !.dir[h] = w]
<1>1. [acc EXCEPT !.out[i] = x] = [dir |-> d, cursor |-> c, loads |-> l, out |-> [o EXCEPT ![i] = x]]
  BY SMTT(30)
<1>2. [acc EXCEPT !.out[i] = w, !.dir[h] = w, !.loads[w] = @ + z] = [a2 EXCEPT !.loads[w] = @ + z]
  OBVIOUS
<1>3. a1 = [dir |-> d, cursor |-> c, loads |-> l, out |-> o2]
  BY SMTT(30)
<1> HIDE DEF a1, o2
<1>4. a2 = [dir |-> d2, cursor |-> c, loads |-> l, out |-> o2]
  BY SMTT(30), <1>3
<1> HIDE DEF a2, d2
<1>5. [a2 EXCEPT !.loads[w] = @ + z] = [dir |-> d2, cursor |-> c, loads |-> l2, out |-> o2]
  BY SMTT(30), <1>4
<1> QED BY <1>1, <1>2, <1>5 DEF d2, o2

\* pic_lpt: one step of the pass over the missing segments keeps the loads of any two
\* workers within d of each other, for every list of workers, every state of the
\* directory and every segment no longer than d; what it carries along keeps its type.
\* This is the step of the induction behind LoadsBalanced.
THEOREM LeastKeepsBalance ==
  ASSUME NEW W, NEW workers \in Seq(W), workers # <<>>, W = Range(workers),
         NEW segs \in Seq(Seg), NEW acc \in Passes(W, Len(segs)), NEW i \in DOMAIN segs,
         NEW d \in Nat, Size[segs[i]] <= d, Within(acc.loads, W, d)
  PROVE  LET n == TakeLeast(workers, segs, acc, i)
         IN n \in Passes(W, Len(segs)) /\ Within(n.loads, W, d)
<1> DEFINE h == Hash[segs[i]]
           w == LeastLoaded(workers, acc.loads)
           z == Size[segs[i]]
           n == TakeLeast(workers, segs, acc, i)
<1>1. segs[i] \in Seg /\ h \in Keys /\ i \in 1 .. Len(segs)
  <2>1. segs[i] \in Seg /\ i \in 1 .. Len(segs)
    BY SMTT(30)
  <2> QED BY <2>1 DEF Keys
<1>2. z \in Nat /\ z <= d
  BY <1>1, RouterAssumption
<1>3. acc.loads \in [W -> Nat] /\ acc.dir \in [Keys -> W \cup {None}] /\ acc.out \in [1 .. Len(segs) -> W \cup {None}]
  BY SMTT(30) DEF Passes
<1> DEFINE e == acc.dir
           c == acc.cursor
           l == acc.loads
           o == acc.out
<1>4. acc = [dir |-> e, cursor |-> c, loads |-> l, out |-> o] /\ c \in Nat
  BY SMTT(30) DEF Passes
<1>5. w \in W /\ \A v \in W : acc.loads[w] <= acc.loads[v]
  BY <1>3, LeastIsLeast
<1>6. n = IF acc.dir[h] # None
            THEN [acc EXCEPT !.out[i] = acc.dir[h]]
            ELSE [acc EXCEPT !.out[i] = w, !.dir[h] = w, !.loads[w] = @ + z]
  BY DEF TakeLeast
<1> HIDE DEF n, w, z, h
<1>7. CASE acc.dir[h] # None
  <2>1. n = [acc EXCEPT !.out[i] = acc.dir[h]] /\ acc.dir[h] \in W \cup {None}
    BY <1>1, <1>3, <1>6, <1>7
  <2>2. n \in Passes(W, Len(segs)) /\ n.loads = acc.loads
    <3> DEFINE x == acc.dir[h]
    <3> HIDE DEF x, e, c, l, o
    <3>1. n = [acc EXCEPT !.out[i] = x]
      BY <2>1 DEF x
    <3>2. n = [dir |-> e, cursor |-> c, loads |-> l, out |-> [o EXCEPT ![i] = x]]
      BY <1>4, <3>1, PassUpdate
    <3>3. [o EXCEPT ![i] = x] \in [1 .. Len(segs) -> W \cup {None}]
      BY <1>1, <1>3, <2>1 DEF o, x
    <3>4. n \in Passes(W, Len(segs)) /\ n.loads = l
      BY <1>3, <1>4, <3>2, <3>3 DEF Passes, e, l
    <3> QED BY <3>4 DEF l
  <2> QED BY <2>2 DEF n
<1>8. CASE acc.dir[h] = None
  <2>1. n = [acc EXCEPT !.out[i] = w, !.dir[h] = w, !.loads[w] = @ + z]
    BY <1>6, <1>8
  <2>2. n \in Passes(W, Len(segs)) /\ n.loads = [acc.loads EXCEPT ![w] = acc.loads[w] + z]
    <3> HIDE DEF e, c, l, o
    <3>1. n = [dir |-> [e EXCEPT ![h] = w], cursor |-> c, loads |-> [l EXCEPT ![w] = l[w] + z],
               out |-> [o EXCEPT ![i] = w]]
      BY <1>4, <2>1, PassUpdate
    <3>2. /\ [o EXCEPT ![i] = w] \in [1 .. Len(segs) -> W \cup {None}]
          /\ [e EXCEPT ![h] = w] \in [Keys -> W \cup {None}]
      BY <1>1, <1>3, <1>5 DEF o, e
    <3>3. [l EXCEPT ![w] = l[w] + z] \in [W -> Nat]
      BY SMTT(30), <1>2, <1>3, <1>5 DEF l
    <3>4. n \in Passes(W, Len(segs)) /\ n.loads = [l EXCEPT ![w] = l[w] + z]
      BY <1>4, <3>1, <3>2, <3>3 DEF Passes
    <3> QED BY <3>4 DEF l
  <2>3. ASSUME NEW u \in W, NEW v \in W PROVE n.loads[u] - n.loads[v] <= d
    <3>1. /\ acc.loads[u] - acc.loads[v] <= d
          /\ acc.loads[u] \in Nat /\ acc.loads[v] \in Nat /\ acc.loads[w] \in Nat
          /\ acc.loads[w] <= acc.loads[v]
      BY <1>3, <1>5 DEF Within
    <3>2. /\ n.loads[u] = IF u = w THEN acc.loads[w] + z ELSE acc.loads[u]
          /\ n.loads[v] = IF v = w THEN acc.loads[w] + z ELSE acc.loads[v]
      BY <1>3, <2>2
    <3> QED BY SMTT(30), <1>2, <3>1, <3>2
  <2> QED BY <2>2, <2>3 DEF Within, n
<1> QED BY <1>7, <1>8

\* The rebuild halves every load (RebuildSwap), which keeps them as close.
LEMMA HalvingKeepsBalance ==
  ASSUME NEW W, NEW loads \in [W -> Nat], NEW d \in Nat, Within(loads, W, d)
  PROVE  Within([w \in W |-> loads[w] \div 2], W, d)
<1>1. \A a, b, c \in Nat : a - b <= c => (a \div 2) - (b \div 2) <= c
  BY SMTT(30)
<1> QED BY <1>1 DEF Within
=============================================================================
