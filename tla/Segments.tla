------------------------------ MODULE Segments ------------------------------
(***************************************************************************)
(* How the router and an engine cut one prompt into segments, and what     *)
(* becomes of a scattered segment that they know by its position only.     *)
(*                                                                         *)
(* A prompt is the sequence of its parts between separators. The engine    *)
(* reserves room for its own segment at a position, a worker fills it with *)
(* the router's segment at that position.                                  *)
(***************************************************************************)
EXTENDS Integers, Sequences, FiniteSets, SequencesExt

CONSTANTS
  Text,      \* parts with something to read
  Blank,     \* parts of white space
  Empty,     \* the empty part
  Tokens,    \* Tokens[p]: number of tokens of a part
  MaxParts,  \* bound: parts of a prompt
  None

Parts == Text \cup Blank \cup {Empty}

VARIABLES
  prompt,  \* the parts
  stage,   \* new, native (not scattered), scattered, parked or run
  room,    \* _pic_scatter_pending of the combine engine, by position
  fired,   \* the positions whose worker has not written yet
  cache    \* cache[p]: what the entry under p's hash holds, or None

vars == <<prompt, stage, room, fired, cache>>

\* faulty: empty parts are kept
RouterSegments_All(p) == p
\* scatter_prefill: what is left of the split after white space is dropped
RouterSegments(p) == SelectSeq(p, LAMBDA s : s \notin Blank \cup {Empty})
\* split_and_tokenize: the parts with at least one token
EngineSegments(p) == SelectSeq(p, LAMBDA s : Tokens[s] > 0)

\* faulty: the first segment is left out
Scattered_Tail(p) == 2 .. Len(RouterSegments(p)) - 1
\* the positions that are scattered: all but the query
Scattered(p) == 1 .. Len(RouterSegments(p)) - 1
\* the segments the combine request waits for: all but the last
Gated(p) == Range(Front(EngineSegments(p)))

Init ==
  /\ prompt \in UNION {[1 .. n -> Parts] : n \in 2 .. MaxParts}
  /\ stage = "new" /\ fired = {}
  /\ room = [i \in 1 .. MaxParts |-> None] /\ cache = [p \in Parts |-> None]

\* the router fires the sub-requests, or leaves the request to the normal path
Dispatch ==
  /\ stage = "new"
  /\ IF Len(RouterSegments(prompt)) < 2
       THEN stage' = "native" /\ UNCHANGED fired
       ELSE stage' = "scattered" /\ fired' = Scattered(prompt)
  /\ UNCHANGED <<prompt, room, cache>>

\* the combine request arrives: room is reserved for the engine's segment at each
\* position of the table, and the request is parked
Arrive ==
  LET segs == EngineSegments(prompt)
  IN /\ stage = "scattered"
     /\ stage' = "parked"
     /\ room' = [i \in 1 .. MaxParts |->
                   IF i \in Scattered(prompt) \cap DOMAIN segs THEN segs[i] ELSE None]
     /\ UNCHANGED <<prompt, fired, cache>>

\* a worker writes its segment into the room of its position; the number of
\* tokens must fit, or firing raises and the segment never arrives
Write(i) ==
  LET s == RouterSegments(prompt)[i]
  IN /\ stage = "parked" /\ i \in fired
     /\ fired' = fired \ {i}
     /\ cache' = IF room[i] # None /\ Tokens[room[i]] = Tokens[s] /\ cache[room[i]] = None
                   THEN [cache EXCEPT ![room[i]] = s] ELSE cache
     /\ UNCHANGED <<prompt, stage, room>>

\* all gated segments are cached
Release ==
  /\ stage = "parked" /\ \A p \in Gated(prompt) : cache[p] # None
  /\ stage' = "run"
  /\ UNCHANGED <<prompt, room, fired, cache>>

Next == Dispatch \/ Arrive \/ Release \/ \E i \in 1 .. MaxParts : Write(i)
Spec == Init /\ [][Next]_vars
\* the router, the engines and the transfers go on
FairSpec == Spec /\ WF_vars(Next)

----------------------------------------------------------------------------
\* inject_received_segment registers what was written under the hash of the
\* engine's own tokens: the entry holds the segment it is found by.
CacheTruthful == \A p \in Parts : cache[p] \in {None, p}

\* The gate waits for the engine's segments, the router sends its own: every
\* prompt is released, with nothing lost on the way.
GateOpens == <>(stage \in {"run", "native"})
=============================================================================
