----------------------------- MODULE Admission -----------------------------
(***************************************************************************)
(* What an admission gate promises: each lane admits its clients in the    *)
(* order in which they came, no more than Cap of them at a time, and a     *)
(* client is in one place only.                                            *)
(***************************************************************************)
EXTENDS Integers, Sequences, FiniteSets

CONSTANTS Client, Lane, Cap

VARIABLES
  line,  \* line[w]: the clients that wait at w, in order
  open   \* open[w]: the clients w has admitted

vars == <<line, open>>

Waiting(w) == {line[w][i] : i \in DOMAIN line[w]}

Init == line = [w \in Lane |-> <<>>] /\ open = [w \in Lane |-> {}]

Enter(r, w) ==
  /\ \A v \in Lane : r \notin open[v] /\ r \notin Waiting(v)
  /\ line' = [line EXCEPT ![w] = Append(@, r)]
  /\ UNCHANGED open

\* the first in line is admitted, or turned away when its turn comes
Turn(w) ==
  /\ line[w] # <<>> /\ Cardinality(open[w]) < Cap
  /\ line' = [line EXCEPT ![w] = Tail(@)]
  /\ \/ open' = [open EXCEPT ![w] = @ \cup {Head(line[w])}]
     \/ UNCHANGED open

\* a client gives up, and those behind it move up
Quit(w, i) ==
  /\ i \in DOMAIN line[w]
  /\ line' = [line EXCEPT ![w] = SubSeq(@, 1, i - 1) \o SubSeq(@, i + 1, Len(@))]
  /\ UNCHANGED open

Leave(r, w) ==
  /\ r \in open[w]
  /\ open' = [open EXCEPT ![w] = @ \ {r}]
  /\ UNCHANGED line

Next ==
  \E w \in Lane : \/ Turn(w)
                  \/ \E i \in DOMAIN line[w] : Quit(w, i)
                  \/ \E r \in Client : Enter(r, w) \/ Leave(r, w)

Spec == Init /\ [][Next]_vars
=============================================================================
