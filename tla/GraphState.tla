------------------------------ MODULE GraphState ------------------------------
(***************************************************************************)
(* The graph the algorithms of algo/ read: entities 1..N and the edges     *)
(* between them, inserted one by one.  An algorithm reads through          *)
(* fetch_outgoing and fetch_incoming and writes nothing, so it is an       *)
(* operator on the set of edges; each reachable state is one more input.   *)
(* Edges have no twin here, and a type in Queries only.                    *)
(***************************************************************************)
EXTENDS Integers, FiniteSets, Sequences, FiniteSetsExt, SequencesExt

CONSTANTS
  N,           \* the entities are 1..N
  Insertable,  \* the edges clients insert
  Drawn(_)     \* bound: whether a graph is one of those drawn

Nodes == 1..N

ASSUME GraphAssumption == N \in Nat \ {0} /\ Insertable \subseteq Nodes \X Nodes

VARIABLE edges

NoNode == 0    \* None

\* fetch_outgoing, fetch_incoming
Succs(n, es) == {e[2] : e \in {f \in es : f[1] = n}}
Preds(n, es) == {e[1] : e \in {f \in es : f[2] = n}}
Reversed(es) == {<<e[2], e[1]>> : e \in es}

\* A set that grows by what step leads to from it, until that is nothing new.
Spread(step, from) ==
  LET Grown[S \in SUBSET DOMAIN step] ==
        LET more == UNION {step[n] : n \in S}
        IN  IF more \subseteq S THEN S ELSE Grown[S \cup more]
  IN  Grown[from]

\* reachable_from, the start included, and reverse_reachable_from.
ReachedFrom(n, es) == Spread([m \in {n} \cup {e[2] : e \in es} |-> Succs(m, es)], {n})
ReachedBackFrom(n, es) == ReachedFrom(n, Reversed(es))
UnreachableFrom(n, es) == Nodes \ ReachedFrom(n, es)

GraphInit == edges = {}
DrawEdge(e) ==
  /\ e \notin edges
  /\ Drawn(edges \cup {e})
  /\ edges' = edges \cup {e}
GraphNext == \E e \in Insertable : DrawEdge(e)
GraphSpec == GraphInit /\ [][GraphNext]_edges

\* There is a way from a to b: no set that edges do not leave parts them.
Way(a, b, es) ==
  \A S \in SUBSET Nodes :
    (a \in S /\ \A e \in es : e[1] \in S => e[2] \in S) => b \in S
Without(n, es) == {e \in es : n \notin {e[1], e[2]}}
=============================================================================
