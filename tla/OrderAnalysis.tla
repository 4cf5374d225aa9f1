----------------------------- MODULE OrderAnalysis ----------------------------
(***************************************************************************)
(* The algorithms of algo/ about components, orders and cycles: Tarjan's   *)
(* components and their condensation, Kahn's order and the cycle shown     *)
(* when there is none, the critical path, the weak components, the         *)
(* enumeration of cycles, the cycle basis, closure and reduction.          *)
(*                                                                         *)
(* Lists of neighbours and of entities are in the order of ids.  Where the *)
(* code starts from a hash map, every start is possible.                   *)
(***************************************************************************)
EXTENDS GraphState

CONSTANT WeightOf    \* the weight function clients pass to critical_path

ASSUME WeightAssumption == WeightOf \in [Insertable -> Int]

-----------------------------------------------------------------------------
Ordered(S) == SetToSortSeq(S, <)
Outgoing(n, es) == Ordered(Succs(n, es))
Low(a, b) == IF a < b THEN a ELSE b

(* strongly_connected_components *)

Unseen == [counter |-> 0, stack |-> <<>>, index |-> <<>>, lowlink |-> <<>>,
           components |-> <<>>]

Opened(v, s) ==
  [s EXCEPT !.counter = @ + 1, !.stack = Append(@, v),
            !.index = @ @@ (v :> s.counter), !.lowlink = @ @@ (v :> s.counter)]

\* A link that is lowered to whatever was seen last ...
Lowered_Last(v, s, bound) == [s EXCEPT !.lowlink[v] = bound]
\* ... and the code's, which keeps the lower one.
Lowered(v, s, bound) == [s EXCEPT !.lowlink[v] = Low(@, bound)]

\* If v is a root, what lies on the stack from v on is its component.
Closed(v, s) ==
  IF s.lowlink[v] # s.index[v] THEN s
  ELSE LET at == CHOOSE i \in 1..Len(s.stack) : s.stack[i] = v
       IN  [s EXCEPT !.stack = SubSeq(@, 1, at - 1),
                     !.components = Append(@, ToSet(SubSeq(s.stack, at, Len(s.stack))))]

RECURSIVE StrongConnect(_, _, _)
StrongConnect(v, s, es) ==
  LET Visit(t, w) ==
        IF w \notin DOMAIN t.index
        THEN LET u == StrongConnect(w, t, es) IN Lowered(v, u, u.lowlink[w])
        ELSE IF w \in ToSet(t.stack) THEN Lowered(v, t, t.index[w]) ELSE t
  IN  Closed(v, FoldLeft(Visit, Opened(v, s), Outgoing(v, es)))

Components(es) ==
  LET Visit(s, v) == IF v \in DOMAIN s.index THEN s ELSE StrongConnect(v, s, es)
  IN  FoldLeft(Visit, Unseen, Ordered(Nodes)).components

ComponentOf(n, comps) == CHOOSE i \in 1..Len(comps) : n \in comps[i]

\* build_condensed_dag
CondensedEdges(comps, es) ==
  {<<ComponentOf(e[1], comps), ComponentOf(e[2], comps)>> : e \in es}
    \ {<<i, i>> : i \in 1..Len(comps)}

-----------------------------------------------------------------------------
(* topological_sort *)

\* Kahn's queue, the nodes without edges into them in any order at first.
RECURSIVE Kahn(_, _, _, _)
Kahn(queue, degree, result, es) ==
  IF queue = <<>> THEN result
  ELSE LET n == Head(queue)
           less == [m \in Nodes |-> IF m \in Succs(n, es) THEN degree[m] - 1 ELSE degree[m]]
           free == {m \in Succs(n, es) : less[m] = 0}
       IN  Kahn(Tail(queue) \o Ordered(free), less, Append(result, n), es)
KahnFrom(queue, es) == Kahn(queue, [n \in Nodes |-> Cardinality(Preds(n, es))], <<>>, es)

Sources(es) == {n \in Nodes : Preds(n, es) = {}}
KahnResults(es) == {KahnFrom(q, es) : q \in SetToSeqs(Sources(es))}

\* extract_cycle_path: the first edge that stays in the component decides.
RECURSIVE CyclePath(_, _, _)
CyclePath(path, comp, es) ==
  LET inside == SelectSeq(Outgoing(Last(path), es), LAMBDA n : n \in comp)
      next == Head(inside)
      at == CHOOSE i \in 1..Len(path) : path[i] = next
  IN  CASE next = path[1] -> Append(path, next)
        [] next \notin ToSet(path) -> CyclePath(Append(path, next), comp, es)
        [] OTHER -> SubSeq(path, at, Len(path))

\* The possible answers: an order, or the cycle the error shows (none for an
\* edge of a node to itself, which only Kahn's count notices).
TopologicalSort(es) ==
  LET cyclic == SelectSeq(Components(es), LAMBDA c : Cardinality(c) > 1)
  IN  IF cyclic # <<>>
      THEN {[ok |-> FALSE, nodes |-> CyclePath(<<n>>, cyclic[1], es)] : n \in cyclic[1]}
      ELSE {IF Len(r) = N THEN [ok |-> TRUE, nodes |-> r] ELSE [ok |-> FALSE, nodes |-> <<>>] :
              r \in KahnResults(es)}

-----------------------------------------------------------------------------
(* critical_path *)

\* The edges out of u relaxed with the last distance ...
Relaxed_Last(s, u, es) ==
  [dist |-> [v \in Nodes |-> IF v \in Succs(u, es) THEN s.dist[u] + WeightOf[<<u, v>>]
                             ELSE s.dist[v]],
   pred |-> [v \in Nodes |-> IF v \in Succs(u, es) THEN u ELSE s.pred[v]]]
\* ... and with the larger one.
Relaxed(s, u, es) ==
  LET longer == {v \in Succs(u, es) : s.dist[u] + WeightOf[<<u, v>>] > s.dist[v]}
  IN  [dist |-> [v \in Nodes |-> IF v \in longer THEN s.dist[u] + WeightOf[<<u, v>>]
                                 ELSE s.dist[v]],
       pred |-> [v \in Nodes |-> IF v \in longer THEN u ELSE s.pred[v]]]

RECURSIVE Backwards(_, _)
Backwards(n, pred) == IF n = NoNode THEN <<>> ELSE Append(Backwards(pred[n], pred), n)

\* The answer for one order, ending at any of the farthest nodes.
CriticalPaths(order, es) ==
  LET start == [dist |-> [n \in Nodes |-> 0], pred |-> [n \in Nodes |-> NoNode]]
      s == FoldLeft(LAMBDA t, u : Relaxed(t, u, es), start, order)
      far == Max({s.dist[n] : n \in Nodes})
      ends == IF far = 0 THEN {Head(order)} ELSE {n \in Nodes : s.dist[n] = far}
  IN  {[distance |-> far,
        path |-> IF far = 0 THEN <<n>> ELSE Backwards(n, s.pred)] : n \in ends}

-----------------------------------------------------------------------------
(* Cycles *)

\* weakly_connected_components, in the order of their first nodes.
Undirected(es) == es \cup Reversed(es)
WeakComponents(es) ==
  LET Visit(found, n) == IF \E c \in ToSet(found) : n \in c THEN found
                         ELSE Append(found, ReachedFrom(n, Undirected(es)))
  IN  FoldLeft(Visit, <<>>, Ordered(Nodes))

\* find_cycles_limited: the paths on the stack are extended last in, first out.
\* Every edge back to the start is a cycle, and the limit counts cycles.
RECURSIVE CyclesFrom(_, _, _, _)
CyclesFrom(stack, found, limit, es) ==
  IF stack = <<>> \/ Len(found) >= limit THEN found
  ELSE LET path == Last(stack)
           next == Outgoing(Last(path), es)
           back == Len(path) > 1 /\ path[1] \in ToSet(next)
           new == SelectSeq(next, LAMBDA n : n \notin ToSet(path))
       IN  CyclesFrom(Front(stack) \o [i \in 1..Len(new) |-> Append(path, new[i])],
                      IF back THEN Append(found, Append(path, path[1])) ELSE found,
                      limit, es)
FindCycles(limit, es) ==
  FoldLeft(LAMBDA found, n : CyclesFrom(<<<<n>>>>, found, limit, es), <<>>, Ordered(Nodes))

\* normalize_cycles rotates the closed path as it is, with its start twice.
Normalized(c) ==
  LET at == CHOOSE i \in 1..Len(c) :
              /\ c[i] = Min(ToSet(c))
              /\ \A j \in 1..(i - 1) : c[j] # c[i]
  IN  SubSeq(c, at, Len(c)) \o SubSeq(c, 1, at - 1)

\* cycle_basis, per component: a depth-first search from any node of it, each
\* edge to a node it is still in giving a cycle.
ToRoot(n, parent) ==
  LET up[i \in 0..N] == IF i = 0 THEN n
                        ELSE IF up[i - 1] = NoNode THEN NoNode ELSE parent[up[i - 1]]
  IN  SelectSeq([i \in 1..(N + 1) |-> up[i - 1]], LAMBDA m : m # NoNode)

\* extract_cycle_from_back_edge: down from the root to u, then down to v, and
\* to the root, the common ancestor it takes being the one farthest up.
BackEdgeCycle(u, v, parent) ==
  IF u = v THEN <<u, u>>
  ELSE Reverse(ToRoot(u, parent)) \o Tail(Reverse(ToRoot(v, parent)))
         \o <<Last(ToRoot(u, parent))>>

RECURSIVE CycleSearch(_, _, _, _)
CycleSearch(n, s, comp, es) ==
  LET Visit(t, m) ==
        CASE m \notin comp -> t
          [] m \in comp /\ m \notin t.visited ->
               CycleSearch(m, [t EXCEPT !.parent[m] = n], comp, es)
          [] m \in comp /\ m \in t.visited /\ m \in t.inside ->
               [t EXCEPT !.cycles = @ \cup {BackEdgeCycle(n, m, t.parent)}]
          [] OTHER -> t
      done == FoldLeft(Visit, [s EXCEPT !.visited = @ \cup {n}, !.inside = @ \cup {n}],
                       Outgoing(n, es))
  IN  [done EXCEPT !.inside = @ \ {n}]

CyclesOf(root, comp, es) ==
  CycleSearch(root, [visited |-> {}, inside |-> {}, cycles |-> {},
                     parent |-> [n \in Nodes |-> NoNode]], comp, es).cycles
CycleBasis(roots, es) ==
  LET comps == ToSet(Components(es))
  IN  {<<n, n>> : n \in {m \in Nodes : {m} \in comps /\ <<m, m>> \in es}}
        \cup UNION {CyclesOf(roots[c], c, es) : c \in {d \in comps : Cardinality(d) > 1}}

-----------------------------------------------------------------------------
(* Closure and reduction *)

\* transitive_closure from the first maxSources entities, depth steps deep: a
\* node is queued while its depth is below the bound.
RECURSIVE WithinDepth(_, _, _, _)
WithinDepth(visited, front, depth, es) ==
  IF depth = 0 \/ front = {} THEN visited
  ELSE LET next == UNION {Succs(n, es) : n \in front} \ visited
       IN  WithinDepth(visited \cup next, next, depth - 1, es)
Closure(maxSources, maxDepth, es) ==
  UNION {{<<n, m>> : m \in WithinDepth({n}, {n}, maxDepth, es)} : n \in 1..Low(maxSources, N)}

\* transitive_reduction: an edge goes when the closure has a pair from its
\* start to a node other than its end from where the end is in the closure.
TransitiveReduction(es) ==
  LET closure == Closure(N, N, es)
  IN  {e \in es : ~\E p \in closure : p[1] = e[1] /\ p[2] # e[2] /\ <<p[2], e[2]>> \in closure}

-----------------------------------------------------------------------------
(* Properties *)

Cyclic(es) == \E e \in es : Way(e[2], e[1], es)
\* A way along edges, and one that comes back to its start.
IsWay(p, es) == \A i \in 1..(Len(p) - 1) : <<p[i], p[i + 1]>> \in es
IsCycle(p, es) ==
  /\ Len(p) > 0 /\ IsWay(p, es)
  /\ (Len(p) > 1 /\ Last(p) = Head(p)) \/ <<Last(p), Head(p)>> \in es
Simple(p) == \A i, j \in 1..Len(p) : p[i] = p[j] => i = j

StrongRight(comps, es) ==
  /\ \A n \in Nodes :
       /\ Cardinality({i \in 1..Len(comps) : n \in comps[i]}) = 1
       /\ comps[ComponentOf(n, comps)] = {m \in Nodes : Way(n, m, es) /\ Way(m, n, es)}
  /\ \A e \in CondensedEdges(comps, es) : e[2] < e[1]

WeakRight(weak, es) ==
  \A n \in Nodes : \E i \in 1..Len(weak) :
    /\ weak[i] = {m \in Nodes : Way(n, m, Undirected(es))}
    /\ \A j \in 1..Len(weak) : n \in weak[j] => i = j

BasisRight(comps, es) ==
  \A roots \in {f \in [comps -> Nodes] : \A c \in comps : f[c] \in c} :
    /\ CycleBasis(roots, es) = {} <=> ~Cyclic(es)
    /\ \A c \in CycleBasis(roots, es) : \E d \in comps : ToSet(c) \subseteq d

ClosureRight(es) ==
  /\ Closure(N, N, es) = {p \in Nodes \X Nodes : Way(p[1], p[2], es)}
  /\ Closure(2, 1, es) = {<<n, n>> : n \in 1..Low(2, N)} \cup {e \in es : e[1] <= 2}

(***************************************************************************)
(* strongly_connected_components lists each node once, together with the   *)
(* nodes it has a way to and from, so that no edge of the condensation     *)
(* goes to a later component; weak components are the nodes joined by      *)
(* edges of either direction.  cycle_basis, from whatever node of a        *)
(* component it starts, is empty only when there is no cycle and never     *)
(* leaves a component.  The closure has the pairs with a way from one to   *)
(* the other, within its bounds.                                           *)
(***************************************************************************)
ComponentsRight ==
  LET comps == Components(edges)
  IN  /\ StrongRight(comps, edges)
      /\ WeakRight(WeakComponents(edges), edges)
      /\ BasisRight(ToSet(comps), edges)
      /\ ClosureRight(edges)

Length(p) ==
  FoldLeft(LAMBDA d, i : d + WeightOf[<<p[i], p[i + 1]>>], 0, [i \in 1..(Len(p) - 1) |-> i])
SimplePaths == UNION {{p \in [1..k -> Nodes] : Simple(p)} : k \in 1..N}

OrderRight(r, paths, es) ==
  /\ r.ok = ~Cyclic(es)
  /\ r.ok =>
       /\ Len(r.nodes) = N /\ ToSet(r.nodes) = Nodes
       /\ \A i, j \in 1..N : <<r.nodes[i], r.nodes[j]>> \in es => i < j
       /\ \A c \in CriticalPaths(r.nodes, es) :
            /\ c.path \in paths
            /\ c.distance = Length(c.path)
            /\ \A p \in paths : Length(p) <= c.distance
  /\ ~r.ok => r.nodes = <<>> \/ IsCycle(r.nodes, es)

CyclesListed(simple, es) ==
  LET all == FindCycles(1000, es)
  IN  /\ Len(all) = Cardinality(simple)
      /\ ToSet(all) = {Append(p, Head(p)) : p \in simple}
      /\ FindCycles(2, es) = SubSeq(all, 1, Low(2, Len(all)))
      /\ \A i \in 1..Len(all) : Head(Normalized(all[i])) = Min(ToSet(all[i]))

(***************************************************************************)
(* topological_sort orders every graph without cycles, whatever order the  *)
(* hash map gives it, and refuses every other; what it shows of one with a *)
(* cycle through several nodes is a cycle.  The critical path it leads to  *)
(* is as long as the longest path, and its edges add up to its length.     *)
(* find_cycles_limited finds every simple cycle of two nodes or more once  *)
(* per node on it, and with a limit the first ones of these.               *)
(***************************************************************************)
OrdersRight ==
  LET paths == {p \in SimplePaths : IsWay(p, edges)}
  IN  /\ \A r \in TopologicalSort(edges) : OrderRight(r, paths, edges)
      /\ CyclesListed({p \in paths : Len(p) > 1 /\ IsCycle(p, edges)}, edges)
=============================================================================
