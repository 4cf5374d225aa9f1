------------------------------ MODULE Traversals ------------------------------
(***************************************************************************)
(* The walks of the backends over a graph that is not written meanwhile:   *)
(* bfs, k_hop, shortest_path and chain_query of V3Backend and of the       *)
(* SQLite backend, parallel_bfs, impact_radius and taint propagation.      *)
(*                                                                         *)
(* The SQLite backend reads neighbours in the order of ids, the V3 backend *)
(* in the order in which the edges were inserted, which may be any.        *)
(***************************************************************************)
EXTENDS OrderAnalysis

\* The neighbours a walk reads: n -> the list of n's.
Rising(es) == [n \in Nodes |-> Outgoing(n, es)]
Falling(es) == [n \in Nodes |-> Reverse(Outgoing(n, es))]

-----------------------------------------------------------------------------
(* bfs, k_hop *)

\* The visits [node, depth] of a queue, a node being marked when it is taken ...
RECURSIVE Visits(_, _, _, _, _)
RECURSIVE Visits_MarkedLate(_, _, _, _, _)
Visits_MarkedLate(queue, seen, done, depth, out) ==
  IF queue = <<>> THEN done
  ELSE LET v == Head(queue)
           new == IF v.depth < depth
                  THEN SelectSeq(out[v.node], LAMBDA n : n \notin seen) ELSE <<>>
       IN  Visits(Tail(queue) \o [i \in 1..Len(new) |-> [node |-> new[i], depth |-> v.depth + 1]],
                  seen \cup {v.node}, Append(done, v), depth, out)
\* ... and when it is queued, as the code does.
Visits(queue, seen, done, depth, out) ==
  IF queue = <<>> THEN done
  ELSE LET v == Head(queue)
           new == IF v.depth < depth
                  THEN SelectSeq(out[v.node], LAMBDA n : n \notin seen) ELSE <<>>
       IN  Visits(Tail(queue) \o [i \in 1..Len(new) |-> [node |-> new[i], depth |-> v.depth + 1]],
                  seen \cup ToSet(new), Append(done, v), depth, out)
VisitsFrom(starts, depth, out) ==
  Visits([i \in 1..Len(starts) |-> [node |-> starts[i], depth |-> 0]],
         ToSet(starts), <<>>, depth, out)

NodesOf(visits) == [i \in 1..Len(visits) |-> visits[i].node]
Beyond(visits) == SelectSeq(visits, LAMBDA v : v.depth > 0)

\* V3Backend::bfs, which the filtered one forwards to, and bfs_neighbors.
Bfs(start, depth, out) == NodesOf(VisitsFrom(<<start>>, depth, out))

\* V3Backend::k_hop keeps the order of the queue, and has the start at depth 0.
KHop(start, depth, out) ==
  IF depth = 0 THEN <<start>> ELSE NodesOf(Beyond(VisitsFrom(<<start>>, depth, out)))

\* k_hop and k_hop_multi of the SQLite backend sort by depth and id.
KHopMulti(starts, depth, out) ==
  NodesOf(SortSeq(Beyond(VisitsFrom(starts, depth, out)),
                  LAMBDA v, w : v.depth < w.depth \/ (v.depth = w.depth /\ v.node < w.node)))
KHopSorted(start, depth, out) == KHopMulti(<<start>>, depth, out)

-----------------------------------------------------------------------------
(* shortest_path *)

\* The parents set until end has one, or the queue is empty.
RECURSIVE Parents(_, _, _, _)
Parents(queue, parent, end, out) ==
  IF queue = <<>> \/ end \in DOMAIN parent THEN parent
  ELSE LET n == Head(queue)
           new == SelectSeq(out[n], LAMBDA m : m \notin DOMAIN parent)
       IN  Parents(Tail(queue) \o new, parent @@ [m \in ToSet(new) |-> n], end, out)

ShortestPath(start, end, out) ==
  LET parent == Parents(<<start>>, start :> NoNode, end, out)
  IN  IF end \in DOMAIN parent THEN Backwards(end, parent) ELSE <<>>

-----------------------------------------------------------------------------
(* chain_query: one list of neighbours per step.  V3Backend keeps what is   *)
(* found several times, the SQLite backend does not.                       *)

Chain(start, steps) ==
  FoldLeft(LAMBDA found, out : FlattenSeq([i \in 1..Len(found) |-> out[found[i]]]),
           <<start>>, steps)
ChainSorted(start, steps) ==
  FoldLeft(LAMBDA found, out : Ordered(UNION {ToSet(out[found[i]]) : i \in 1..Len(found)}),
           <<start>>, steps)

-----------------------------------------------------------------------------
(* parallel_bfs *)

\* Chunks of equal size, the last one smaller; a short level is one chunk.
PartitionNodes(level, chunks) ==
  LET size == (Len(level) + chunks - 1) \div chunks
  IN  IF Len(level) <= chunks THEN <<level>>
      ELSE [i \in 1..((Len(level) + size - 1) \div size) |->
              SubSeq(level, (i - 1) * size + 1, Low(i * size, Len(level)))]

\* What the chunks find, each in the order of its hash map, merged in order.
Merged(chunks, visited, es) ==
  LET Found(chunk) == UNION {Succs(chunk[i], es) : i \in 1..Len(chunk)} \ visited
      Merge(levels, chunk) ==
        UNION {{level \o SelectSeq(order, LAMBDA n : n \notin ToSet(level)) :
                  order \in SetToSeqs(Found(chunk))} : level \in levels}
  IN  FoldLeft(Merge, {<<>>}, chunks)

RECURSIVE Levels(_, _, _, _, _)
Levels(level, distance, done, chunks, es) ==
  IF level = <<>> THEN {done}
  ELSE UNION {Levels(next, distance + 1,
                     done \o [i \in 1..Len(next) |-> [node |-> next[i], depth |-> distance + 1]],
                     chunks, es) :
                next \in Merged(PartitionNodes(level, chunks), ToSet(NodesOf(done)), es)}
ParallelBfs(start, chunks, es) ==
  Levels(<<start>>, 0, <<[node |-> start, depth |-> 0]>>, chunks, es)

-----------------------------------------------------------------------------
(* impact_radius: the distances, and the nodes taken from the queue; a      *)
(* queued node carries the distance and the hops it was queued with.       *)

RECURSIVE Relaxing(_, _, _, _, _)
Relaxing(queue, dist, zone, limits, out) ==
  IF queue = <<>> THEN [distances |-> dist, zone |-> zone]
  ELSE LET q == Head(queue)
           At(n) == q.dist + limits.cost[<<q.node, n>>]
           nearer == SelectSeq(out[q.node], LAMBDA n :
                       /\ At(n) <= limits.distance
                       /\ q.hops + 1 <= limits.hops
                       /\ n \in DOMAIN dist => At(n) < dist[n])
           items == [i \in 1..Len(nearer) |->
                       [node |-> nearer[i], dist |-> At(nearer[i]), hops |-> q.hops + 1]]
       IN  IF q.dist > limits.distance
           THEN Relaxing(Tail(queue), dist, zone, limits, out)
           ELSE Relaxing(Tail(queue) \o items, [n \in ToSet(nearer) |-> At(n)] @@ dist,
                         zone \cup {q.node}, limits, out)
ImpactRadius(source, limits, out) ==
  LET r == Relaxing(<<[node |-> source, dist |-> 0, hops |-> 0]>>, source :> 0, {source},
                    limits, out)
  IN  [distances |-> r.distances, zone |-> r.zone,
       boundary |-> {n \in DOMAIN r.distances : r.distances[n] = limits.distance}]

-----------------------------------------------------------------------------
(* Taint *)

CanReach(from, to, es) == from = to \/ to \in ReachedFrom(from, es)

TaintForward(sources, sinks, es) ==
  LET tainted == UNION {ReachedFrom(s, es) : s \in sources}
  IN  [tainted |-> tainted, sinks |-> sinks \cap tainted,
       paths |-> {p \in sources \X (sinks \cap tainted) : CanReach(p[1], p[2], es)}]
TaintBackward(sink, sources, es) ==
  LET ancestors == ReachedBackFrom(sink, es)
  IN  [tainted |-> ancestors, sources |-> sources \cap ancestors]
SinkReachability(sources, sinks, es) ==
  LET Affecting(k) == TaintBackward(k, sources, es).sources
  IN  [k \in {s \in sinks : Affecting(s) # {}} |-> Affecting(k)]
-----------------------------------------------------------------------------
(* Properties *)

\* The ways from a node, and the length of a shortest one to n, N if there is none.
From(a, paths) == {p \in paths : Head(p) = a}
Apart(n, ways) == Min({N} \cup {Len(p) - 1 : p \in {q \in ways : Last(q) = n}})

\* Every node away far at most is visited once, at its distance, nearest first.
VisitsRight(visits, away, far) ==
  /\ ToSet(visits) = {[node |-> n, depth |-> away[n]] : n \in {m \in DOMAIN away : away[m] <= far}}
  /\ \A i, j \in 1..Len(visits) :
       /\ i < j => visits[i].depth <= visits[j].depth
       /\ visits[i].node = visits[j].node => i = j

HopsRight(start, ways, es) ==
  LET away == [n \in Nodes |-> Apart(n, ways)]
  IN  \A depth \in 0..(N - 1) : \A out \in {Rising(es), Falling(es)} :
        LET hops == KHopSorted(start, depth, out)
        IN  /\ VisitsRight(VisitsFrom(<<start>>, depth, out), away, depth)
            /\ ToSet(hops) = {n \in Nodes \ {start} : away[n] <= depth}
            /\ Len(hops) = Cardinality(ToSet(hops))
            /\ \A i \in 1..(Len(hops) - 1) :
                 away[hops[i]] < away[hops[i + 1]] \/ hops[i] < hops[i + 1]
            /\ depth > 0 => ToSet(KHop(start, depth, out)) = ToSet(hops)
MultiRight(paths, es) ==
  \A depth \in 0..2 :
    ToSet(KHopMulti(<<1, 2, 1>>, depth, Rising(es))) =
      {n \in Nodes \ {1, 2} : \E a \in {1, 2} : Apart(n, From(a, paths)) <= depth}

ShortestRight(start, end, ways, es) ==
  \A out \in {Rising(es), Falling(es)} :
    LET p == ShortestPath(start, end, out)
    IN  IF Apart(end, ways) = N THEN p = <<>>
        ELSE /\ p \in ways /\ Last(p) = end
             /\ Len(p) - 1 = Apart(end, ways)

ChainRight(start, es) ==
  LET steps == <<Rising(es), Rising(Reversed(es)), Rising(es)>>
      ends == {n \in Nodes : \E a, b \in Nodes : {<<start, a>>, <<b, a>>, <<b, n>>} \subseteq es}
  IN  ToSet(Chain(start, steps)) = ends /\ ChainSorted(start, steps) = Ordered(ends)

\* A fifth entity is put in front of three, so that a level has two chunks.
ParallelRight(paths, es) ==
  LET away == [n \in Nodes \cup {N + 1} |->
                 IF n = N + 1 THEN 0 ELSE 1 + Min({Apart(n, From(m, paths)) : m \in 1..(N - 1)})]
  IN  \A chunks \in {1, 2} :
        \A visits \in ParallelBfs(N + 1, chunks, es \cup {<<N + 1, m>> : m \in 1..(N - 1)}) :
          VisitsRight(visits, away, N)

\* The cost of an edge: its weight, if that is not negative.
Costs == [e \in Insertable |-> IF WeightOf[e] < 0 THEN 0 ELSE WeightOf[e]]
ImpactRight(source, paths, es) ==
  \A far \in {2, 3} : \A hops \in {2, N} :
    LET r == ImpactRadius(source, [distance |-> far, hops |-> hops, cost |-> Costs], Rising(es))
        Cost(p) == FoldLeft(LAMBDA d, i : d + Costs[<<p[i], p[i + 1]>>], 0,
                            [i \in 1..(Len(p) - 1) |-> i])
        ways == {p \in paths : Head(p) = source /\ Len(p) - 1 <= hops /\ Cost(p) <= far}
        near == {Last(p) : p \in ways}
    IN  /\ r.distances = [n \in near |-> Min({Cost(p) : p \in {q \in ways : Last(q) = n}})]
        /\ r.zone = near
        /\ r.boundary = {n \in near : r.distances[n] = far}

TaintRight(paths, es) ==
  \A sources \in {{1}, {1, 3}} : \A sinks \in {{4}, {3, 4}} :
    LET forward == TaintForward(sources, sinks, es)
        reach == SinkReachability(sources, sinks, es)
    IN  /\ forward.paths = {p \in sources \X sinks : Apart(p[2], From(p[1], paths)) < N}
        /\ forward.paths = UNION {{<<s, k>> : s \in reach[k]} : k \in DOMAIN reach}
        /\ DOMAIN reach = forward.sinks

(***************************************************************************)
(* bfs of both backends lists the nodes within its depth, each once and    *)
(* nearest first, whatever the order of the neighbour lists; the two       *)
(* k_hops list the same nodes from depth 1 on, the SQLite one in the order *)
(* of distance and id.  shortest_path is a way from its start to its end   *)
(* that no other is shorter than, and none when there is none.  The two    *)
(* chain_queries end at the nodes the steps lead to.  parallel_bfs visits  *)
(* what bfs does, however its threads' finds are ordered.  impact_radius   *)
(* with costs that are not negative has the distances within its bounds,   *)
(* and forward and backward taint find the same pairs.                     *)
(***************************************************************************)
TraversalsRight ==
  LET paths == {p \in SimplePaths : IsWay(p, edges)}
  IN  /\ \A a \in Nodes :
           LET ways == From(a, paths)
           IN  /\ HopsRight(a, ways, edges) /\ ChainRight(a, edges)
               /\ \A b \in Nodes : ShortestRight(a, b, ways, edges)
      /\ MultiRight(paths, edges)
      /\ ParallelRight(paths, edges)
      /\ ImpactRight(1, paths, edges)
      /\ TaintRight(paths, edges)
=============================================================================
