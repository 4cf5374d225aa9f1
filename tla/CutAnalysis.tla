------------------------------ MODULE CutAnalysis -----------------------------
(***************************************************************************)
(* The cuts and partitions of algo/cut_partition.rs.  A cut comes from a   *)
(* flow: the network keeps, for every edge, an entry in the list of its    *)
(* start and one of capacity 0 in the list of its end, and an entry is     *)
(* looked up by the first one in the list with the same target.  A round   *)
(* that finds a path and adds no flow to it repeats for ever.              *)
(***************************************************************************)
EXTENDS OrderAnalysis

-----------------------------------------------------------------------------
(* FlowNetwork and edmonds_karp *)

Listed(net, n) == IF n \in DOMAIN net THEN net[n] ELSE <<>>
Entry(to, capacity) == [to |-> to, capacity |-> capacity, flow |-> 0]
Residual(entry) == entry.capacity - entry.flow
With(net, n, entry) == (n :> Append(Listed(net, n), entry)) @@ net

\* Edges of a node to itself are left out.
AddEdge(net, e) ==
  IF e[1] = e[2] THEN net ELSE With(With(net, e[1], Entry(e[2], 1)), e[2], Entry(e[1], 0))

\* The edges in the order in which a walk from the source, latest node first,
\* comes by them.
RECURSIVE EdgesAlong(_, _, _, _)
EdgesAlong(stack, visited, order, es) ==
  IF stack = <<>> THEN order
  ELSE LET n == Last(stack)
           next == Outgoing(n, es)
       IN  EdgesAlong(Front(stack) \o SelectSeq(next, LAMBDA m : m \notin visited),
                      visited \cup ToSet(next),
                      order \o [i \in 1..Len(next) |-> <<n, next[i]>>], es)
EdgesInReach(source, es) == EdgesAlong(<<source>>, {source}, <<>>, es)

\* bfs_augmenting_path over entries with capacity left: <<>> if there is none.
RECURSIVE Augmenting(_, _, _, _)
Augmenting(queue, seen, sink, net) ==
  IF queue = <<>> THEN <<>>
  ELSE LET path == Head(queue)
           free == SelectSeq(Listed(net, Last(path)),
                             LAMBDA x : Residual(x) > 0 /\ x.to \notin seen)
           ends == Ordered({free[i].to : i \in 1..Len(free)})
           At(m) == CHOOSE i \in 1..Len(free) :
                      free[i].to = m /\ \A j \in 1..(i - 1) : free[j].to # m
           next == SortSeq(ends, LAMBDA a, b : At(a) < At(b))
       IN  IF Last(path) = sink THEN path
           ELSE Augmenting(Tail(queue) \o [i \in 1..Len(next) |-> Append(path, next[i])],
                           seen \cup ToSet(next), sink, net)

FirstTo(net, u, v) ==
  CHOOSE i \in 1..Len(net[u]) : net[u][i].to = v /\ \A j \in 1..(i - 1) : net[u][j].to # v

Bottleneck(net, path) ==
  Min({Residual(net[path[i]][FirstTo(net, path[i], path[i + 1])]) : i \in 1..(Len(path) - 1)})

\* augment_flow: the first entry there gets more flow, the first one back less.
Pushed(net, u, v, amount) ==
  LET there == [net EXCEPT ![u][FirstTo(net, u, v)].flow = @ + amount]
  IN  [there EXCEPT ![v][FirstTo(net, v, u)].flow = IF @ > amount THEN @ - amount ELSE 0]
Augmented(net, path, amount) ==
  FoldLeft(LAMBDA t, i : Pushed(t, path[i], path[i + 1], amount), net,
           [i \in 1..(Len(path) - 1) |-> i])

RECURSIVE EdmondsKarp(_, _, _, _)
EdmondsKarp(net, flow, source, sink) ==
  LET path == Augmenting(<<<<source>>>>, {source}, sink, net)
  IN  IF path = <<>> THEN [ends |-> TRUE, flow |-> flow, net |-> net]
      ELSE LET amount == Bottleneck(net, path)
           IN  IF amount = 0 THEN [ends |-> FALSE, flow |-> flow, net |-> net]
               ELSE EdmondsKarp(Augmented(net, path, amount), flow + amount, source, sink)

FreePairs(net) ==
  UNION {{<<n, net[n][i].to>> : i \in {j \in 1..Len(net[n]) : Residual(net[n][j]) > 0}} :
           n \in DOMAIN net}
FullPairs(net) ==
  UNION {{<<n, net[n][i].to>> : i \in {j \in 1..Len(net[n]) : Residual(net[n][j]) = 0}} :
           n \in DOMAIN net}

\* find_cut_edges with the sides mistaken for each other ...
CutOf_Swapped(net, side) == {p \in FullPairs(net) : p[1] \notin side /\ p[2] \in side}
\* ... and as it is.
CutOf(net, side) == {p \in FullPairs(net) : p[1] \in side /\ p[2] \notin side}

-----------------------------------------------------------------------------
(* min_st_cut, min_vertex_cut *)

MinStCut(source, sink, es) ==
  LET net == FoldLeft(AddEdge, <<>>, EdgesInReach(source, es))
      run == EdmondsKarp(net, 0, source, sink)
      side == ReachedFrom(source, FreePairs(run.net))
  IN  IF source = sink
      THEN [ends |-> TRUE, side |-> {source}, cut |-> {}, size |-> 0]
      ELSE IF source \in DOMAIN net /\ sink \notin DOMAIN net
      THEN [ends |-> TRUE, side |-> DOMAIN net, cut |-> {}, size |-> 0]
      ELSE [ends |-> run.ends, side |-> side, size |-> run.flow,
            cut |-> CutOf(run.net, side)]

\* VertexSplitTransform: x becomes 2x and 2x + 1, but for source and target.
NodeIn(x, ends) == IF x \in ends THEN x ELSE 2 * x
NodeOut(x, ends) == IF x \in ends THEN x ELSE 2 * x + 1
Inside(x, ends) == IF x \in ends THEN <<>> ELSE <<<<NodeIn(x, ends), NodeOut(x, ends)>>>>
SplitEdges(order, ends) ==
  FlattenSeq([i \in 1..Len(order) |->
    LET u == order[i][1] v == order[i][2]
    IN  <<<<NodeOut(u, ends), NodeIn(v, ends)>>>> \o Inside(v, ends) \o Inside(u, ends)])

\* is_internal_edge takes the entry back from 2x + 1 to 2x as well.
InsideOf(p) == IF p[1] % 2 = 0 /\ p[2] = p[1] + 1 THEN p[1] \div 2
               ELSE IF p[1] % 2 = 1 /\ p[2] = p[1] - 1 THEN p[2] \div 2 ELSE NoNode

MinVertexCut(source, target, es) ==
  LET ends == {source, target}
      net == FoldLeft(AddEdge, <<>>, SplitEdges(EdgesInReach(source, es), ends))
      run == EdmondsKarp(net, 0, source, target)
  IN  IF source = target \/ target \notin DOMAIN net THEN [ends |-> TRUE, separator |-> {}]
      ELSE [ends |-> run.ends,
            separator |-> {InsideOf(p) : p \in FullPairs(run.net)} \ ({NoNode} \cup ends)]

-----------------------------------------------------------------------------
(* Partitions: a partition maps the nodes that have one to its index. *)

CutEdges(part, es) ==
  {e \in es : e[1] \in DOMAIN part /\ e[2] \in DOMAIN part /\ part[e[1]] # part[e[2]]}

\* partition_bfs_level: the queue of nodes, those assigned so far.
RECURSIVE Grow(_, _, _)
Grow(queue, part, es) ==
  IF queue = <<>> THEN part
  ELSE LET n == Head(queue)
           new == SelectSeq(Outgoing(n, es), LAMBDA m : m \notin DOMAIN part)
       IN  Grow(Tail(queue) \o new, [m \in ToSet(new) |-> part[n]] @@ part, es)
Seeded(seeds) == [n \in ToSet(seeds) |-> CHOOSE i \in 1..Len(seeds) : seeds[i] = n]
PartitionBfsLevel(seeds, k, es) ==
  LET given == IF seeds = <<>> THEN Ordered(Nodes) ELSE seeds
      used == SubSeq(given, 1, Low(k, Len(given)))
  IN  Grow(used, Seeded(used), es)

\* partition_greedy: of the moves of largest gain, counted over the edges out
\* of a node, any; the partition with the smallest cut so far is kept.
Gain(n, part, es) ==
  LET placed == Succs(n, es) \cap DOMAIN part
  IN  Cardinality({m \in placed : part[m] # part[n]})
        - Cardinality({m \in placed \ {n} : part[m] = part[n]})
RECURSIVE Greedy(_, _, _, _)
Greedy(part, best, rounds, es) ==
  LET gain == Max({0} \cup {Gain(n, part, es) : n \in DOMAIN part})
      Better(p) == Cardinality(CutEdges(p, es)) < Cardinality(CutEdges(best, es))
  IN  IF rounds = 0 \/ gain = 0 THEN {best}
      ELSE UNION {LET moved == [part EXCEPT ![n] = 3 - @]
                  IN  Greedy(moved, IF Better(moved) THEN moved ELSE best, rounds - 1, es) :
                    n \in {m \in DOMAIN part : Gain(m, part, es) = gain}}
PartitionGreedy(initial, rounds, es) == Greedy(initial, initial, rounds, es)

\* partition_kway: a full partition does not grow, though one node of it may
\* have taken it over the limit; ...
RECURSIVE GrowUpTo(_, _, _, _)
GrowUpTo(queue, part, most, es) ==
  IF queue = <<>> THEN part
  ELSE LET n == Head(queue)
           full == Cardinality({m \in DOMAIN part : part[m] = part[n]}) >= most
           new == IF full THEN <<>>
                  ELSE SelectSeq(Outgoing(n, es), LAMBDA m : m \notin DOMAIN part)
       IN  GrowUpTo(Tail(queue) \o new, [m \in ToSet(new) |-> part[n]] @@ part, most, es)

\* ... the nodes left over join the partition nearest to them, one by one in
\* any order, the first if none can be reached.
Steps(n, targets, es) ==
  LET ds == {d \in 0..N : WithinDepth({n}, {n}, d, es) \cap targets # {}}
  IN  IF ds = {} THEN N + 1 ELSE Min(ds)
Nearest(n, part, k, es) ==
  LET away == [i \in 1..k |-> Steps(n, {m \in DOMAIN part : part[m] = i}, es)]
  IN  CHOOSE i \in 1..k : /\ \A j \in 1..k : away[i] <= away[j]
                          /\ \A j \in 1..(i - 1) : away[i] < away[j]
RECURSIVE Leftovers(_, _, _)
Leftovers(part, k, es) ==
  IF DOMAIN part = Nodes THEN {part}
  ELSE UNION {Leftovers((n :> Nearest(n, part, k, es)) @@ part, k, es) :
                n \in Nodes \ DOMAIN part}
PartitionKway(seeds, most, es) ==
  Leftovers(GrowUpTo(seeds, Seeded(seeds), most, es), Len(seeds), es)

-----------------------------------------------------------------------------
(* Properties *)

Parting(S, es) == {e \in es : e[1] \in S /\ e[2] \notin S}
SmallestCut(s, t, es) ==
  Min({Cardinality(Parting(S, es)) : S \in {T \in SUBSET Nodes : s \in T /\ t \notin T}})
\* No half of a split node has the number of one of the ends.
NumbersApart(s, t) == \A x \in Nodes \ {s, t} : {2 * x, 2 * x + 1} \cap {s, t} = {}

OneWay(es) == \A e \in es : e[1] = e[2] \/ <<e[2], e[1]>> \notin es

EdgeCutRight(s, t, es) ==
  LET c == MinStCut(s, t, es)
  IN  /\ OneWay(es) => c.ends
      /\ c.ends => /\ s \in c.side /\ t \notin c.side
                   /\ ~Way(s, t, es \ c.cut)
                   /\ c.cut \subseteq es \cup Reversed(es)
                   /\ c.size = SmallestCut(s, t, es)

\* Left out: split nodes that take the number of an end, and what a separator
\* should be where s and t are neighbours.
VertexCutRight(s, t, es) ==
  LET v == MinVertexCut(s, t, es)
  IN  NumbersApart(s, t) =>
        /\ v.ends
        /\ <<s, t>> \notin es =>
             ~Way(s, t, {e \in es : {e[1], e[2]} \cap v.separator = {}})

PartitionsRight(es) ==
  \A seeds \in {<<1, 2>>, <<4, 2>>, <<3, 1>>} :
    LET level == PartitionBfsLevel(seeds, 2, es)
        far == [i \in 1..2 |-> [n \in Nodes |-> Steps(seeds[i], {n}, es)]]
    IN  /\ \A n \in Nodes :
             IF far[1][n] > N /\ far[2][n] > N THEN n \notin DOMAIN level
             ELSE n \in DOMAIN level /\ level[n] = IF far[1][n] <= far[2][n] THEN 1 ELSE 2
        /\ \A part \in PartitionGreedy(level, 3, es) :
             /\ DOMAIN part = DOMAIN level
             /\ Cardinality(CutEdges(part, es)) <= Cardinality(CutEdges(level, es))
        /\ \A most \in {2, N} : \A part \in PartitionKway(seeds, most, es) :
             /\ DOMAIN part = Nodes
             /\ \A i \in 1..2 : part[seeds[i]] = i
             /\ most = N => \A n \in DOMAIN level : part[n] = level[n]

(***************************************************************************)
(* min_st_cut on four nodes, although it cannot take flow back: where no   *)
(* two nodes have edges both ways it ends, and where it ends the edges of  *)
(* the cut part source and sink, each of them is an edge or the reverse of *)
(* one, and its size is that of a smallest cut.  When the numbers of the   *)
(* split nodes stay apart, min_vertex_cut ends, and there is no way around *)
(* its separator; that is not asked where an edge joins the two ends, for  *)
(* then no set of other nodes parts them.  So the property judges only     *)
(* searches that end, and asks for an end only of min_st_cut without edges *)
(* both ways and of min_vertex_cut: a min_st_cut that goes on for ever is  *)
(* no violation of it.                                                     *)
(* partition_bfs_level gives a node to the nearest seed, of equally near   *)
(* ones to the first in the list, and leaves out what no seed reaches.     *)
(* partition_greedy never cuts more edges than the partition it starts     *)
(* from.  partition_kway places every node, and without a limit as         *)
(* partition_bfs_level does where that places one.                         *)
(***************************************************************************)
CutsRight ==
  /\ \A s, t \in Nodes :
       s # t => EdgeCutRight(s, t, edges) /\ VertexCutRight(s, t, edges)
  /\ PartitionsRight(edges)
=============================================================================
