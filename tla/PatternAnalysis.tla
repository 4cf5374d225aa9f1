---------------------------- MODULE PatternAnalysis ---------------------------
(***************************************************************************)
(* The algorithms of algo/ that compare graphs: occurrences of a pattern,  *)
(* rewriting by rules, structural similarity and the diff of two graphs.   *)
(* A graph here is [size, edges], its entities being 1..size.              *)
(*                                                                         *)
(* Whether an assignment is an occurrence is decided by a library, which   *)
(* also fixes the order of the occurrences: any order may come.  The types *)
(* and the data of edges are left out, and so are twins: copies have one   *)
(* type for all, and an edge added where there is one adds nothing here.   *)
(***************************************************************************)
EXTENDS OrderAnalysis

Graph(size, es) == [size |-> size, edges |-> es]

-----------------------------------------------------------------------------
(* find_subgraph_patterns *)

\* Different nodes for different nodes, and an edge just where there is one:
\* the assignments that go on from a partial one.
RECURSIVE Extended(_, _, _)
Extended(m, pattern, g) ==
  LET k == Len(m) + 1
      Fits(x) == /\ x \notin ToSet(m)
                 /\ <<k, k>> \in pattern.edges <=> <<x, x>> \in g.edges
                 /\ \A i \in 1..Len(m) :
                      /\ <<i, k>> \in pattern.edges <=> <<m[i], x>> \in g.edges
                      /\ <<k, i>> \in pattern.edges <=> <<x, m[i]>> \in g.edges
  IN  IF Len(m) = pattern.size THEN {m}
      ELSE UNION {Extended(Append(m, x), pattern, g) : x \in {y \in 1..g.size : Fits(y)}}
Occurrences(pattern, g) == Extended(<<>>, pattern, g)

\* The occurrences come in some order until there are enough.
FindPatterns(order, most) ==
  [matches |-> SubSeq(order, 1, Low(most, Len(order))), bounded |-> Len(order) > most]

-----------------------------------------------------------------------------
(* rewrite_graph_patterns.  A rule is [pattern, replacement, interface],   *)
(* the interface a list of pairs: a node of the pattern that stays, and    *)
(* the node of the replacement it stands for.                              *)

InterfaceValid(rule) ==
  \A k \in 1..Len(rule.interface) :
    /\ rule.interface[k][1] \in 1..rule.pattern.size
    /\ rule.interface[k][2] \in 1..rule.replacement.size

Deleted(rule, match) ==
  {match[i] : i \in (1..rule.pattern.size) \ {rule.interface[k][1] : k \in 1..Len(rule.interface)}}

\* What is kept is inserted into a new graph, which counts from 1.
Kept(g, deleted) == SelectSeq([i \in 1..g.size |-> i], LAMBDA x : x \notin deleted)
NewId(x, kept) ==
  IF x \in ToSet(kept) THEN CHOOSE i \in 1..Len(kept) : kept[i] = x ELSE NoNode

\* The nodes of the replacement that are not in the interface come after it.
Fresh(rule) ==
  SelectSeq([j \in 1..rule.replacement.size |-> j],
            LAMBDA j : \A k \in 1..Len(rule.interface) : rule.interface[k][2] # j)

\* Where a node of the replacement is in the new graph, the ids of the old one
\* taken for new ones ...
Placed_OldId(j, rule, match, kept) ==
  LET pairs == SelectSeq(rule.interface, LAMBDA p : p[2] = j)
  IN  IF pairs # <<>> THEN match[Head(pairs)[1]] ELSE Len(kept) + NewId(j, Fresh(rule))
\* ... and as the code finds it: nowhere, if the node it stands for is gone.
Placed(j, rule, match, kept) ==
  LET pairs == SelectSeq(rule.interface, LAMBDA p : p[2] = j)
  IN  IF pairs # <<>> THEN NewId(match[Head(pairs)[1]], kept)
      ELSE Len(kept) + NewId(j, Fresh(rule))

CopiedEdges(g, kept) == {<<NewId(e[1], kept), NewId(e[2], kept)>> : e \in g.edges}
AddedEdges(rule, match, kept) ==
  {<<Placed(e[1], rule, match, kept), Placed(e[2], rule, match, kept)>> : e \in rule.replacement.edges}

ApplyRewrite(g, rule, match) ==
  LET kept == Kept(g, Deleted(rule, match))
  IN  Graph(Len(kept) + Len(Fresh(rule)),
            {e \in CopiedEdges(g, kept) \cup AddedEdges(rule, match, kept) : NoNode \notin {e[1], e[2]}})

\* The occurrences are those of the graph before the first rewrite.
RewritePatterns(g, rule, order, most) ==
  FoldLeft(LAMBDA h, match : ApplyRewrite(h, rule, match), g, FindPatterns(order, most).matches)

\* validate_no_dangling_edges
Dangling(g) == {e \in g.edges : e[2] \notin 1..g.size}

-----------------------------------------------------------------------------
(* structural_similarity, graph_diff, validate_refactor *)

\* maximum_common_subgraph: the size of the smaller graph, or nothing.
CommonSize(g, h) ==
  LET pattern == IF g.size <= h.size THEN g ELSE h
      target == IF g.size <= h.size THEN h ELSE g
  IN  IF pattern.size > 0 /\ Occurrences(pattern, target) # {} THEN pattern.size ELSE 0

Isomorphic(g, h) == g.size = h.size /\ Occurrences(g, h) # {}

\* The score is common / largest.
Similarity(g, h) ==
  LET largest == Max({g.size, h.size})
  IN  IF Isomorphic(g, h)
      THEN [isomorphic |-> TRUE, common |-> g.size, largest |-> largest]
      ELSE [isomorphic |-> FALSE, common |-> CommonSize(g, h), largest |-> largest]
\* mcs_similarity >= tenths / 10
AtLeast(s, tenths) == 10 * s.common >= tenths * s.largest

\* compute_node_delta, compute_edge_delta
Delta(S, T) == [added |-> T \ S, removed |-> S \ T]
GraphDiff(g, h) ==
  [nodes |-> Delta(1..g.size, 1..h.size), edges |-> Delta(g.edges, h.edges),
   similarity |-> Similarity(g, h)]
IsSafe(diff) == diff.nodes.removed = {} /\ AtLeast(diff.similarity, 8)
HasBreakingChanges(diff) == diff.nodes.removed # {} \/ ~AtLeast(diff.similarity, 5)
\* validate_refactor: safe unless nodes are gone or the score is low.
ValidateRefactor(diff) ==
  [safe |-> diff.nodes.removed = {} /\ AtLeast(diff.similarity, 5),
   warned |-> diff.similarity.isomorphic \/ diff.edges.removed # {}
                \/ (AtLeast(diff.similarity, 5) /\ ~AtLeast(diff.similarity, 8))]
-----------------------------------------------------------------------------
(* Properties *)

arrow == Graph(2, {<<1, 2>>})

\* An edge gets a twin the other way, or a detour; its end is taken away, or
\* put back as a node behind its start.
TurnBack == [pattern |-> arrow, replacement |-> Graph(2, {<<2, 1>>}),
             interface |-> <<<<1, 1>>, <<2, 2>>>>]
Detour == [pattern |-> arrow, replacement |-> Graph(3, {<<1, 2>>, <<2, 3>>}),
           interface |-> <<<<1, 1>>, <<2, 3>>>>]
CutEnd == [pattern |-> arrow, replacement |-> Graph(1, {}), interface |-> <<<<1, 1>>>>]
NewEnd == [pattern |-> arrow, replacement |-> Graph(2, {<<1, 2>>}), interface |-> <<<<1, 1>>>>]

\* With every node of the pattern kept, all occurrences are rewritten in place.
InPlaceRight(g, order) ==
  LET turned == RewritePatterns(g, TurnBack, order, Len(order))
      longer == RewritePatterns(g, Detour, order, Len(order))
  IN  /\ turned = Graph(g.size, g.edges \cup {<<m[2], m[1]>> : m \in ToSet(order)})
      /\ longer.size = g.size + Len(order)
      /\ longer.edges =
           g.edges \cup UNION {{<<order[i][1], g.size + i>>, <<g.size + i, order[i][2]>>} :
                                 i \in 1..Len(order)}

\* One rewrite that takes a node away leaves the rest, with its new edges.
OneCutRight(g, match) ==
  LET gone == match[2]
      Down(x) == IF x > gone THEN x - 1 ELSE x
      rest == Graph(g.size - 1, {<<Down(e[1]), Down(e[2])>> : e \in Without(gone, g.edges)})
      cut == RewritePatterns(g, CutEnd, <<match>>, 1)
      put == RewritePatterns(g, NewEnd, <<match>>, 1)
      \* The graph in which the end has no edge left but the one from the start.
      bare == Graph(g.size, Without(gone, g.edges) \cup {<<match[1], gone>>})
  IN  cut = rest /\ Isomorphic(put, bare)

RewritesRight(g) ==
  LET pairs == [k \in 1..(N * N) |-> <<1 + ((k - 1) \div N), 1 + ((k - 1) % N)>>]
      order == SelectSeq(pairs, LAMBDA m : m \in Occurrences(arrow, g))
  IN  /\ InPlaceRight(g, order) /\ InPlaceRight(g, Reverse(order))
      /\ \A i \in 1..Len(order) : OneCutRight(g, order[i])
      /\ \A rule \in {CutEnd, NewEnd} : \A most \in {2, Len(order)} :
           Dangling(RewritePatterns(g, rule, order, most)) = {}

\* h has g, of N nodes, in it as it is.
Placements ==
  {f \in [1..N -> 1..(N + 1)] : \A i, j \in 1..N : f[i] = f[j] => i = j}
Embedded(g, h) ==
  \E f \in Placements :
    LET image == {f[i] : i \in 1..N}
    IN  /\ image \subseteq 1..h.size
        /\ {<<f[e[1]], f[e[2]]>> : e \in g.edges} = {e \in h.edges : {e[1], e[2]} \subseteq image}

DiffRight(g, h) ==
  LET diff == GraphDiff(g, h)
      back == GraphDiff(h, g)
      verdict == ValidateRefactor(diff)
  IN  /\ diff.similarity = back.similarity
      /\ IsSafe(diff) = Embedded(g, h)
      /\ diff.similarity.common = IF Embedded(g, h) THEN N ELSE 0
      /\ verdict.safe = ~HasBreakingChanges(diff)
      /\ g # h /\ g.size = h.size => verdict.safe = diff.similarity.isomorphic

(***************************************************************************)
(* rewrite_graph_patterns with a rule that keeps every node of its pattern *)
(* rewrites each occurrence once, whatever their order; with a rule that   *)
(* takes a node away one rewrite leaves the graph without it, and however  *)
(* many leave no edge without its ends.  structural_similarity does not    *)
(* depend on the order of its arguments; a diff that is safe has the old   *)
(* graph whole in the new one, and validate_refactor agrees with           *)
(* has_breaking_changes.                                                   *)
(***************************************************************************)
PatternsRight ==
  LET g == Graph(N, edges)
  IN  /\ RewritesRight(g)
      /\ DiffRight(g, Graph(N, edges \ {<<1, 2>>}))
      /\ DiffRight(g, Graph(N + 1, edges \cup {<<1, N + 1>>, <<1, 2>>}))
=============================================================================
