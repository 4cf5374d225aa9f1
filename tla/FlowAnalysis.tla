----------------------------- MODULE FlowAnalysis -----------------------------
(***************************************************************************)
(* The control-flow algorithms of algo/: dominators and post-dominators by *)
(* iteration to a fixed point, dominance frontiers by walking up the tree  *)
(* of immediate dominators, control dependence, natural loops and slices.  *)
(* Each is a pure function of the edges.                                   *)
(*                                                                         *)
(* The sets are kept in hash maps: where the code takes the first or the   *)
(* largest of several members, every such member is a possible answer.     *)
(* The order in which a sweep visits the nodes only changes the number of  *)
(* sweeps; a sweep here looks at all nodes at once.  The errors for graphs *)
(* that take over 1000 sweeps, or 100 rounds of frontiers, are left out.   *)
(***************************************************************************)
EXTENDS GraphState

VirtualExit == -1    \* the node that stands after several exits
Endless == -2        \* no node: a loop of the code that does not end

-----------------------------------------------------------------------------
(* Dominators *)

\* initialize_dominators: the entry has itself, everybody else has everybody.
InitialSets(nodes, root) == [n \in nodes |-> IF n = root THEN {root} ELSE nodes]

\* iterate_dominators with the intersection of no sets at all, ...
Sweep_MissesItself(dom, root, es) ==
  LET reached == ReachedFrom(root, es)
  IN  [n \in DOMAIN dom |->
         IF n = root \/ n \notin reached THEN dom[n]
         ELSE {d \in DOMAIN dom : \A p \in Preds(n, es) : d \in dom[p]}]
\* ... and as it is.  A node out of reach keeps what it has.
Sweep(dom, root, es) ==
  LET reached == ReachedFrom(root, es)
  IN  [n \in DOMAIN dom |->
         IF n = root \/ n \notin reached THEN dom[n]
         ELSE {n} \cup {d \in DOMAIN dom : \A p \in Preds(n, es) : d \in dom[p]}]

\* Sweeps until one changes nothing, which is so after as many as there are nodes.
Dominators(nodes, root, es) ==
  LET R[k \in 0..Cardinality(nodes)] ==
        IF k = 0 THEN [dom |-> InitialSets(nodes, root), changed |-> TRUE]
        ELSE LET last == R[k - 1]
                 next == Sweep(last.dom, root, es)
             IN  IF last.changed THEN [dom |-> next, changed |-> next # last.dom] ELSE last
  IN  R[Cardinality(nodes)].dom

\* extract_immediate_dominators, the possible answers for one node.
Immediate(dom, root, n) ==
  LET strict == dom[n] \ {n}
      closest == {c \in strict : strict \ {c} \subseteq dom[c]}
      largest == {c \in strict : \A d \in strict : Cardinality(dom[d]) <= Cardinality(dom[c])}
  IN  CASE n = root \/ strict = {} -> {NoNode}
        [] closest # {} -> closest
        [] OTHER -> largest

-----------------------------------------------------------------------------
(* Post-dominators: the same on the reversed edges. *)

Exits(es) == {n \in Nodes : Succs(n, es) = {}}

PostDominators(exit, es) == Dominators(Nodes, exit, Reversed(es))
ImmediatePost(post, exit, n) == Immediate(post, exit, n)

\* post_dominators_with_virtual_exit, the virtual exit taken out at the end.
ToVirtualExit(es) == es \cup {<<x, VirtualExit>> : x \in Exits(es)}
WithVirtualExit(es) ==
  Dominators(Nodes \cup {VirtualExit}, VirtualExit, Reversed(ToVirtualExit(es)))
ImmediateBeforeVirtual(post, n) ==
  {IF c = VirtualExit THEN NoNode ELSE c : c \in Immediate(post, VirtualExit, n)}

\* post_dominators_auto_exit, which refuses a graph without an exit.
AutoExit(es) ==
  IF Cardinality(Exits(es)) = 1
  THEN LET exit == CHOOSE x \in Exits(es) : TRUE
           post == PostDominators(exit, es)
       IN  [post |-> post, ipdom |-> [n \in Nodes |-> ImmediatePost(post, exit, n)]]
  ELSE LET post == WithVirtualExit(es)
       IN  [post |-> [n \in Nodes |-> post[n] \ {VirtualExit}],
            ipdom |-> [n \in Nodes |-> ImmediateBeforeVirtual(post, n)]]

-----------------------------------------------------------------------------
(* Dominance frontiers *)

\* Where a runner that walks up the tree stops before n is put into a frontier.
Stops(n, idom) ==
  IF idom[n] # NoNode THEN {idom[n]} ELSE {r \in DOMAIN idom : idom[r] = NoNode} \ {n}
\* The nodes it is at when n is put into their frontiers, starting from p.
\* Endless is in it when the runner comes back to a node: then there is none
\* from which it does not walk on.
Climb(p, n, idom) ==
  LET stops == Stops(n, idom)
      up == [r \in DOMAIN idom |-> {idom[r]} \ (stops \cup {NoNode})]
      been == Spread(up, {p} \ stops)
  IN  been \cup (IF been # {} /\ \A r \in been : up[r] # {} THEN {Endless} ELSE {})

Walks(n, idom, es) == UNION {Climb(p, n, idom) : p \in Preds(n, es)}
\* The head of a loop is in its own frontier.
DominanceFrontiers(idom, es) == [x \in Nodes |-> {n \in Nodes : x \in Walks(n, idom, es)}]
FrontiersEnd(idom, es) == \A n \in Nodes : Endless \notin Walks(n, idom, es)

\* iterated_dominance_frontiers: the frontiers of the nodes that are new.
IteratedFrontiers(frontiers, defs) == Spread(frontiers, defs)

-----------------------------------------------------------------------------
(* Control dependence, natural loops, slices *)

\* The edges x -> y with x not a post-dominator of y, and not its closest one.
ControlDependence(result, es) ==
  {e \in es : e[1] \notin result.post[e[2]] /\ e[1] \notin result.ipdom[e[2]]}

\* An edge back to a dominator, self-loops left out.
BackEdges(dom, es) == {e \in es : e[1] # e[2] /\ e[2] \in dom[e[1]]}

\* compute_loop_body goes forward from the tail and stops at the header.
LoopBody(header, tail, es) ==
  ReachedFrom(tail, {e \in es : e[1] # header}) \ {header}
NaturalLoops(dom, es) ==
  [h \in {e[2] : e \in BackEdges(dom, es)} |->
     UNION {LoopBody(h, e[1], es) : e \in {b \in BackEdges(dom, es) : b[2] = h}}]

\* The slices: what is found along the dependences, and along the edges.
BackwardSlice(cdg, target, es) ==
  ReachedFrom(target, Reversed(cdg)) \cup ReachedFrom(target, Reversed(es))
ForwardSlice(cdg, source, es) == ReachedFrom(source, cdg) \cup ReachedFrom(source, es)
-----------------------------------------------------------------------------
(* Properties *)

\* What dominance means: no way around d.
NoWayAround(d, a, b, es) == d \in {a, b} \/ ~Way(a, b, Without(d, es))

\* dom and its immediate dominators are right about the nodes reached from root.
TreeRight(dom, root, es) ==
  \A n \in ReachedFrom(root, es) :
    /\ dom[n] = {d \in DOMAIN dom : NoWayAround(d, root, n, es)}
    /\ \E i \in DOMAIN dom \cup {NoNode} :
         /\ Immediate(dom, root, n) = {i}
         /\ IF n = root THEN i = NoNode ELSE i # n /\ dom[n] = {n} \cup dom[i]

AutoExitRight(auto, es) ==
  \A n \in Nodes : (\E x \in Exits(es) : Way(n, x, es)) =>
    /\ auto.post[n] = {d \in Nodes : \A x \in Exits(es) : NoWayAround(d, n, x, es)}
    /\ \E i \in Nodes \cup {NoNode} :
         /\ auto.ipdom[n] = {i}
         /\ auto.post[n] \ {n} = IF i = NoNode THEN {} ELSE auto.post[i]

LoopsRight(loops, es) ==
  /\ \A h \in DOMAIN loops : h \notin loops[h] /\ loops[h] # {}
  /\ UnreachableFrom(1, es) = {} =>
       DOMAIN loops =
         {h \in Nodes : \E t \in Preds(h, es) : t # h /\ NoWayAround(h, 1, t, es)}

SlicesRight(cdg, es) ==
  \A n \in Nodes : /\ BackwardSlice(cdg, n, es) = {m \in Nodes : Way(m, n, es)}
                   /\ ForwardSlice(cdg, n, es) = {m \in Nodes : Way(n, m, es)}

IsFrontier(frontiers, x, es) ==
  frontiers[x] = {n \in Nodes : /\ \E p \in Preds(n, es) : NoWayAround(x, 1, p, es)
                                /\ x = n \/ ~NoWayAround(x, 1, n, es)}
IsLeastClosed(S, frontiers, defs) ==
  LET closed == {T \in SUBSET Nodes : defs \subseteq T /\ \A n \in T : frontiers[n] \subseteq T}
  IN  S \in closed /\ \A T \in closed : S \subseteq T

\* With at most one node out of reach the walks up the tree end; with none the
\* frontier of x is where its dominance stops, and the iterated frontiers are
\* the least set that is closed under it.
FrontiersRight(dom, es) ==
  LET possible == [n \in Nodes |-> Immediate(dom, 1, n)]
      idom == [n \in Nodes |-> CHOOSE i \in possible[n] : TRUE]
      frontiers == DominanceFrontiers(idom, es)
  IN  /\ \A u \in Nodes : UnreachableFrom(1, es) = {u} =>
           \A i \in possible[u] : FrontiersEnd([idom EXCEPT ![u] = i], es)
      /\ UnreachableFrom(1, es) = {} =>
           /\ FrontiersEnd(idom, es)
           /\ \A x \in Nodes : IsFrontier(frontiers, x, es)
           /\ \A defs \in SUBSET Nodes :
                IsLeastClosed(IteratedFrontiers(frontiers, defs), frontiers, defs)

(***************************************************************************)
(* dominators: for a node that can be reached, the set is the nodes no     *)
(* way from the entry avoids, and the immediate dominator is the closest   *)
(* one whatever order the hash set is read in; post_dominators says the    *)
(* same of a node with a way to the exit, and with a virtual exit of one   *)
(* with a way to some exit.  From these: when every node can be reached,   *)
(* the headers of natural_loops are the nodes an edge comes back to        *)
(* although no way to its tail avoids them.  A slice is the nodes with a   *)
(* way to (from) its criterion, control dependences adding none.           *)
(* dominance_frontiers ends when at most one node is out of reach, and is  *)
(* right when none is, and so is iterated_dominance_frontiers.             *)
(***************************************************************************)
DominanceRight ==
  LET dom == Dominators(Nodes, 1, edges)
  IN  /\ TreeRight(dom, 1, edges)
      /\ FrontiersRight(dom, edges)
      /\ LoopsRight(NaturalLoops(dom, edges), edges)
      /\ \A x \in Exits(edges) : TreeRight(PostDominators(x, edges), x, Reversed(edges))
      /\ Exits(edges) # {} =>
           LET auto == AutoExit(edges)
           IN  /\ AutoExitRight(auto, edges)
               /\ SlicesRight(ControlDependence(auto, edges), edges)
=============================================================================
