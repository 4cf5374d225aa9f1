----------------------------- MODULE PathAnalysis -----------------------------
(***************************************************************************)
(* algo/path_enumeration.rs: the paths a depth-first search with           *)
(* backtracking finds from an entry, within bounds, and the same search    *)
(* with one of three constraints that cut branches off.  The constraints   *)
(* read what FlowAnalysis computes.                                        *)
(*                                                                         *)
(* A path is recorded when it comes to an exit, to an error node or goes   *)
(* beyond the depth; one that stops otherwise is not.                      *)
(***************************************************************************)
EXTENDS FlowAnalysis, OrderAnalysis

\* PathEnumerationConfig: the bounds depth, most and cap, the sets exits and
\* errors; and the constraint in use, the first of those switched on.
Unbounded == 1000

Times(n, path) == Cardinality({i \in 1..Len(path) : path[i] = n})

-----------------------------------------------------------------------------
(* The constraints *)

\* No node follows one it dominates.
DominanceHolds(path, dom) ==
  \A i, j \in 1..Len(path) : i < j /\ path[i] # path[j] => path[j] \notin dom[path[i]]

\* Whenever a node comes, what it controls has not come for the first time.
First(n, path) == CHOOSE i \in 1..Len(path) : path[i] = n /\ \A j \in 1..(i - 1) : path[j] # n
ControlHolds(path, cdg) ==
  \A i \in 1..Len(path) : \A n \in Succs(path[i], cdg) \cap ToSet(path) : First(n, path) > i

\* The latest header before the last node has it in its loop.
LoopsHold(path, loops) ==
  LET active == SelectSeq(Front(path), LAMBDA n : n \in DOMAIN loops)
  IN  active # <<>> => Last(path) \in {Last(active)} \cup loops[Last(active)]

Holds(path, constraint, facts) ==
  CASE constraint = "none" -> TRUE
    [] constraint = "dominance" -> DominanceHolds(path, facts.dom)
    [] constraint = "control" -> ControlHolds(path, facts.cdg)
    [] constraint = "loops" -> LoopsHold(path, facts.loops)

-----------------------------------------------------------------------------
(* The search: found is the list of paths, those cut off by the bounds and *)
(* by the constraint are counted.                                          *)

Start == [found |-> <<>>, bounded |-> 0, pruned |-> 0, deepest |-> 0]

Ends(path, c) == Last(path) \in c.exits \cup c.errors \/ Len(path) > c.depth

\* An error node counts more than the bound, the bound more than an exit.
Classified(path, c) ==
  [nodes |-> path,
   class |-> CASE Last(path) \in c.errors -> "Error"
               [] Last(path) \notin c.errors /\ Len(path) > c.depth -> "Degenerate"
               [] OTHER -> "Normal"]

Recorded(path, s, c) ==
  IF Len(s.found) < c.most THEN [s EXCEPT !.found = Append(@, Classified(path, c))]
  ELSE [s EXCEPT !.bounded = @ + 1]

\* Successors up to the cap, counting the one that is about to be added ...
RECURSIVE Explore(_, _, _, _)
Explore_CapLate(path, s, c, facts) ==
  LET t == [s EXCEPT !.deepest = Max({@, Len(path)})]
      Follow(u, n) ==
        IF Len(u.found) >= c.most THEN u
        ELSE IF Times(n, path) > c.cap THEN [u EXCEPT !.bounded = @ + 1]
        ELSE IF ~Holds(Append(path, n), c.constraint, facts) THEN [u EXCEPT !.pruned = @ + 1]
        ELSE Explore(Append(path, n), u, c, facts)
  IN  IF Ends(path, c) THEN Recorded(path, t, c) ELSE FoldLeft(Follow, t, Outgoing(Last(path), facts.es))
\* ... and as the code counts.
Explore(path, s, c, facts) ==
  LET t == [s EXCEPT !.deepest = Max({@, Len(path)})]
      Follow(u, n) ==
        IF Len(u.found) >= c.most THEN u
        ELSE IF Times(n, path) >= c.cap THEN [u EXCEPT !.bounded = @ + 1]
        ELSE IF ~Holds(Append(path, n), c.constraint, facts) THEN [u EXCEPT !.pruned = @ + 1]
        ELSE Explore(Append(path, n), u, c, facts)
  IN  IF Ends(path, c) THEN Recorded(path, t, c)
      ELSE FoldLeft(Follow, t, Outgoing(Last(path), facts.es))

\* enumerate_paths has no constraint; enumerate_paths_with_dominance is given
\* the facts.
EnumeratePaths(entry, c, es) ==
  Explore(<<entry>>, Start, [c EXCEPT !.constraint = "none"], [es |-> es])
EnumerateWithDominance(entry, c, facts) == Explore(<<entry>>, Start, c, facts)

\* The answer has the paths by class, in each as they were found.
ByClass(s) ==
  LET Of(class) == SelectSeq(s.found, LAMBDA p : p.class = class)
  IN  Of("Normal") \o Of("Error") \o Of("Degenerate")
-----------------------------------------------------------------------------
(* Properties *)

Config(depth, cap, errors, constraint) ==
  [depth |-> depth, most |-> Unbounded, cap |-> cap, exits |-> {4}, errors |-> errors,
   constraint |-> constraint]

\* The walks of the graph that end where a path is recorded and not before.
Walk(path, c, es) ==
  /\ path[1] = 1 /\ IsWay(path, es)
  /\ Ends(path, c) /\ \A k \in 1..(Len(path) - 1) : ~Ends(SubSeq(path, 1, k), c)
  /\ \A n \in Nodes : Times(n, path) <= c.cap

PathsAre(walks, s, c) ==
  /\ Len(ByClass(s)) = Cardinality(walks)
  /\ ToSet(ByClass(s)) = {Classified(w, c) : w \in walks}

\* The first two paths are those a limit of two leaves.
LimitRight(all, es, c) ==
  LET two == EnumeratePaths(1, [c EXCEPT !.most = 2], es)
  IN  two.found = SubSeq(all.found, 1, Low(2, Len(all.found)))

LongWalks == UNION {{p \in [1..k -> Nodes] : p[1] = 1} : k \in 1..5}

FactsOf(es) ==
  LET dom == Dominators(Nodes, 1, es)
  IN  [es |-> es, dom |-> dom, loops |-> NaturalLoops(dom, es),
       cdg |-> IF Exits(es) = {} THEN {} ELSE ControlDependence(AutoExit(es), es)]

(***************************************************************************)
(* enumerate_paths finds every walk from the entry to where a path is      *)
(* recorded that stays below the cap, each once, whether nodes may come    *)
(* back or not; a limit leaves the first of them.  Where no node may come  *)
(* back, cutting by dominance loses none of them, and no branch is cut.    *)
(***************************************************************************)
PathsRight ==
  \A errors \in {{}, {3}} :
    LET once == Config(N, 1, errors, "dominance")
        twice == Config(4, 2, errors, "none")
        all == EnumeratePaths(1, once, edges)
        longer == EnumeratePaths(1, twice, edges)
    IN  /\ PathsAre({p \in SimplePaths : Walk(p, once, edges)}, all, once)
        /\ PathsAre({p \in LongWalks : Walk(p, twice, edges)}, longer, twice)
        /\ LimitRight(all, edges, once) /\ LimitRight(longer, edges, twice)
        /\ EnumerateWithDominance(1, once, FactsOf(edges)) = all
=============================================================================
