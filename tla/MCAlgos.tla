-------------------------------- MODULE MCAlgos --------------------------------
(***************************************************************************)
(* The algorithms on every graph of four nodes without loops, and with a   *)
(* loop and five other edges at most, and what they answer on a few graphs *)
(* where it is not what their comments promise.                            *)
(***************************************************************************)
EXTENDS CutAnalysis, PathAnalysis, PatternAnalysis, Queries

someEdges == {e \in Nodes \X Nodes : e[1] # e[2]} \cup {<<2, 2>>}
\* A graph with the loop has at most five edges more.
MCDrawn(es) == <<2, 2>> \in es => Cardinality(es) <= 6
weights == (<<1, 3>> :> -1) @@ [e \in Insertable |-> 1 + (e[2] % 2)]

\* 4 was created through Cypher: it has neither labels nor property rows.
entities ==
  LET Row(kind, name, lines, rows) ==
        [kind |-> kind, name |-> name, lines |-> lines, labels |-> {kind},
         rows |-> rows \cup {<<"kind", kind>>, <<"name", name>>}]
  IN  <<Row("fn", "f", 3, {<<"lines", 3>>}), Row("fn", "g", Anything, {}),
        Row("type", "t", 7, {<<"lines", 7>>}),
        [kind |-> "fn", name |-> "f", lines |-> 7, labels |-> {}, rows |-> {}]>>
types ==
  LET Of(d) == {e \in Insertable : (e[1] + e[2]) % 2 = d}
  IN  [e \in Of(1) |-> "CALLS"] @@ [e \in Of(0) |-> "USES"]

\* Patterns of nodes, conditions, legs.
Pat(var, label) == [var |-> var, label |-> label, props |-> <<>>]
Named(var, name) == [var |-> var, label |-> Anything, props |-> [name |-> name]]
If(var, field, op, value) ==
  [is |-> "atom", clause |-> [var |-> var, field |-> field, op |-> op, value |-> value]]
All(terms) == [is |-> "and", terms |-> terms]
Some(terms) == [is |-> "or", terms |-> terms]
Leg(from, type, dir, to) == [from |-> from, type |-> type, dir |-> dir, to |-> to]
Calls(dir) == Leg(Bare("a"), "CALLS", dir, Bare("b"))

Query(shape, legs, node, hops, where) ==
  [shape |-> shape, legs |-> legs, node |-> node, hops |-> hops, where |-> where]
OfNode(pat, where) == Query("node", <<>>, pat, {}, where)
OfLegs(shape, legs, where) == Query(shape, legs, Bare("a"), {}, where)
OfDepths(leg, hops) == Query("depth", <<leg>>, Bare("a"), hops, All(<<>>))

twoFns == All(<<If("a", "kind", "=", "fn"), Some(<<If("b", "lines", ">", 5), If("b", "name", "<>", "f")>>)>>)
askedQueries ==
  {OfNode(Pat("a", "fn"), Some(<<If("a", "lines", "<=", 3), If("a", "name", "=", "g")>>)),
   OfNode(Named("a", "f"), All(<<Some(<<If("a", "lines", ">", 3), If("a", "kind", "<>", "fn")>>),
                                 Some(<<If("a", "lines", "<=", 7), If("a", "name", "=", "t")>>)>>)),
   OfLegs("edge", <<Leg(Pat("a", "fn"), "CALLS", "outgoing", Pat("b", "fn"))>>, All(<<>>)),
   OfLegs("edge", <<Leg(Pat("a", "fn"), "USES", "incoming", Pat("b", "type"))>>, If("b", "lines", ">", 3)),
   OfLegs("edge", <<Calls("outgoing")>>, twoFns),
   OfLegs("star", <<Calls("outgoing"), Leg(Pat("c", "fn"), "CALLS", "incoming", Bare("a"))>>, twoFns),
   OfLegs("star", <<Calls("outgoing"), Leg(Bare("a"), "USES", "outgoing", Named("c", "t")),
                    Leg(Bare("b"), "CALLS", "outgoing", Named("c", "t"))>>, All(<<>>)),
   OfLegs("chain", <<Calls("outgoing"), Leg(Bare("b"), "USES", "incoming", Pat("c", "fn"))>>,
          If("c", "lines", "<=", 3)),
   OfLegs("chain", <<Leg(Pat("a", "fn"), "CALLS", "outgoing", Bare("b")), Leg(Bare("b"), "CALLS", "outgoing", Bare("c"))>>,
          All(<<>>)),
   OfDepths(Leg(Pat("a", "fn"), "CALLS", "outgoing", Bare("b")), 1..2),
   OfDepths(Leg(Bare("a"), "CALLS", "outgoing", Pat("b", "fn")), 1..3)}

askedLegs ==
  {<<[dir |-> "outgoing", type |-> "CALLS", kind |-> Anything], [dir |-> "incoming", type |-> Anything, kind |-> "fn"]>>,
   <<[dir |-> "incoming", type |-> "USES", kind |-> "fn"]>>,
   <<[dir |-> "outgoing", type |-> Anything, kind |-> Anything], [dir |-> "outgoing", type |-> "CALLS", kind |-> "fn"]>>}

\* Patterns of every kind find what they mean: subgraphs of the matcher and the
\* rewriter, the Cypher subset, and the legs of the older engines.
MatchesRight == PatternsRight /\ AnswersRight /\ LegsRight

\* TLC evaluates each of the above once, but the value of a constant whenever it
\* is asked for.
MCInsertable == someEdges
MCWeights == weights
MCEntityOf == entities
MCTypeOf == types
MCQueries == askedQueries
MCLegs == askedLegs

ring == {<<1, 2>>, <<2, 3>>, <<3, 1>>}
bridge == {<<1, 2>>, <<1, 3>>, <<2, 3>>, <<3, 2>>}
ladder == {<<1, 2>>, <<1, 4>>, <<2, 3>>, <<2, 5>>, <<3, 6>>, <<4, 3>>, <<5, 6>>}

\* strongly_connected_components, weak components, cycle_basis and the closure
\* group the nodes by the ways between them, and topological_sort, the critical
\* path and find_cycles_limited agree with those groups on the same graph.
ComponentsAndOrdersRight == ComponentsRight /\ OrdersRight

\* bfs, k_hop, shortest_path, chains and parallel_bfs reach what there is a way
\* to, and path enumeration lists the ways that reach it.
WalksRight == TraversalsRight /\ PathsRight

\* dominance_frontiers does not end: 3 and 4 are each other's dominator.
ASSUME FrontierWalksRound ==
  LET dom == Dominators(Nodes, 1, {<<3, 1>>})
  IN  \A idom \in {f \in [Nodes -> Nodes \cup {NoNode}] : \A n \in Nodes : f[n] \in Immediate(dom, 1, n)} :
        ~FrontiersEnd(idom, {<<3, 1>>})

\* Node 2 is on the loop of the ring, but not after its tail.
ASSUME LoopBodyMissesNodes == NaturalLoops(Dominators(Nodes, 1, ring), ring)[1] = {3}

\* 1 leads to 2 only, so nothing hangs on a decision made at 1.
ASSUME ChainIsControlled == ControlDependence(AutoExit({<<1, 2>>}), {<<1, 2>>}) = {<<1, 2>>}

\* The reduction of a chain is empty: an edge has a way around it from its start to itself.
ASSUME ReductionDropsEdges == TransitiveReduction({<<1, 2>>, <<2, 3>>}) = {}

\* No edge leads from 2 to 1.
ASSUME BasisListsNoCycle ==
  <<1, 2, 3, 2, 1>> \in CyclesOf(1, {1, 2, 3}, ring \cup {<<3, 2>>})

\* The rotated cycles start and end with different nodes and are listed thrice.
ASSUME RotatedCycles ==
  {Normalized(FindCycles(9, ring)[i]) : i \in 1..3} =
    {<<1, 2, 3, 1>>, <<1, 2, 2, 3>>, <<1, 2, 3, 3>>}

\* The entry back from 3 to 2 comes first and has no capacity: no flow is added.
ASSUME CutDoesNotEnd == ~MinStCut(1, 3, bridge).ends

\* The first path found stands in the way of two.
ASSUME CutTooSmall == MinStCut(1, 6, ladder).size = 1

\* The paths a constraint cuts off.
LostBy(constraint, cap, es) ==
  LET c == Config(9, cap, {}, constraint)
      PathsOf(s) == {s.found[i].nodes : i \in 1..Len(s.found)}
  IN  PathsOf(EnumeratePaths(1, c, es)) \ PathsOf(EnumerateWithDominance(1, c, FactsOf(es)))
loop == {<<1, 2>>, <<2, 1>>, <<1, 4>>, <<2, 4>>}

\* A path that goes round the loop has the header after the node it dominates, ...
ASSUME DominanceLosesLoops ==
  {<<1, 2, 1, 4>>, <<1, 2, 1, 2, 4>>} \subseteq LostBy("dominance", 2, loop)
\* ... 2 controls 1, which every path starts with, ...
ASSUME ControlLosesPaths == <<1, 2, 4>> \in LostBy("control", 1, loop)
\* ... and whatever leaves a loop is taken for an exit it must not have.
ASSUME LoopsLoseExits == <<1, 4>> \in LostBy("loops", 1, loop \ {<<2, 4>>})

\* The second occurrence is looked for under the ids the first rewrite changed.
ASSUME SecondCutMisses ==
  RewritePatterns(Graph(4, {<<1, 2>>, <<3, 4>>}), CutEnd, <<<<1, 2>>, <<3, 4>>>>, 2)
    = Graph(3, {<<2, 3>>})
\* The edge the detour replaces stays.
ASSUME DetourKeepsEdge ==
  RewritePatterns(arrow, Detour, <<<<1, 2>>>>, 1).edges = {<<1, 2>>, <<1, 3>>, <<3, 2>>}
\* Two of three nodes are alike, and nothing in common is found.
ASSUME NothingInCommon ==
  Similarity(Graph(3, {<<1, 2>>}), Graph(3, {<<1, 2>>, <<2, 3>>})).common = 0

ASSUME RulesValid == \A rule \in {TurnBack, Detour, CutEnd, NewEnd} : InterfaceValid(rule)

\* An undirected leg is matched along the edges only.
ASSUME BothIsOneWay ==
  LET q == OfLegs("edge", <<Calls("both")>>, All(<<>>))
  IN  Meaning(q, {<<1, 2>>}) \ AllRows(q, {<<1, 2>>}) = {[a |-> 2, b |-> 1]}
\* 2 is one call away, and found by a query for two to three.
ASSUME DepthsBeginAtOne ==
  LET q == OfDepths(Calls("outgoing"), 2..3)
  IN  [a |-> 1, b |-> 2] \in AllRows(q, {<<1, 2>>}) \ Meaning(q, {<<1, 2>>})
\* Neither a label nor a condition inside a chain is looked at.
ASSUME InsideIsIgnored ==
  \A q \in {OfLegs("chain", <<Leg(Bare("a"), "CALLS", "outgoing", Pat("b", "type")), Leg(Bare("b"), "CALLS", "outgoing", Bare("c"))>>,
                     All(<<>>)),
            OfLegs("chain", <<Calls("outgoing"), Leg(Bare("b"), "CALLS", "outgoing", Bare("c"))>>,
                     If("b", "kind", "=", "type"))} :
    [a |-> 1, c |-> 3] \in AllRows(q, {<<1, 2>>, <<2, 3>>}) \ Meaning(q, {<<1, 2>>, <<2, 3>>})
\* SET and DELETE change every first node, whether it calls anything or not.
ASSUME TargetsNeedNoEdge == CollectMatchTargets(OfLegs("edge", <<Calls("outgoing")>>, All(<<>>))) = Nodes
\* An entity with the label in its row only is found alone, and not along an edge.
ASSUME LabelOfRowIsNotEnough ==
  /\ [a |-> 4] \in AllRows(OfNode(Pat("a", "fn"), All(<<>>)), {})
  /\ AllRows(OfLegs("edge", <<Leg(Pat("a", "fn"), "CALLS", "outgoing", Bare("b"))>>, All(<<>>)), {<<4, 1>>}) = {}

\* 4 leads nowhere, and is taken for one that parts 1 from 3.
ASSUME SeparatorTooLarge == MinVertexCut(1, 3, {<<1, 2>>, <<2, 3>>, <<1, 4>>}).separator = {2, 4}
=============================================================================
