-------------------------------- MODULE Queries --------------------------------
(***************************************************************************)
(* What a graph of the SQLite backend is asked: the patterns of the Cypher *)
(* subset (cypher.rs), triples of the pattern engine and its fast path,    *)
(* legs from a root (pattern.rs), and has_path.                            *)
(*                                                                         *)
(* A query is what the parser makes of a text.  A row of its answer is the *)
(* binding of its variables to nodes; the fields RETURN picks from the     *)
(* nodes, the order of the rows and LIMIT are left out.  Between two nodes *)
(* there is at most one edge, which has one type, and a leg of a pattern   *)
(* leads from one variable to another.                                     *)
(***************************************************************************)
EXTENDS Traversals

CONSTANTS
  EntityOf,   \* node -> [kind, name, lines, labels, rows]: the row of the
              \* entity, "lines" standing for what its JSON data holds, its
              \* labels, and its <<key, value>> rows of graph_properties
  TypeOf,     \* edge -> its type
  Queries,    \* the queries clients ask
  Legs,       \* the legs clients ask execute_pattern for
  Anything    \* no label in a pattern; no data in an entity

-----------------------------------------------------------------------------
(* Node patterns, [var, label, props], and WHERE *)

\* node_pattern_matches reads the row of the entity; data matches as text only,
\* and "lines" is a number.
NodePatternMatches(pat, n) ==
  /\ pat.label \in {Anything, EntityOf[n].kind}
  /\ \A key \in DOMAIN pat.props : EntityOf[n][key] = pat.props[key]

\* An EXISTS of the SQL reads labels, entity_has_properties the property rows.
RowsMatch(pat, n) ==
  /\ pat.label = Anything \/ pat.label \in EntityOf[n].labels
  /\ \A key \in DOMAIN pat.props : <<key, pat.props[key]>> \in EntityOf[n].rows

\* evaluate_predicate of a clause [var, field, op, value]; only "lines" may be
\* absent, and only it compares as a number.
EvaluatePredicate(clause, n) ==
  LET actual == EntityOf[n][clause.field]
      numeric == clause.field = "lines"
  IN  /\ actual # Anything
      /\ CASE clause.op = "=" -> actual = clause.value
           [] clause.op = "<>" -> actual # clause.value
           [] clause.op = ">" -> numeric /\ actual > clause.value
           [] clause.op = "<=" -> numeric /\ actual <= clause.value

\* A clause about a variable that is not bound filters nothing.
ClauseHolds(clause, row) == clause.var \in DOMAIN row => EvaluatePredicate(clause, row[clause.var])

\* where_expr_to_dnf: the groups of clauses, one of which must hold.
RECURSIVE WhereGroups(_)
RECURSIVE WhereGroups_LastGroup(_)
\* Mutant: of the groups of a term only the last one is combined.
WhereGroups_LastGroup(expr) ==
  CASE expr.is = "atom" -> <<<<expr.clause>>>>
    [] expr.is = "or" -> FlattenSeq([i \in DOMAIN expr.terms |-> WhereGroups(expr.terms[i])])
    [] expr.is = "and" ->
         FoldLeft(LAMBDA acc, t : [k \in DOMAIN acc |-> acc[k] \o Last(WhereGroups(t))],
                  <<<<>>>>, expr.terms)
WhereGroups(expr) ==
  CASE expr.is = "atom" -> <<<<expr.clause>>>>
    [] expr.is = "or" -> FlattenSeq([i \in DOMAIN expr.terms |-> WhereGroups(expr.terms[i])])
    [] expr.is = "and" ->
         FoldLeft(LAMBDA acc, t :
                    LET groups == WhereGroups(t)
                    IN  FlattenSeq([k \in DOMAIN acc |-> [g \in DOMAIN groups |-> acc[k] \o groups[g]]]),
                  <<<<>>>>, expr.terms)

\* A query without WHERE has an empty conjunction, whose one group holds.
WhereMatches(where, row) ==
  LET groups == WhereGroups(where)
  IN  \E g \in DOMAIN groups : \A k \in DOMAIN groups[g] : ClauseHolds(groups[g][k], row)

-----------------------------------------------------------------------------
(* match_triples and its fast path *)

Triple(e, incoming) ==
  [start |-> IF incoming THEN e[2] ELSE e[1], edge |-> e, end |-> IF incoming THEN e[1] ELSE e[2]]
MatchTriples(type, startPat, endPat, incoming, es) ==
  {t \in {Triple(e, incoming) : e \in {f \in es : TypeOf[f] = type}} :
     RowsMatch(startPat, t.start) /\ RowsMatch(endPat, t.end)}

Bare(var) == [var |-> var, label |-> Anything, props |-> <<>>]

\* Without filters: the neighbours in the cache, each looked up in the table.
ExecuteFastPath(type, incoming, es) ==
  LET Stored(n, m) == IF incoming THEN <<m, n>> ELSE <<n, m>>
      Cached(n) == IF incoming THEN Preds(n, es) ELSE Succs(n, es)
  IN  UNION {{[start |-> n, edge |-> Stored(n, m), end |-> m] :
                m \in {c \in Cached(n) : TypeOf[Stored(n, c)] = type}} : n \in Nodes}

-----------------------------------------------------------------------------
(* execute_match: a query is [shape, legs, node, hops, where], a leg *)
(* [from, type, dir, to]                                                    *)

\* query_nodes_by_kind or entity_ids, then node_pattern_matches.
Candidates(pat) == {n \in Nodes : NodePatternMatches(pat, n)}

NodeRows(q) == {row \in {(q.node.var :> n) : n \in Candidates(q.node)} : WhereMatches(q.where, row)}

\* The bindings of a leg: roles are swapped for an incoming one, and everything
\* else goes along the edges, an undirected leg too.
LegRows(leg, es) ==
  IF leg.dir = "incoming"
  THEN {(leg.to.var :> t.start) @@ (leg.from.var :> t.end) :
          t \in MatchTriples(leg.type, leg.to, leg.from, FALSE, es)}
  ELSE {(leg.to.var :> t.end) @@ (leg.from.var :> t.start) :
          t \in MatchTriples(leg.type, leg.from, leg.to, FALSE, es)}

EdgeRows(q, es) == {row \in LegRows(q.legs[1], es) : WhereMatches(q.where, row)}

\* execute_star: the legs are joined on the variables they share, and every
\* node is held against the pattern its variable has first.
Compatible(left, right) == \A var \in DOMAIN left \cap DOMAIN right : left[var] = right[var]
Joined(lefts, rights) == {p[1] @@ p[2] : p \in {r \in lefts \X rights : Compatible(r[1], r[2])}}
PatternsOf(legs) == FlattenSeq([i \in DOMAIN legs |-> <<legs[i].from, legs[i].to>>])
FirstPattern(legs, var) ==
  LET pats == PatternsOf(legs) IN  pats[CHOOSE k \in DOMAIN pats : pats[k].var = var /\ \A j \in 1..(k - 1) : pats[j].var # var]
StarRows(q, es) ==
  {row \in FoldLeft(LAMBDA rows, leg : Joined(rows, LegRows(leg, es)), LegRows(q.legs[1], es), Tail(q.legs)) :
     /\ \A var \in DOMAIN row : NodePatternMatches(FirstPattern(q.legs, var), row[var])
     /\ WhereMatches(q.where, row)}

\* The rows of start and end of a walk, ends[start] being where it leads.
EndRows(q, startPat, endPat, ends) ==
  {row \in UNION {{(startPat.var :> s) @@ (endPat.var :> e) : e \in ends[s] \cap Candidates(endPat)} :
                    s \in Candidates(startPat)} :
     WhereMatches(q.where, row)}

\* The neighbours along the edges of a type, as a walk reads them.
Typed(type, es) == {e \in es : TypeOf[e] = type}
AlongLeg(leg, es) ==
  Rising(IF leg.dir = "incoming" THEN Reversed(Typed(leg.type, es)) ELSE Typed(leg.type, es))

ChainRows(q, es) ==
  LET steps == [i \in DOMAIN q.legs |-> AlongLeg(q.legs[i], es)]
  IN  EndRows(q, q.legs[1].from, Last(q.legs).to, [s \in Nodes |-> ToSet(ChainSorted(s, steps))])

\* execute_variable_depth unites the k_hop answers of all depths.
DepthRows(q, es) ==
  LET leg == q.legs[1]
      Reached(s) == UNION {ToSet(KHopSorted(s, depth, Rising(Typed(leg.type, es)))) :
                          depth \in {d \in q.hops : d > 0}} \ {s}
  IN  EndRows(q, leg.from, leg.to, [s \in Nodes |-> Reached(s)])

AllRows(q, es) ==
  CASE q.shape = "node" -> NodeRows(q)
    [] q.shape = "edge" -> EdgeRows(q, es)
    [] q.shape = "star" -> StarRows(q, es)
    [] q.shape = "chain" -> ChainRows(q, es)
    [] q.shape = "depth" -> DepthRows(q, es)

\* collect_match_targets, the nodes SET and DELETE change: those that match the
\* first node of the pattern.
CollectMatchTargets(q) ==
  LET pat == IF q.shape = "node" THEN q.node ELSE q.legs[1].from
  IN  {n \in Candidates(pat) : WhereMatches(q.where, pat.var :> n)}

-----------------------------------------------------------------------------
(* pattern.rs, query.rs *)

\* execute_pattern: a root, then legs [dir, type, kind], type and kind possibly
\* Anything.
KindFits(kind, n) == kind \in {Anything, EntityOf[n].kind}
NeighborsWithFilters(n, leg, es) ==
  LET along == IF leg.type = Anything THEN es ELSE Typed(leg.type, es)
  IN  IF leg.dir = "incoming" THEN Preds(n, along) ELSE Succs(n, along)
ExecutePattern(start, kind, legs, es) ==
  IF ~KindFits(kind, start) THEN {}
  ELSE FoldLeft(LAMBDA walks, leg :
                  UNION {{Append(w, n) : n \in {x \in NeighborsWithFilters(Last(w), leg, es) : KindFits(leg.kind, x)}} :
                           w \in walks},
                {<<start>>}, legs)

\* has_path: a queue with depths, which ends when it meets b.
HasPath(a, b, maxDepth, es) ==
  \/ a = b
  \/ maxDepth > 0 /\ \E v \in ToSet(VisitsFrom(<<a>>, maxDepth, Rising(es))) :
                       v.depth < maxDepth /\ b \in Succs(v.node, es)

-----------------------------------------------------------------------------
(* What the answers stand for *)

\* There is a walk of k edges.
Linked(k, a, b, es) ==
  LET R[i \in 0..k] == IF i = 0 THEN {a} ELSE UNION {Succs(n, es) : n \in R[i - 1]}
  IN  b \in R[k]

RECURSIVE Truth(_, _)
Truth(expr, row) ==
  CASE expr.is = "atom" -> ClauseHolds(expr.clause, row)
    [] expr.is = "or" -> \E i \in DOMAIN expr.terms : Truth(expr.terms[i], row)
    [] expr.is = "and" -> \A i \in DOMAIN expr.terms : Truth(expr.terms[i], row)

EdgeFor(leg, row, es) ==
  LET along == <<row[leg.from.var], row[leg.to.var]>>
      back == <<row[leg.to.var], row[leg.from.var]>>
      Fits(e) == e \in es /\ TypeOf[e] = leg.type
  IN  (leg.dir # "incoming" /\ Fits(along)) \/ (leg.dir # "outgoing" /\ Fits(back))

\* Every choice of nodes that satisfies the whole pattern and the condition; for
\* a walk of any length, of two different nodes.
Meaning(q, es) ==
  LET pats == IF q.shape = "node" THEN <<q.node>> ELSE PatternsOf(q.legs)
      rows == [{pats[k].var : k \in DOMAIN pats} -> Nodes]
      Right(row) ==
        /\ CASE q.shape = "node" -> TRUE
             [] q.shape = "depth" ->
                  /\ row[pats[1].var] # row[pats[2].var]
                  /\ \E k \in q.hops : Linked(k, row[pats[1].var], row[pats[2].var], Typed(q.legs[1].type, es))
             [] OTHER -> \A i \in DOMAIN q.legs : EdgeFor(q.legs[i], row, es)
        /\ \A k \in DOMAIN pats : NodePatternMatches(pats[k], row[pats[k].var])
        /\ Truth(q.where, row)
      shown == IF q.shape = "chain" THEN {pats[1].var, Last(pats).var} ELSE {pats[k].var : k \in DOMAIN pats}
  IN  {[var \in shown |-> row[var]] : row \in {r \in rows : Right(r)}}

\* Patterns the executor has no exception for: directed legs, nothing asked of
\* the inside of a chain, depths from one on.
Plain(q) ==
  /\ \A i \in DOMAIN q.legs : q.legs[i].dir # "both"
  /\ q.shape = "chain" =>
       /\ \A i \in 1..(Len(q.legs) - 1) : q.legs[i].to.label = Anything /\ q.legs[i].to.props = <<>>
       /\ \A g \in ToSet(WhereGroups(q.where)) : \A clause \in ToSet(g) :
            clause.var \in {q.legs[1].from.var, Last(q.legs).to.var}
  /\ q.shape = "depth" => 1 \in q.hops

\* The labels and property rows of an entity say what its row says.
InStep(n) ==
  /\ EntityOf[n].labels = {EntityOf[n].kind}
  /\ EntityOf[n].rows = {<<key, EntityOf[n][key]>> : key \in {k \in {"kind", "name", "lines"} : EntityOf[n][k] # Anything}}

\* The answer to a plain query has a row for every choice of nodes that matches
\* it and no other, as far as nodes are concerned whose labels and property rows
\* are in step; SET and DELETE of a single node hit just those.
AnswersRight ==
  \A q \in Queries :
    LET Clean(rows) == {row \in rows : \A var \in DOMAIN row : InStep(row[var])}
    IN  Plain(q) =>
          /\ Clean(AllRows(q, edges)) = Clean(Meaning(q, edges))
          /\ q.shape = "node" => {(q.node.var :> n) : n \in CollectMatchTargets(q)} = Meaning(q, edges)

\* match_triples_fast finds what match_triples finds, execute_pattern lists every
\* walk along its legs, and has_path knows of every walk that is short enough.
LegsRight ==
  /\ \A type \in {TypeOf[e] : e \in edges}, incoming \in BOOLEAN :
       ExecuteFastPath(type, incoming, edges) = MatchTriples(type, Bare("a"), Bare("b"), incoming, edges)
  /\ \A start \in Nodes, legs \in Legs :
       ExecutePattern(start, Anything, legs, edges) =
         {w \in {<<start>> \o rest : rest \in [1..Len(legs) -> Nodes]} :
            \A i \in DOMAIN legs :
              /\ KindFits(legs[i].kind, w[i + 1])
              /\ LET e == IF legs[i].dir = "incoming" THEN <<w[i + 1], w[i]>> ELSE <<w[i], w[i + 1]>>
                 IN  e \in edges /\ legs[i].type \in {Anything, TypeOf[e]}}
  /\ \A a \in Nodes : \A b \in Nodes \ {a}, depth \in 0..N :
       HasPath(a, b, depth, edges) <=> \E k \in 1..depth : Linked(k, a, b, edges)
=============================================================================
