------------------------------- MODULE HnswIndex -------------------------------
(***************************************************************************)
(* A vector index kept in the file of a SqliteGraph: the layers of links,  *)
(* the entry points, the cache of vectors, the numbering of the nodes of a *)
(* layer, and the tables they are saved in and restored from.              *)
(*                                                                         *)
(* The mutex around the map of indexes is held for a whole call, so a call *)
(* is one step.  A process that stops in the middle of a call is a call    *)
(* whose links are not saved, followed by Reopen.  A vector is its         *)
(* position on a line and no two are alike; ef is never smaller than the   *)
(* index, so a search of a layer stops only where no link leads on.        *)
(***************************************************************************)
EXTENDS Integers, Sequences, FiniteSets, FiniteSetsExt, Functions, SequencesExt

CONSTANTS
  Positions,     \* the vectors clients insert and search for
  Batches,       \* the pairs of vectors clients insert in one call
  Configs,       \* configurations an index is created with: [multi, ml]
  Width0,        \* m of the configuration
  ReverseLimit,  \* max(2 m, 32): the links a neighbour keeps before it is pruned
  MaxVector,         \* bound: no vector beyond this id is stored,
  MaxVectorLayers,   \* and while the index has several layers, none beyond this
  PositionsLayers,   \* bound: and no others than these are inserted one by one
  MaxChanges,    \* bound on the deletions, failed saves and batches that fail
  MaxOpens       \* bound on the number of times the index is opened again

ASSUME HnswAssumption ==
  /\ Positions \subseteq Nat /\ PositionsLayers \subseteq Positions
  /\ Batches \subseteq Positions \X Positions
  /\ Configs # {} /\ Configs \subseteq [multi : BOOLEAN, ml : 1..16]
  /\ {Width0, ReverseLimit} \subseteq Nat \ {0}
  /\ ReverseLimit >= 2 * Width0
  /\ MaxVector \in Nat /\ MaxVectorLayers \in 0..MaxVector /\ MaxChanges \in Nat /\ MaxOpens \in Nat

VARIABLES
  ix,       \* the index in memory
  db,       \* its rows: vectors, layers, entry points, and the next id
  events,   \* history: what happened that may hide a vector
  changes,  \* counter behind MaxChanges
  opens     \* counter behind MaxOpens

indexVars == <<ix, db, events, changes, opens>>

-----------------------------------------------------------------------------
(* One layer *)

LevelsOf(i) == IF i.multi THEN 0..(i.ml - 1) ELSE {0}

\* The levels a vector is ever put on.
Levels == UNION {LevelsOf(c) : c \in Configs}

\* ml of a loaded configuration.
LoadedMl == 16

\* max_connections: the width is halved per level when the layer is made, and
\* once more per level in HnswLayer::new; it is never less than one.
Halved(n, level) == Max({w \in 1..n : w = 1 \/ w * 2^level <= n})
Width(level) == Halved(Halved(Width0, level), level)

EmptyLayer == [links |-> [n \in {} |-> {}], eps |-> {}, dirty |-> {}]
NodesOf(layer) == DOMAIN layer.links

\* A sequence without an element, and a function with one more argument.
Without(s, x) ==
  LET kept[n \in 0..Len(s)] ==
        IF n = 0 THEN <<>>
        ELSE IF s[n] = x THEN kept[n - 1] ELSE Append(kept[n - 1], s[n])
  IN  kept[Len(s)]
With(f, x, v) == [y \in DOMAIN f \cup {x} |-> IF y = x THEN v ELSE f[y]]

AddNode(layer, n, level) ==
  [links |-> With(layer.links, n, {}),
   eps   |-> IF Cardinality(layer.eps) < Width(level) THEN layer.eps \cup {n} ELSE layer.eps,
   dirty |-> layer.dirty \cup {n}]

\* Mutant: the nodes that pointed at the removed one are not saved.
RemoveNode_OneDirty(layer, n) ==
  IF n \notin NodesOf(layer) THEN layer
  ELSE [links |-> [x \in NodesOf(layer) |-> IF x = n THEN {} ELSE layer.links[x] \ {n}],
        eps   |-> layer.eps \ {n},
        dirty |-> layer.dirty \cup {n}]

\* Mutant: only the links of the removed node go.
RemoveNode_StillLinked(layer, n) ==
  IF n \notin NodesOf(layer) THEN layer
  ELSE [links |-> [layer.links EXCEPT ![n] = {}],
        eps   |-> layer.eps \ {n},
        dirty |-> layer.dirty \cup {n}]

\* remove_node: the node stays, without links.
RemoveNode(layer, n) ==
  IF n \notin NodesOf(layer) THEN layer
  ELSE [links |-> [x \in NodesOf(layer) |-> IF x = n THEN {} ELSE layer.links[x] \ {n}],
        eps   |-> layer.eps \ {n},
        dirty |-> layer.dirty \cup {n} \cup {x \in NodesOf(layer) : n \in layer.links[x]}]

Lowest(S, k) == {x \in S : Cardinality({y \in S : y < x}) < k}

\* The links of a neighbour with the new node n among them; beyond the limit
\* it keeps n and the lowest of the others.
ReverseLinks(old, n, level) ==
  IF Cardinality(old \cup {n}) <= ReverseLimit THEN old \cup {n}
  ELSE {n} \cup Lowest(old \ {n}, Width(level) - 1)

\* Mutant: the neighbours do not link back to the new node.
Connect_OneWay(layer, n, near, level) ==
  [layer EXCEPT !.links = [x \in NodesOf(layer) |-> IF x = n THEN near ELSE layer.links[x]],
                !.dirty = @ \cup {n} \cup near]

Connect(layer, n, near, level) ==
  [layer EXCEPT !.links = [x \in NodesOf(layer) |->
                             CASE x = n -> near
                               [] x \in near -> ReverseLinks(layer.links[x], n, level)
                               [] OTHER -> layer.links[x]],
                !.dirty = @ \cup {n} \cup near]

-----------------------------------------------------------------------------
(* The numbering of the nodes of a layer *)

\* get_local_id: in a multi-layer index the place of the id among those that
\* joined the layer, the last if it joined twice; otherwise the id less one.  A
\* set with one node, or none.
LocalIds(i, id, level) ==
  LET places == {k \in DOMAIN i.maps[level] : i.maps[level][k] = id}
  IN  IF ~i.multi THEN {id - 1}
      ELSE IF places = {} THEN {} ELSE {Max(places) - 1}
GlobalIds(i, level, n) ==
  IF i.multi THEN {i.maps[level][k] : k \in DOMAIN i.maps[level] \cap {n + 1}}
  ELSE {n + 1}
ToLocal(i, ids, level) == UNION {LocalIds(i, id, level) : id \in ids}

-----------------------------------------------------------------------------
(* Searching a layer *)

\* The vector of a node as far as the map of vectors knows it.
Known(i, vectors, level, nodes) ==
  {n \in nodes : GlobalIds(i, level, n) \cap DOMAIN vectors # {}}
Distance(i, vectors, level, n, q) ==
  LET p == vectors[CHOOSE id \in GlobalIds(i, level, n) : TRUE]
  IN  IF p < q THEN q - p ELSE p - q
Nearest(S, dist, k) == {n \in S : Cardinality({x \in S : dist[x] < dist[n]}) < k}

Linked(layer, S) == UNION {layer.links[n] : n \in S}

\* search_layer_fn with room for every node: what links lead to.
Reached(layer, known, from) ==
  LET R[k \in 0..Cardinality(known)] ==
        IF k = 0 THEN from ELSE R[k - 1] \cup (Linked(layer, R[k - 1]) \cap known)
  IN  R[Cardinality(known)]

\* search_layer_fn with room for one: it moves on while something nearer is
\* linked to what it has seen.
Nearer(layer, known, dist, seen) ==
  {n \in Nearest((Linked(layer, seen) \cap known) \ seen, dist, 1) :
     \A b \in Nearest(seen, dist, 1) : dist[n] < dist[b]}
Climbed(layer, known, dist, from) ==
  LET R[k \in 0..Cardinality(known)] ==
        IF k = 0 THEN {from} ELSE R[k - 1] \cup Nearer(layer, known, dist, R[k - 1])
  IN  CHOOSE n \in Nearest(R[Cardinality(known)], dist, 1) : TRUE

-----------------------------------------------------------------------------
(* Insertion *)

\* get_layer_entry_points, as nodes of the layer the vector joins.
EntryNodes(i, level) ==
  IF level = i.ml - 1 THEN ToLocal(i, Range(i.eps), level)
  ELSE IF level = 0 THEN i.layers[0].eps
  ELSE ToLocal(i, UNION {GlobalIds(i, level + 1, n) : n \in i.layers[level + 1].eps}, level)

Refused(i) == [index |-> i, ok |-> FALSE]
Done(i) == [index |-> i, ok |-> TRUE]

\* insert_into_layer of a vector that is in the cache, as node n of the layer.
InsertNode(i, id, n, level) ==
  LET layer == AddNode(i.layers[level], n, level)
      joined == [i EXCEPT !.layers[level] = layer]
      known == Known(i, i.cache, level, NodesOf(layer))
      entries == EntryNodes(joined, level) \cap NodesOf(layer)
      dist == [x \in known |-> Distance(i, i.cache, level, x, i.cache[id])]
      near == Nearest(Reached(layer, known, entries), dist, Width(level)) \ {n}
  IN  IF n \in NodesOf(i.layers[level]) THEN Refused(i)
      ELSE IF level = 0 /\ NodesOf(layer) = {n} THEN Done(joined)
      ELSE IF ~(entries \subseteq known) THEN Refused(joined)
      ELSE Done([i EXCEPT !.layers[level] = Connect(layer, n, near, level)])

InsertIntoLayer(i, id, level) == InsertNode(i, id, CHOOSE n \in LocalIds(i, id, level) : TRUE, level)

\* The manager numbers the vector on its level and on every level below.
Register(i, id, level) ==
  IF i.multi THEN [i EXCEPT !.maps = [l \in DOMAIN @ |-> IF l <= level THEN Append(@[l], id) ELSE @[l]]]
  ELSE i

\* The layers from the highest down; the first error leaves what was done so far.
Joined(i, id, level) ==
  LET R[k \in 0..(level + 1)] ==
        IF k = 0 THEN Done(i)
        ELSE IF R[k - 1].ok THEN InsertIntoLayer(R[k - 1].index, id, level + 1 - k) ELSE R[k - 1]
  IN  R[level + 1]

\* insert_vector and insert_vector_internal after the vector is stored: it is
\* cached, numbered, and joins the layers.
AddVector(i, id, p, level) ==
  LET cached == [i EXCEPT !.cache = With(@, id, p)]
      last == Joined(Register(cached, id, level), id, level)
  IN  IF ~last.ok THEN last
      ELSE Done([last.index EXCEPT !.eps = IF level >= Len(@) THEN Append(@, id) ELSE @,
                                   !.count = @ + 1])

Shrinks(i, j) == \E l \in Levels : \E n \in NodesOf(i.layers[l]) : ~(i.layers[l].links[n] \subseteq j.layers[l].links[n])

-----------------------------------------------------------------------------
(* The tables *)

Store(d, id, p) == [d EXCEPT !.stored = With(@, id, p), !.next = id + 1]

SavedNodes(i, d, level) == DOMAIN d.rows[level] \cup i.layers[level].dirty
\* persist_topology_inner: the rows of the dirty nodes and all entry points.
Saved(i, d) ==
  [d EXCEPT !.rows = [l \in Levels |->
              [n \in SavedNodes(i, d, l) |->
                 IF n \in i.layers[l].dirty THEN i.layers[l].links[n] ELSE d.rows[l][n]]],
            !.entry = i.eps]
Clean(i) == [i EXCEPT !.layers = [l \in Levels |-> [@[l] EXCEPT !.dirty = {}]]]

\* How persist_topology ends: everything is saved; or BEGIN or a statement
\* fails; or the COMMIT does, and SQLite rolls back (it leaves the transaction
\* open on SQLITE_BUSY, which a COMMIT does not meet in WAL mode).
SaveOutcomes == {"saved", "failed", "commit lost"}

\* persist_topology: one transaction.  What failed stays dirty, but the result
\* of COMMIT is dropped: nothing is dirty after it, written or not.
Persist(i, d, saved) ==
  /\ ix' = IF saved = "failed" THEN i ELSE Clean(i)
  /\ db' = IF saved = "saved" THEN Saved(i, d) ELSE d

NoVectors == [id \in {} |-> 0]

NewIndex(multi, ml) ==
  [multi |-> multi, ml |-> ml, layers |-> [l \in Levels |-> EmptyLayer], eps |-> <<>>,
   count |-> 0, cache |-> NoVectors, maps |-> [l \in Levels |-> <<>>]]

\* restore_topology adds the rows by node and links both ways each time, so a
\* link comes back if the later of the two lists the earlier; then the lowest
\* of them are kept.
RestoredLinks(rows, n, level) ==
  Lowest({x \in rows[n] \cap DOMAIN rows : x < n} \cup {x \in DOMAIN rows : x > n /\ n \in rows[x]},
         Width(level))

RestoredLayer(rows, level) ==
  [links |-> [n \in DOMAIN rows |-> RestoredLinks(rows, n, level)],
   eps   |-> Lowest(DOMAIN rows, Width(level)),
   dirty |-> {}]

\* restore_topology, into an index load_metadata made; with little memory the
\* cache stays empty.
Restored(d, lowMemory) ==
  [NewIndex(FALSE, LoadedMl) EXCEPT
     !.layers = [l \in Levels |-> RestoredLayer(d.rows[l], l)],
     !.eps = d.entry,
     !.count = Cardinality(DOMAIN d.rows[0]),
     !.cache = IF lowMemory THEN NoVectors ELSE d.stored]

\* load_vectors_and_rebuild: every vector is inserted again, by id, and whether
\* links were pruned on the way.
Rebuilt(d) ==
  LET R[id \in 0..(d.next - 1)] ==
        IF id = 0 THEN [index |-> NewIndex(FALSE, LoadedMl), pruned |-> FALSE]
        ELSE IF id \notin DOMAIN d.stored THEN R[id - 1]
        ELSE LET added == AddVector(R[id - 1].index, id, d.stored[id], 0).index
             IN  [index  |-> added,
                  pruned |-> R[id - 1].pruned \/ Shrinks(R[id - 1].index, added)]
      all == R[d.next - 1]
  IN  [all EXCEPT !.index = Clean(@)]

HasLayers(d) == \E l \in Levels : DOMAIN d.rows[l] # {}

-----------------------------------------------------------------------------
(* The calls *)

IndexInit ==
  /\ ix \in {NewIndex(c.multi, c.ml) : c \in Configs}
  /\ db = [stored |-> NoVectors, rows |-> [l \in Levels |-> EmptyLayer.links], entry |-> <<>>, next |-> 1]
  /\ events = {}
  /\ changes = 0
  /\ opens = 0

MayInsert == IF ix.multi THEN PositionsLayers ELSE Positions
Room == IF ix.multi THEN MaxVectorLayers ELSE MaxVector
UsedPositions == Range(ix.cache) \cup Range(db.stored)
May(n) == changes + n <= MaxChanges /\ changes' = changes + n

\* insert_vector: the vector is stored at once, the links after it has joined.
InsertVector(p, level, saved) ==
  /\ db.next <= Room /\ p \in MayInsert \ UsedPositions
  /\ level \in LevelsOf(ix)
  /\ May(IF saved = "saved" THEN 0 ELSE 1)
  /\ LET id == db.next
         d == Store(db, id, p)
         added == AddVector(ix, id, p, level)
     IN  /\ IF added.ok THEN Persist(added.index, d, saved) ELSE ix' = added.index /\ db' = d
         /\ events' = events \cup (IF added.ok THEN {saved} \cap {"commit lost"} ELSE {"failed"})
                             \cup (IF Shrinks(ix, added.index) THEN {"pruned"} ELSE {})
  /\ UNCHANGED opens

\* batch_insert_vectors of two: one transaction for the vectors, the links are
\* saved once at the end.  When one of them cannot join, or the second cannot be
\* stored, or the COMMIT fails, the transaction is rolled back, the ids with it,
\* and the index stays as it is; stored tells how far the storing gets.
Storings == {"first", "both", "committed"}
BatchInsert(p1, p2, stored, saved) ==
  /\ db.next + 1 <= Room /\ {p1, p2} \cap UsedPositions = {} /\ p1 # p2
  /\ May(IF stored = "committed" /\ saved = "saved" THEN 0 ELSE 1)
  /\ LET first == AddVector(ix, db.next, p1, 0)
         second == AddVector(first.index, db.next + 1, p2, 0)
         last == IF first.ok /\ stored # "first" THEN second ELSE first
         committed == first.ok /\ second.ok /\ stored = "committed"
     IN  /\ IF committed
              THEN Persist(last.index, Store(Store(db, db.next, p1), db.next + 1, p2), saved)
              ELSE ix' = last.index /\ UNCHANGED db
         /\ events' = events \cup (IF committed THEN {saved} \cap {"commit lost"} ELSE {"rolled back"})
                             \cup (IF Shrinks(ix, first.index) \/ Shrinks(first.index, last.index)
                                     THEN {"pruned"} ELSE {})
  /\ UNCHANGED opens

\* Another index of the same file takes the next id.
OtherIndexInserts ==
  /\ db.next <= Room
  /\ db' = [db EXCEPT !.next = @ + 1]
  /\ May(1)
  /\ UNCHANGED <<ix, events, opens>>

\* The node delete_vector removes from every layer: the number of the vector
\* in the base layer.
RemovedNode(id) ==
  IF ix.multi /\ LocalIds(ix, id, 0) = {} THEN id ELSE CHOOSE n \in LocalIds(ix, id, 0) : TRUE

\* delete_vector: the row goes at once, the links with the save that ends it.
DeleteVector(id, saved) ==
  /\ May(1)
  /\ LET n == RemovedNode(id)
         i == [ix EXCEPT !.layers = [l \in Levels |-> RemoveNode(@[l], n)],
                         !.eps = Without(@, id),
                         !.count = IF @ = 0 THEN 0 ELSE @ - 1]
     IN  Persist(i, [db EXCEPT !.stored = Restrict(@, DOMAIN @ \ {id})], saved)
  /\ events' = events \cup {IF ix.multi THEN "deleted in layers" ELSE "deleted",
                            IF id \in DOMAIN db.stored THEN "deleted" ELSE "deleted nothing"}
                     \cup ({saved} \cap {"commit lost"})
  /\ UNCHANGED opens

Unsaved(i, d) == \E l \in Levels : d.rows[l] # i.layers[l].links

\* The graph is opened again, after a close or a crash.  load_hnsw_indexes
\* restores what was saved; without any saved layer it builds the index anew.
Reopen(lowMemory) ==
  /\ opens < MaxOpens
  /\ opens' = opens + 1
  /\ ix' = IF HasLayers(db) THEN Restored(db, lowMemory) ELSE Rebuilt(db).index
  /\ events' = events
       \cup (IF HasLayers(db) /\ Unsaved(ix, db) THEN {"unsaved"} ELSE {})
       \cup (IF ~HasLayers(db) /\ DOMAIN db.stored # {} THEN {"rebuilt"} ELSE {})
       \cup (IF ~HasLayers(db) /\ Rebuilt(db).pruned THEN {"pruned"} ELSE {})
       \cup (IF ix.multi /\ \E k \in DOMAIN ix.maps[0] : ix.maps[0][k] # k THEN {"renumbered"} ELSE {})
       \cup (IF HasLayers(db) /\ Unsaved(ix', db) THEN {"restored otherwise"} ELSE {})
  /\ UNCHANGED <<db, changes>>

IndexNext ==
  \/ \E p \in Positions, level \in Levels, saved \in SaveOutcomes : InsertVector(p, level, saved)
  \/ \E batch \in Batches, stored \in Storings, saved \in SaveOutcomes :
       BatchInsert(batch[1], batch[2], stored, saved)
  \/ OtherIndexInserts
  \/ \E id \in 1..MaxVector, saved \in SaveOutcomes : DeleteVector(id, saved)
  \/ \E lowMemory \in BOOLEAN : Reopen(lowMemory)

IndexSpec == IndexInit /\ [][IndexNext]_indexVars

-----------------------------------------------------------------------------
(* search *)

Answer(ok, found) == [ok |-> ok, found |-> found]
Failure == Answer(FALSE, {})

\* load_vectors_as_local_map: the cache, or the stored vectors if it is empty.
Vectors == IF DOMAIN ix.cache # {} THEN ix.cache ELSE db.stored

\* Where the descent through one layer leads from the vectors in at: a set with
\* the next entry point, or none if the layer cannot be entered from there.
Descend(at, level, q) ==
  LET layer == ix.layers[level]
      known == Known(ix, Vectors, level, NodesOf(layer))
      dist == [x \in known |-> Distance(ix, Vectors, level, x, q)]
      start == ToLocal(ix, at, level)
  IN  IF NodesOf(layer) = {} THEN at
      ELSE IF start = {} \/ ~(start \cap NodesOf(layer) \subseteq known) THEN {}
      ELSE IF start \cap NodesOf(layer) = {} THEN at
      ELSE GlobalIds(ix, level, Climbed(layer, known, dist, CHOOSE n \in start : TRUE))

\* search for as many vectors as there are.
Search(q) ==
  LET Top == Max(Levels)
      R[k \in 0..Top] ==
        IF k = 0 THEN {ix.eps[Len(ix.eps)]} ELSE Descend(R[k - 1], Top + 1 - k, q)
      base == ix.layers[0]
      known == Known(ix, Vectors, 0, NodesOf(base))
      start == ToLocal(ix, R[Top], 0)
  IN  IF ix.count = 0 THEN Answer(TRUE, {})
      ELSE IF ix.eps = <<>> THEN Failure
      ELSE IF start = {} \/ ~(start \cap NodesOf(base) \subseteq known) THEN Failure
      ELSE Answer(TRUE, UNION {GlobalIds(ix, 0, n) : n \in Reached(base, known, start \cap NodesOf(base))})

-----------------------------------------------------------------------------
(* Properties *)

\* The layers above the last entry point have no nodes it cannot be found among.
EntryOnTop ==
  \A l \in Levels \ {0} : NodesOf(ix.layers[l]) # {} => ToLocal(ix, {Last(ix.eps)}, l) # {}

\* A search with room for everything finds every stored vector, after the index
\* was opened again too and whatever became of a save, unless something happened
\* that the code loses vectors by: a deletion, an insertion or a batch that
\* failed, links beyond the width of their layer, a stop before the links were
\* saved, a multi-layer index opened again whose nodes are numbered otherwise,
\* or an entry point below the highest layer.
FindsEverything ==
  events \subseteq {"rebuilt", "commit lost"} /\ (ix.count > 0 => EntryOnTop) =>
    \A q \in Positions : Search(q) = Answer(TRUE, DOMAIN db.stored)

\* A search never answers with a vector that is not stored, unless a batch was
\* rolled back or a vector deleted from several layers.
FindsOnlyStored ==
  events \cap {"rolled back", "deleted in layers"} = {} =>
    \A q \in Positions : Search(q).found \subseteq DOMAIN db.stored

\* With nothing left to save, the file holds the links and the entry points
\* of the index, unless it was built anew from its vectors, links beyond the
\* width of a layer were cut when it was restored, or a multi-layer index was
\* opened again whose nodes are numbered otherwise: the node that goes with a
\* deleted vector is then another one, or none.  And unless the COMMIT of a
\* save failed, which leaves nothing to save and the file as it was.
SavedIsCurrent ==
  /\ events \cap {"commit lost", "rebuilt", "renumbered", "restored otherwise"} = {}
  /\ \A l \in Levels : ix.layers[l].dirty = {}
  =>
    /\ \A l \in Levels : db.rows[l] = ix.layers[l].links
    /\ db.entry = ix.eps
=============================================================================
