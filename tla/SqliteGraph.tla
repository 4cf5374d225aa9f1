----------------------------- MODULE SqliteGraph ------------------------------
(***************************************************************************)
(* The SQLite backend: SqliteGraph instances over one database file, each  *)
(* with its adjacency caches, its query cache and its snapshot, and the    *)
(* dump and load of a graph.                                               *)
(*                                                                         *)
(* A SqliteGraph is not Sync, so an instance is used by one thread; what   *)
(* interleaves are the SQL statements of different instances (threads or   *)
(* processes) on the same file.  A statement outside BEGIN ... COMMIT      *)
(* commits by itself and is one step; a transaction is one step, and a     *)
(* memory operation happens with the statement before it, since nobody     *)
(* else sees the memory.  Any statement that writes may fail (SQLITE_BUSY  *)
(* after the busy timeout), and an instance may die between two steps.     *)
(*                                                                         *)
(* The list of a node is sorted by neighbour, so it is the number of times *)
(* each neighbour occurs in it.  Names, payloads and graph_properties are  *)
(* left out; graph_labels is kept.  Of a traversal's answer the set is     *)
(* kept and the order left out.                                            *)
(***************************************************************************)
EXTENDS Naturals, FiniteSets, Sequences

CONSTANTS
  Inst,          \* the instances on the file
  Kinds,         \* kinds of entities, which are also labels
  Types,         \* edge types
  MaxId,         \* ids of entities and of edges are 1..MaxId
  Queries,       \* the traversals clients ask for: [op, start, depth, dir]
  EntityBatches, \* sequences of kinds clients insert in bulk
  EdgeBatches,   \* sequences of edges clients insert with one call
  Chunkings,     \* sequences of those, the chunks of a bulk_insert_edges
  None,          \* no file, no snapshot, no call
  Does,          \* bound: the operations each instance is used for
  MaxCalls,      \* bound on the number of calls that write or dump
  MaxReads,      \* bound on the number of calls that only read
  MaxFaults      \* bound on failing statements, deaths and fresh databases

Ids == 1..MaxId
NewEdge == [from : Ids, to : Ids, type : Types]
Edge == [id : Ids, from : Ids, to : Ids, type : Types]

\* The calls that take more than one step, and where they are.
Calls ==
  [op : {"insert_entity"}, id : Ids, kind : Kinds] \cup
  [op : {"delete_entity"}, id : Ids] \cup
  [op : {"insert_edges"}, edges : Seq(NewEdge), checked : Nat] \cup
  [op : {"bulk_insert_edges"}, chunks : Seq(Seq(NewEdge)) \ {<<>>}] \cup
  [op : {"dump"}, part : {"entities", "edges"}, left : SUBSET Ids]

\* Rows of graph_entities with ids up to n, and dump files with their history.
RowsUpTo(n) == UNION {[S -> Kinds] : S \in SUBSET (1..n)}
Labels == SUBSET (Ids \X Kinds)
Graphs == [entities : RowsUpTo(MaxId), edges : SUBSET Edge, labels : Labels,
           raced : SUBSET Ids, cut : SUBSET Ids]
Files == [entities : RowsUpTo(MaxId), edges : SUBSET Edge, labels : Labels,
          ok : BOOLEAN, whole : BOOLEAN, quiet : BOOLEAN, src : Graphs]

ASSUME SqliteAssumption ==
  /\ MaxId \in Nat /\ MaxCalls \in Nat /\ MaxReads \in Nat /\ MaxFaults \in Nat
  /\ None \notin Kinds \cup Types
  /\ EntityBatches \subseteq Seq(Kinds)
  /\ EdgeBatches \subseteq Seq(NewEdge) \ {<<>>}
  /\ Chunkings \subseteq Seq(Seq(NewEdge)) \ {<<>>}
  /\ None \notin Calls \cup Files

VARIABLES
  entities,   \* rows of graph_entities: id -> kind
  edges,      \* rows of graph_edges
  labels,     \* rows of graph_labels
  lastEntity, lastEdge,  \* the AUTOINCREMENT counters
  outgoing, incoming,    \* per instance: adjacency caches
  answers,    \* per instance: query cache
  current,    \* per instance: the state published by the snapshot manager
  held,       \* per instance: the snapshot a client holds
  call,       \* per instance: the call it is in
  file,       \* the dump file
  foreign,    \* history: instances whose caches another one's write passed by
  raced,      \* history: edges inserted although an end was gone by then
  cut,        \* history: entities whose edges a delete did not get to
  given,      \* history: labels given to an entity
  unlabelled, \* history: entities whose kind is not sure to be a label
  recycled,   \* history: ids to come that have labels in a loaded graph
  disturbed,  \* history: instances whose dump another one's write came into
  calls, reads, faults   \* counters behind MaxCalls, MaxReads and MaxFaults

rowVars == <<entities, edges, labels, lastEntity, lastEdge>>
memVars == <<outgoing, incoming, answers, current, held>>
histVars == <<foreign, raced, cut, given, unlabelled, recycled>>
vars == <<rowVars, memVars, call, file, histVars, disturbed, calls, reads, faults>>

-----------------------------------------------------------------------------
\* SELECT to_id FROM graph_edges WHERE from_id = n, and the other way round.
Targets(n, es) == [m \in Ids |-> Cardinality({e \in es : e.from = n /\ e.to = m})]
Sources(n, es) == [m \in Ids |-> Cardinality({e \in es : e.to = n /\ e.from = m})]
AllTargets(es) == [n \in Ids |-> Targets(n, es)]
AllSources(es) == [n \in Ids |-> Sources(n, es)]

Dangling(es, ents) == {e \in es : e.from \notin DOMAIN ents \/ e.to \notin DOMAIN ents}
LabelsOf(x) == {l \in Kinds : <<x, l>> \in labels}

Empty == <<>>

Init ==
  /\ entities = Empty /\ edges = {} /\ labels = {}
  /\ lastEntity = 0 /\ lastEdge = 0
  /\ outgoing = [i \in Inst |-> Empty] /\ incoming = [i \in Inst |-> Empty]
  /\ answers = [i \in Inst |-> Empty]
  /\ current = [i \in Inst |-> [outgoing |-> Empty, incoming |-> Empty]]
  /\ held = [i \in Inst |-> None]
  /\ call = [i \in Inst |-> None]
  /\ file = None
  /\ foreign = {} /\ raced = {} /\ cut = {} /\ given = {}
  /\ unlabelled = {} /\ recycled = {} /\ disturbed = {}
  /\ calls = 0 /\ reads = 0 /\ faults = 0

-----------------------------------------------------------------------------
(* Memory *)

Put(f, k, v) == [x \in DOMAIN f \cup {k} |-> IF x = k THEN v ELSE f[x]]

\* invalidate_caches
InvalidateCaches(i) ==
  /\ outgoing' = [outgoing EXCEPT ![i] = Empty]
  /\ incoming' = [incoming EXCEPT ![i] = Empty]
  /\ answers' = [answers EXCEPT ![i] = Empty]

\* Instance i changed edges and emptied its caches: the others' are passed by.
Wrote(i) == foreign' = (foreign \cup Inst) \ {i}

Idle(i) == call[i] = None
MayStart(i, op) ==
  /\ Idle(i)
  /\ op \in Does[i]
  /\ calls < MaxCalls
  /\ calls' = calls + 1
MayRead(i, op) ==
  /\ Idle(i)
  /\ op \in Does[i]
  /\ reads < MaxReads
  /\ reads' = reads + 1
Fault == faults < MaxFaults /\ faults' = faults + 1
Enter(i, c) == call' = [call EXCEPT ![i] = c]
Return(i) == call' = [call EXCEPT ![i] = None]
In(i, op) == call[i] # None /\ call[i].op = op

\* The list fetch_outgoing answers with, from the cache if it is there.
OutList(i, n) == IF n \in DOMAIN outgoing[i] THEN outgoing[i][n] ELSE Targets(n, edges)
InList(i, n) == IF n \in DOMAIN incoming[i] THEN incoming[i][n] ELSE Sources(n, edges)

\* On a miss the list is read and cached.
FetchOutgoing(i, n) ==
  /\ MayRead(i, "read") /\ n \notin DOMAIN outgoing[i]
  /\ outgoing' = [outgoing EXCEPT ![i] = Put(@, n, OutList(i, n))]
  /\ UNCHANGED <<rowVars, incoming, answers, current, held, call, file, histVars,
                 calls, faults>>
FetchIncoming(i, n) ==
  /\ MayRead(i, "read") /\ n \notin DOMAIN incoming[i]
  /\ incoming' = [incoming EXCEPT ![i] = Put(@, n, InList(i, n))]
  /\ UNCHANGED <<rowVars, outgoing, answers, current, held, call, file, histVars,
                 calls, faults>>

\* The nodes within d steps of the start of q, in the given lists.
Within(q, list) ==
  LET within[d \in 0..q.depth] ==
        IF d = 0 THEN {q.start}
        ELSE within[d - 1] \cup {m \in Ids : \E n \in within[d - 1] : list[n][m] > 0}
  IN  within

ListsOf(i, dir) == [n \in Ids |-> IF dir = "out" THEN OutList(i, n) ELSE InList(i, n)]
AnswerFrom(q, list) ==
  IF q.op = "bfs" THEN Within(q, list)[q.depth] ELSE Within(q, list)[q.depth] \ {q.start}

\* bfs and k_hop: a cached answer is returned; otherwise every node nearer than
\* depth is expanded by fetch_outgoing or fetch_incoming, which cache its list.
\* bfs looks up its start first, and caches nothing if there is none.
Query(i, q) ==
  /\ MayRead(i, "query") /\ q \notin DOMAIN answers[i]
  /\ q.op = "bfs" => q.start \in DOMAIN entities
  /\ LET list == ListsOf(i, q.dir)
         read == {n \in Ids : q.depth > 0 /\ n \in Within(q, list)[q.depth - 1]}
         Filled(cache) == [n \in DOMAIN cache \cup read |-> list[n]]
     IN  /\ answers' = [answers EXCEPT ![i] = Put(@, q, AnswerFrom(q, list))]
         /\ outgoing' = IF q.dir = "out" THEN [outgoing EXCEPT ![i] = Filled(@)] ELSE outgoing
         /\ incoming' = IF q.dir = "in" THEN [incoming EXCEPT ![i] = Filled(@)] ELSE incoming
  /\ UNCHANGED <<rowVars, current, held, call, file, histVars, calls, faults>>

\* update_snapshot publishes copies of the two caches.
Copies(i) == [outgoing |-> outgoing[i], incoming |-> incoming[i]]

\* Mutant: the published state is taken before it is brought up to date.
AcquireSnapshot_TakesFirst(i) ==
  /\ MayRead(i, "snapshot")
  /\ current' = [current EXCEPT ![i] = Copies(i)]
  /\ held' = [held EXCEPT ![i] =
       [outgoing |-> current[i].outgoing, incoming |-> current[i].incoming,
        of |-> edges, foreign |-> i \in foreign]]
  /\ UNCHANGED <<rowVars, outgoing, incoming, answers, call, file, histVars, calls, faults>>

\* The history fields of a snapshot are the edges there were when it was taken,
\* and whether the caches had been passed by.
AcquireSnapshot(i) ==
  /\ MayRead(i, "snapshot")
  /\ current' = [current EXCEPT ![i] = Copies(i)]
  /\ held' = [held EXCEPT ![i] =
       [outgoing |-> outgoing[i], incoming |-> incoming[i],
        of |-> edges, foreign |-> i \in foreign]]
  /\ UNCHANGED <<rowVars, outgoing, incoming, answers, call, file, histVars, calls, faults>>

-----------------------------------------------------------------------------
(* Entities *)

\* The rows that hold nothing of an entity, or of an edge, but its absence.
NewEntities(kinds) == [x \in DOMAIN entities \cup (lastEntity + 1)..(lastEntity + Len(kinds)) |->
  IF x <= lastEntity THEN entities[x] ELSE kinds[x - lastEntity]]
FitsEntities(n) == lastEntity + n <= MaxId

\* Mutant: ids are not AUTOINCREMENT, so the next id is one past the largest row.
InsertEntity_MaxRowid(i, k) ==
  /\ MayStart(i, "insert_entity") /\ FitsEntities(1)
  /\ LET id == 1 + CHOOSE x \in 0..MaxId : /\ x \in DOMAIN entities \cup {0}
                                           /\ \A y \in DOMAIN entities : y <= x
     IN  /\ entities' = Put(entities, id, k)
         /\ lastEntity' = IF id > lastEntity THEN id ELSE lastEntity
         /\ Enter(i, [op |-> "insert_entity", id |-> id, kind |-> k])
         /\ given' = {g \in given : g[1] # id}
         /\ unlabelled' = unlabelled \cup {id}
  /\ UNCHANGED <<edges, labels, lastEdge, memVars, file, foreign, raced, cut, recycled, faults>>

\* insert_entity: the row first ...
InsertEntity(i, k) ==
  /\ MayStart(i, "insert_entity") /\ FitsEntities(1)
  /\ LET id == lastEntity + 1
     IN  /\ entities' = Put(entities, id, k)
         /\ lastEntity' = id
         /\ Enter(i, [op |-> "insert_entity", id |-> id, kind |-> k])
         /\ given' = {g \in given : g[1] # id}
         /\ unlabelled' = unlabelled \cup {id}
  /\ UNCHANGED <<edges, labels, lastEdge, memVars, file, foreign, raced, cut, recycled, faults>>

\* ... then its kind as a label.
InsertLabel(i) ==
  /\ In(i, "insert_entity")
  /\ LET c == call[i]
     IN  /\ labels' = labels \cup {<<c.id, c.kind>>}
         /\ given' = given \cup {<<c.id, c.kind>>}
         /\ unlabelled' = unlabelled \ IF c.id \in DOMAIN entities /\ entities[c.id] = c.kind
                                       THEN {c.id} ELSE {}
  /\ Return(i)
  /\ UNCHANGED <<entities, edges, lastEntity, lastEdge, memVars, file, foreign, raced,
                 cut, recycled, calls, faults>>

\* The label fails: the caller gets an error and the row stays.
InsertLabelFails(i) ==
  /\ In(i, "insert_entity") /\ Fault
  /\ Return(i)
  /\ UNCHANGED <<rowVars, memVars, file, histVars, calls>>

\* insert_entities_bulk: rows and labels in one transaction.
InsertEntitiesBulk(i, kinds) ==
  /\ MayStart(i, "insert_entities_bulk") /\ FitsEntities(Len(kinds))
  /\ LET new == {<<lastEntity + n, kinds[n]>> : n \in DOMAIN kinds}
     IN  labels' = labels \cup new /\ given' = given \cup new
  /\ entities' = NewEntities(kinds)
  /\ lastEntity' = lastEntity + Len(kinds)
  /\ UNCHANGED <<edges, lastEdge, memVars, call, file, foreign, raced, cut, unlabelled,
                 recycled, faults>>

\* bulk_insert_entities of graph_opt: rows only, then the caches are emptied
\* and that emptiness is published as the snapshot.
BulkInsertEntities(i, kinds) ==
  /\ MayStart(i, "bulk_insert_entities") /\ FitsEntities(Len(kinds))
  /\ entities' = NewEntities(kinds)
  /\ lastEntity' = lastEntity + Len(kinds)
  /\ unlabelled' = unlabelled \cup (lastEntity + 1)..(lastEntity + Len(kinds))
  /\ InvalidateCaches(i)
  /\ foreign' = foreign \ {i}
  /\ current' = [current EXCEPT ![i] = [outgoing |-> Empty, incoming |-> Empty]]
  /\ UNCHANGED <<edges, labels, lastEdge, held, call, file, raced, cut, given, recycled,
                 faults>>

\* update_entity: the row only; labels keep the old kind.
UpdateEntity(i, x, k) ==
  /\ MayStart(i, "update_entity")
  /\ x \in DOMAIN entities
  /\ entities' = [entities EXCEPT ![x] = k]
  /\ unlabelled' = IF k \in LabelsOf(x) THEN unlabelled \ {x} ELSE unlabelled \cup {x}
  /\ UNCHANGED <<edges, labels, lastEntity, lastEdge, memVars, call, file, foreign, raced,
                 cut, given, recycled, faults>>

\* index::add_label, for an id some insert has returned.
AddLabel(i, x, l) ==
  /\ MayStart(i, "add_label")
  /\ x \in 1..lastEntity
  /\ labels' = labels \cup {<<x, l>>}
  /\ given' = given \cup {<<x, l>>}
  /\ unlabelled' = IF x \in DOMAIN entities /\ entities[x] = l THEN unlabelled \ {x}
                   ELSE unlabelled
  /\ UNCHANGED <<entities, edges, lastEntity, lastEdge, memVars, call, file, foreign, raced,
                 cut, recycled, faults>>

\* delete_entity: the row first; an id without a row is an error and no change.
DeleteEntity(i, x) ==
  /\ MayStart(i, "delete_entity")
  /\ x \in DOMAIN entities
  /\ entities' = [y \in DOMAIN entities \ {x} |-> entities[y]]
  /\ Enter(i, [op |-> "delete_entity", id |-> x])
  /\ UNCHANGED <<edges, labels, lastEntity, lastEdge, memVars, file, histVars, faults>>

\* Mutant: only the edges that leave the entity are deleted with it.
DeleteItsEdges_Outgoing(i) ==
  /\ In(i, "delete_entity")
  /\ edges' = {e \in edges : e.from # call[i].id}
  /\ InvalidateCaches(i) /\ Wrote(i)
  /\ Return(i)
  /\ UNCHANGED <<entities, labels, lastEntity, lastEdge, current, held, file, raced, cut,
                 given, unlabelled, recycled, calls, faults>>

\* ... then its edges, in both directions; its labels stay.
DeleteItsEdges(i) ==
  /\ In(i, "delete_entity")
  /\ LET x == call[i].id IN edges' = {e \in edges : e.from # x /\ e.to # x}
  /\ InvalidateCaches(i) /\ Wrote(i)
  /\ Return(i)
  /\ UNCHANGED <<entities, labels, lastEntity, lastEdge, current, held, file, raced, cut,
                 given, unlabelled, recycled, calls, faults>>

\* The second statement fails: the edges stay, and so do the caches.  The call
\* cannot be repeated, for the entity is not found any more.
DeleteItsEdgesFails(i) ==
  /\ In(i, "delete_entity") /\ Fault
  /\ cut' = cut \cup {call[i].id}
  /\ Return(i)
  /\ UNCHANGED <<rowVars, memVars, file, foreign, raced, given, unlabelled, recycled, calls>>

-----------------------------------------------------------------------------
(* Edges *)

\* Rows for the new edges at some positions of a sequence, with ids in that order.
Rows(es, at) ==
  {[id |-> lastEdge + Cardinality({m \in at : m <= n}),
    from |-> es[n].from, to |-> es[n].to, type |-> es[n].type] : n \in at}
FitsEdges(n) == lastEdge + n <= MaxId

\* insert_edge and insert_edges_bulk first look up the ends, one after another.
BeginEdges(i, es) ==
  /\ MayStart(i, IF Len(es) = 1 THEN "insert_edge" ELSE "insert_edges_bulk")
  /\ Enter(i, [op |-> "insert_edges", edges |-> es, checked |-> 0])
  /\ UNCHANGED <<rowVars, memVars, file, histVars, faults>>

EndOf(es, n) == IF n % 2 = 0 THEN es[(n \div 2) + 1].from ELSE es[(n \div 2) + 1].to
AllChecked(c) == c.checked = 2 * Len(c.edges)

EndExists(i) ==
  /\ In(i, "insert_edges") /\ ~AllChecked(call[i])
  /\ EndOf(call[i].edges, call[i].checked) \in DOMAIN entities
  /\ call' = [call EXCEPT ![i].checked = @ + 1]
  /\ UNCHANGED <<rowVars, memVars, file, histVars, calls, faults>>

\* An end that is missing ends the call.
EndMissing(i) ==
  /\ In(i, "insert_edges") /\ ~AllChecked(call[i])
  /\ EndOf(call[i].edges, call[i].checked) \notin DOMAIN entities
  /\ Return(i)
  /\ UNCHANGED <<rowVars, memVars, file, histVars, calls, faults>>

\* Mutant: the caches are kept.
InsertEdges_KeepsCaches(i) ==
  /\ In(i, "insert_edges") /\ AllChecked(call[i]) /\ FitsEdges(Len(call[i].edges))
  /\ LET new == Rows(call[i].edges, DOMAIN call[i].edges)
     IN  edges' = edges \cup new /\ raced' = raced \cup {e.id : e \in Dangling(new, entities)}
  /\ lastEdge' = lastEdge + Len(call[i].edges)
  /\ Wrote(i)
  /\ Return(i)
  /\ UNCHANGED <<entities, labels, lastEntity, memVars, file, cut, given, unlabelled,
                 recycled, calls, faults>>

\* Then all of them are inserted in one transaction (one statement for one
\* edge) and the caches are emptied.
InsertEdges(i) ==
  /\ In(i, "insert_edges") /\ AllChecked(call[i]) /\ FitsEdges(Len(call[i].edges))
  /\ LET new == Rows(call[i].edges, DOMAIN call[i].edges)
     IN  edges' = edges \cup new /\ raced' = raced \cup {e.id : e \in Dangling(new, entities)}
  /\ lastEdge' = lastEdge + Len(call[i].edges)
  /\ InvalidateCaches(i) /\ Wrote(i)
  /\ Return(i)
  /\ UNCHANGED <<entities, labels, lastEntity, current, held, file, cut, given, unlabelled,
                 recycled, calls, faults>>

InsertEdgesFails(i) ==
  /\ In(i, "insert_edges") /\ AllChecked(call[i]) /\ Fault
  /\ Return(i)
  /\ UNCHANGED <<rowVars, memVars, file, histVars, calls>>

\* bulk_insert_edges of graph_opt: chunks of the batch size, each in a
\* transaction that looks up the ends itself and skips a repeated edge.
BeginChunks(i, chunks) ==
  /\ MayStart(i, "bulk_insert_edges")
  /\ Enter(i, [op |-> "bulk_insert_edges", chunks |-> chunks])
  /\ UNCHANGED <<rowVars, memVars, file, histVars, faults>>

\* The positions of the edges that are not repeated ones.
Firsts(es) == {n \in DOMAIN es : \A m \in 1..(n - 1) : es[m] # es[n]}
\* The ends are counted, so that an edge from an entity to itself is refused.
HaveEnds(es) ==
  \A n \in DOMAIN es : Cardinality({es[n].from, es[n].to} \cap DOMAIN entities) = 2

InsertChunk(i) ==
  /\ In(i, "bulk_insert_edges")
  /\ LET c  == call[i].chunks
         es == Head(c)
     IN  /\ HaveEnds(es) /\ FitsEdges(Cardinality(Firsts(es)))
         /\ edges' = edges \cup Rows(es, Firsts(es))
         /\ lastEdge' = lastEdge + Cardinality(Firsts(es))
         /\ IF Len(c) = 1 THEN Return(i) ELSE call' = [call EXCEPT ![i].chunks = Tail(@)]
  /\ InvalidateCaches(i) /\ Wrote(i)
  /\ current' = [current EXCEPT ![i] = [outgoing |-> Empty, incoming |-> Empty]]
  /\ UNCHANGED <<entities, labels, lastEntity, held, file, raced, cut, given, unlabelled,
                 recycled, calls, faults>>

\* A chunk with a missing end is rolled back; the chunks before it stay.
ChunkRefused(i) ==
  /\ In(i, "bulk_insert_edges")
  /\ ~HaveEnds(Head(call[i].chunks))
  /\ Return(i)
  /\ UNCHANGED <<rowVars, memVars, file, histVars, calls, faults>>

DeleteEdge(i, e) ==
  /\ MayStart(i, "delete_edge")
  /\ e \in edges
  /\ edges' = edges \ {e}
  /\ InvalidateCaches(i) /\ Wrote(i)
  /\ UNCHANGED <<entities, labels, lastEntity, lastEdge, current, held, call, file, raced,
                 cut, given, unlabelled, recycled, faults>>

-----------------------------------------------------------------------------
(* Dump and load *)

Least(S) == CHOOSE x \in S : \A y \in S : x <= y
Deleting == {call[i].id : i \in {j \in Inst : In(j, "delete_entity")}}

\* Records are written one by one.  The history fields: the rows when the dump
\* began, whether they stayed as they were, whether dump_graph_to_path returned
\* Ok, and whether everything reached the file.
Record(f, i) == [f EXCEPT !.quiet = @ /\ i \notin disturbed]

\* dump_graph_to_path truncates the file and lists the entities.
DumpBegin(i) ==
  /\ MayStart(i, "dump") /\ \A j \in Inst : ~In(j, "dump")
  /\ file' = [entities |-> Empty, edges |-> {}, labels |-> {}, ok |-> FALSE, whole |-> TRUE,
              quiet |-> TRUE,
              src |-> [entities |-> entities, edges |-> edges, labels |-> labels,
                       raced |-> raced, cut |-> cut \cup Deleting]]
  /\ Enter(i, [op |-> "dump", part |-> "entities", left |-> DOMAIN entities])
  /\ UNCHANGED <<rowVars, memVars, histVars, faults>>

DumpEntity(i) ==
  /\ In(i, "dump") /\ call[i].part = "entities" /\ call[i].left # {}
  /\ LET x == Least(call[i].left)
     IN  /\ x \in DOMAIN entities
         /\ file' = Record([file EXCEPT !.entities = Put(@, x, entities[x])], i)
         /\ call' = [call EXCEPT ![i].left = @ \ {x}]
  /\ UNCHANGED <<rowVars, memVars, histVars, calls, faults>>

\* The cursor over the edge ids sees the edges of this moment.
DumpEdgeIds(i) ==
  /\ In(i, "dump") /\ call[i].part = "entities" /\ call[i].left = {}
  /\ Enter(i, [op |-> "dump", part |-> "edges", left |-> {e.id : e \in edges}])
  /\ UNCHANGED <<rowVars, memVars, file, histVars, calls, faults>>

\* get_edge reads each of them through another connection.
DumpEdge(i) ==
  /\ In(i, "dump") /\ call[i].part = "edges" /\ call[i].left # {}
  /\ LET x == Least(call[i].left)
     IN  /\ \E e \in edges : e.id = x /\ file' = Record([file EXCEPT !.edges = @ \cup {e}], i)
         /\ call' = [call EXCEPT ![i].left = @ \ {x}]
  /\ UNCHANGED <<rowVars, memVars, histVars, calls, faults>>

\* An entity or an edge that is gone ends the dump; what was written stays.
DumpFails(i) ==
  /\ In(i, "dump") /\ call[i].left # {}
  /\ LET x == Least(call[i].left)
     IN  IF call[i].part = "entities" THEN x \notin DOMAIN entities
                                      ELSE x \notin {e.id : e \in edges}
  /\ Return(i)
  /\ UNCHANGED <<rowVars, memVars, file, histVars, calls, faults>>

DumpLabels(i) ==
  /\ In(i, "dump") /\ call[i].part = "edges" /\ call[i].left = {}
  /\ file' = Record([file EXCEPT !.labels = labels, !.ok = TRUE], i)
  /\ Return(i)
  /\ UNCHANGED <<rowVars, memVars, histVars, calls, faults>>

\* The BufWriter is dropped without a flush, so an error of its last write is
\* not seen: the call returns Ok and the file of a small graph is empty.
DumpUnwritten(i) ==
  /\ In(i, "dump") /\ call[i].part = "edges" /\ call[i].left = {} /\ Fault
  /\ file' = [file EXCEPT !.entities = Empty, !.edges = {}, !.labels = {}, !.ok = TRUE,
                          !.whole = FALSE]
  /\ Return(i)
  /\ UNCHANGED <<rowVars, memVars, histVars, calls>>

\* Mutant: the labels of the graph before are not deleted.
Load_KeepsLabels(i) ==
  /\ MayStart(i, "load") /\ file # None /\ \A j \in Inst : ~In(j, "dump")
  /\ entities' = file.entities /\ edges' = file.edges /\ labels' = labels \cup file.labels
  /\ lastEntity' = Least({x \in lastEntity..MaxId : \A y \in DOMAIN file.entities : y <= x})
  /\ lastEdge' = Least({x \in lastEdge..MaxId : \A e \in file.edges : e.id <= x})
  /\ InvalidateCaches(i) /\ Wrote(i)
  /\ raced' = IF file.quiet THEN file.src.raced
              ELSE {e.id : e \in Dangling(file.edges, file.entities)}
  /\ cut' = IF file.quiet THEN file.src.cut ELSE {}
  /\ given' = {g \in file.labels : g[1] \in DOMAIN file.entities}
  /\ unlabelled' = {x \in DOMAIN file.entities : <<x, file.entities[x]>> \notin file.labels}
  /\ recycled' = {x \in Ids : x > lastEntity' /\ \E l \in Kinds : <<x, l>> \in file.labels}
  /\ UNCHANGED <<current, held, call, file, faults>>

\* load_graph_from_reader replaces every row in one transaction.  A file that
\* ends early is a smaller graph.
Load(i) ==
  /\ MayStart(i, "load") /\ file # None /\ \A j \in Inst : ~In(j, "dump")
  /\ entities' = file.entities /\ edges' = file.edges /\ labels' = file.labels
  /\ lastEntity' = Least({x \in lastEntity..MaxId : \A y \in DOMAIN file.entities : y <= x})
  /\ lastEdge' = Least({x \in lastEdge..MaxId : \A e \in file.edges : e.id <= x})
  /\ InvalidateCaches(i) /\ Wrote(i)
  /\ raced' = IF file.quiet THEN file.src.raced
              ELSE {e.id : e \in Dangling(file.edges, file.entities)}
  /\ cut' = IF file.quiet THEN file.src.cut ELSE {}
  /\ given' = {g \in file.labels : g[1] \in DOMAIN file.entities}
  /\ unlabelled' = {x \in DOMAIN file.entities : <<x, file.entities[x]>> \notin file.labels}
  /\ recycled' = {x \in Ids : x > lastEntity' /\ \E l \in Kinds : <<x, l>> \in file.labels}
  /\ UNCHANGED <<current, held, call, file, faults>>

-----------------------------------------------------------------------------
(* Deaths, new files *)

\* The memory of an instance and the call it was in are lost; a dump that was
\* being written keeps what the buffer had let go.
Die(i) ==
  /\ ~Idle(i) /\ Fault
  /\ outgoing' = [outgoing EXCEPT ![i] = Empty] /\ incoming' = [incoming EXCEPT ![i] = Empty]
  /\ answers' = [answers EXCEPT ![i] = Empty]
  /\ current' = [current EXCEPT ![i] = [outgoing |-> Empty, incoming |-> Empty]]
  /\ held' = [held EXCEPT ![i] = None]
  /\ foreign' = foreign \ {i}
  /\ cut' = IF In(i, "delete_entity") THEN cut \cup {call[i].id} ELSE cut
  /\ file' = IF ~In(i, "dump") THEN file
             ELSE [file EXCEPT !.entities = Empty, !.edges = {}, !.labels = {}]
  /\ Return(i)
  /\ UNCHANGED <<rowVars, raced, given, unlabelled, recycled, calls>>

\* Every instance is opened on a new database file.
Fresh ==
  /\ \A i \in Inst : Idle(i)
  /\ Fault
  /\ entities' = Empty /\ edges' = {} /\ labels' = {} /\ lastEntity' = 0 /\ lastEdge' = 0
  /\ outgoing' = [i \in Inst |-> Empty] /\ incoming' = [i \in Inst |-> Empty]
  /\ answers' = [i \in Inst |-> Empty]
  /\ current' = [i \in Inst |-> [outgoing |-> Empty, incoming |-> Empty]]
  /\ held' = [i \in Inst |-> None]
  /\ foreign' = {} /\ raced' = {} /\ cut' = {} /\ given' = {} /\ unlabelled' = {}
  /\ recycled' = {}
  /\ UNCHANGED <<call, file, calls>>

-----------------------------------------------------------------------------
Reads(i) ==
  \/ \E n \in Ids : FetchOutgoing(i, n) \/ FetchIncoming(i, n)
  \/ \E q \in Queries : Query(i, q)
  \/ AcquireSnapshot(i)

EntityWrites(i) ==
  \/ \E k \in Kinds : InsertEntity(i, k)
  \/ InsertLabel(i) \/ InsertLabelFails(i)
  \/ \E kinds \in EntityBatches : InsertEntitiesBulk(i, kinds) \/ BulkInsertEntities(i, kinds)
  \/ \E x \in Ids, k \in Kinds : UpdateEntity(i, x, k) \/ AddLabel(i, x, k)
  \/ \E x \in Ids : DeleteEntity(i, x)
  \/ DeleteItsEdges(i) \/ DeleteItsEdgesFails(i)

EdgeWrites(i) ==
  \/ \E es \in EdgeBatches : BeginEdges(i, es)
  \/ EndExists(i) \/ EndMissing(i) \/ InsertEdges(i) \/ InsertEdgesFails(i)
  \/ \E chunks \in Chunkings : BeginChunks(i, chunks)
  \/ InsertChunk(i) \/ ChunkRefused(i)
  \/ \E e \in edges : DeleteEdge(i, e)

DumpAndLoad(i) ==
  \/ DumpBegin(i) \/ DumpEntity(i) \/ DumpEdgeIds(i) \/ DumpEdge(i) \/ DumpFails(i)
  \/ DumpLabels(i) \/ DumpUnwritten(i)
  \/ Load(i)

\* A dump is disturbed once a row changes while it runs.
Watch == disturbed' = {i \in Inst : /\ In(i, "dump") /\ call'[i] # None
                                    /\ i \in disturbed \/ rowVars' # rowVars}

Next ==
  /\ \/ \E i \in Inst : Reads(i)
     \/ /\ \/ \E i \in Inst : EntityWrites(i) \/ EdgeWrites(i) \/ DumpAndLoad(i) \/ Die(i)
           \/ Fresh
        /\ UNCHANGED reads
  /\ Watch

Spec == Init /\ [][Next]_vars

-----------------------------------------------------------------------------
(* Properties *)

TypeOK ==
  /\ entities \in RowsUpTo(lastEntity)
  /\ edges \subseteq Edge /\ \A e \in edges : e.id <= lastEdge
  /\ labels \subseteq Ids \X Kinds
  /\ lastEntity \in 0..MaxId /\ lastEdge \in 0..MaxId
  /\ \A e, f \in edges : e.id = f.id => e = f

\* Unless another instance has changed edges since its caches were emptied, the
\* cached lists and answers of an instance are what the file would give now:
\* whatever changed the edges emptied the caches after it.
CachesCurrent ==
  \A i \in Inst \ foreign :
    /\ \A n \in DOMAIN outgoing[i] : outgoing[i][n] = Targets(n, edges)
    /\ \A n \in DOMAIN incoming[i] : incoming[i][n] = Sources(n, edges)
    /\ \A q \in DOMAIN answers[i] :
         answers[i][q] = AnswerFrom(q, IF q.dir = "out" THEN AllTargets(edges)
                                                        ELSE AllSources(edges))

\* A snapshot shows the lists of one moment, that of its acquisition, for as
\* long as it is held, for the nodes whose lists were cached at that moment,
\* unless another instance's writes had passed the caches by.
SnapshotsShowOneMoment ==
  \A i \in Inst : held[i] # None /\ ~held[i].foreign =>
    /\ \A n \in DOMAIN held[i].outgoing : held[i].outgoing[n] = Targets(n, held[i].of)
    /\ \A n \in DOMAIN held[i].incoming : held[i].incoming[n] = Sources(n, held[i].of)

\* An edge without one of its ends was inserted after a delete its insert had
\* not seen, or was left by a delete that is not over or never got to the edges.
EdgesHaveEnds ==
  \A e \in edges : \A x \in {e.from, e.to} :
    x \in DOMAIN entities \cup cut \cup Deleting \/ e.id \in raced

\* An entity has its kind as a label, and no label but those it was given: a
\* new entity never inherits those a deleted one has left.  Except after label
\* statements that failed or were never made, updates of the kind, and loads
\* of a dump into a file that has not used the ids of its labels yet.
LabelsTellKinds ==
  \A x \in DOMAIN entities :
    /\ entities[x] \in LabelsOf(x) \/ x \in unlabelled
    /\ \A l \in LabelsOf(x) : <<x, l>> \in given \/ x \in recycled

\* Loading a dump that returned Ok, that no write came into and whose last
\* buffer was written gives the graph it was made of.
RestoresWhatWasDumped ==
  [][\A i \in Inst : Load(i) /\ file.ok /\ file.quiet /\ file.whole =>
       /\ entities' = file.src.entities
       /\ edges' = file.src.edges
       /\ labels' = file.src.labels]_vars
=============================================================================
