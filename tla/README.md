# SQLiteGraph: verification project

SQLiteGraph is an embedded graph database in Rust with two storage backends, a
native one (V3) and one on SQLite, and a library of graph algorithms.  This
directory holds TLA+ modules that model them, TLC configurations that check the
models on small instances, and proofs, checked by TLAPS, of what holds for every
instance.

To run it: `tlc -config MCNodes.cfg MCNodes` checks a model,
`tlapm KvStore_proofs.tla` checks proofs.  `PROJECT.json` lists components,
runs, mutants (for every property a plausible bug that breaks it), the source
lines of every definition, hazards and theorems.

In the parts about V3, paths are relative to
`sqlitegraph-core/src/backend/native/v3`; elsewhere to `sqlitegraph-core/src`.

## 1. Inventory

### The V3 engine

`V3Backend` (backend.rs) is one object shared by threads through `&self`.  Every
part of its state has a lock of its own, and almost every operation takes
several of them one after the other, so the unit of interleaving is the critical
section and not the call.

| part | state | operations | what makes it hard | what makes it correct |
|---|---|---|---|---|
| KvStore (kv_store/) | versions of every key, time-to-live | set, delete, get at a snapshot, prefix scan, serialise | snapshot ids, expiry, tombstones | a snapshot reads the same value for ever; scan and get agree |
| WALWriter, WALRecovery, checkpoint (wal.rs) | record buffer, .v3wal, .v3checkpoint | append, flush, truncate, replay, write and read a checkpoint | crash between any two writes, torn writes, ignored errors | recovery falls back to a recent store; files are left readable |
| Publisher (pubsub/) | subscribers and their channels | subscribe, emit, unsubscribe | events sent after the lock of the change is gone | a subscriber that rereads converges |
| V3EdgeStore (edge_compat.rs) | adjacency cache, dirty clusters, B+tree of clusters, sidecar file | insert_edge, neighbors, flush, restore | cache, dirty set and page may each hold a part of a list | no inserted edge is ever missing from neighbors |
| NodeStore (node/store.rs) | node pages, page and node caches, batch buffer, id counter | insert, update, delete, lookup, begin/commit/rollback of a batch | batch mode, id reuse after reopen, caches going stale | an id names one node; a batch is all or nothing |
| BTreeManager (btree.rs, index/page.rs) | index pages, page cache | insert, lookup, delete, split | splits, root copies in several owners | lookup returns what was inserted last |
| PageAllocator (allocator.rs) | free list, bitmap, page count, pins | allocate, deallocate, pin | double free, reopening with a stale page count | a page has one owner |
| KindIndex, NameIndex, index_persistence | inverted indexes and the .v3index sidecar | insert, remove, persist, restore, rebuild | sidecar older than the database | the index agrees with the nodes |
| FileCoordinator, WriteBatch | the page file | read and write pages, stage and commit | partial page writes | a committed batch is on disk |
| V3Backend | all of the above, nine locks | the GraphBackend trait | lock order, node and edge counts, snapshot import | no deadlock; counts agree with the stores |

### The SQLite backend

`SqliteGraph` (graph/) is one connection pool with caches in memory.  It is not
`Sync`, so one thread uses an instance; several instances, of one process or of
many, share the file.

| part | state | operations | what makes it hard | what makes it correct |
|---|---|---|---|---|
| graph/, graph_opt.rs | tables of entities, edges, labels | insert, update, delete, one by one and in bulk | two statements without a transaction | no edge without its ends; labels tell kinds |
| graph/adjacency.rs, cache.rs, query_cache.rs | neighbour lists and answers cached per instance | neighbors, bfs, k_hop | every write must empty them; other instances' writes do not | what is cached is what the file would give |
| mvcc.rs, graph/snapshot.rs | the published copy of the caches | acquire, read | published by reads and writes alike | a snapshot shows one moment |
| recovery.rs | the dump file | dump, load | no transaction around the dump | a load restores what was dumped |
| backend/sqlite/ | the trait, a key-value table, subscribers | thin calls | | |
| hnsw/ | layers of links, entry points, cached vectors, node numbers; tables of vectors, links, entry points | insert, batch, delete, search, save, restore, rebuild | vectors are stored at once, links after; a reopened index is pieced together from rows | a search with room for all finds what is stored and nothing else |

### Algorithms

`algo/` has some forty functions over `SqliteGraph` (dominators, frontiers,
post-dominators, control dependence, slices, loops; components, orders, closure,
reduction, cycles; cuts and partitions; path enumeration; isomorphism, rewriting,
similarity, diff; taint and impact), and both backends have traversals, V3 a
parallel one.  They have no state; what is hard is that their results depend on
the order of hash maps, lists and threads, that they must end, and that they are
right on the graphs nobody drew for a test: loops, parallel ways, unreachable
parts.  Each is correct when it computes what its name says.

### The rest

The Cypher subset (cypher.rs), the pattern engine and its fast path over the
adjacency caches, `execute_pattern` and `has_path` ask a graph of the SQLite
backend; each is correct when it finds every choice of nodes that satisfies the
pattern and the condition, and no other.  They keep nothing, but read an entity
in two places, its row and its labels and property rows.

Inference of a language model, typed digraph, storage forensics, progress and introspection, the command line
and the Python binding.

### How the parts interact

Calls only; there are no background threads.  `kv_set` goes through KvStore, WAL
and Publisher in that order, releasing each lock before taking the next.
`insert_node` holds `node_store.write()` while it writes the page, adds the index
entry (BTreeManager, PageAllocator) and changes the header.  `insert_edge` looks
up both ends, releases the node store, and then holds `edge_store.write()` for
both directions and the header.  `flush_to_disk` goes through edge store, header,
index sidecar, header file, KV checkpoint and WAL.  `open` reads header, edge
sidecar, WAL header, index sidecar, and the KV store from the WAL or, failing
that, from the checkpoint.  The edge store shares the WAL with the backend only
after a reopen.

On the SQLite side every call is a few SQL statements, each of which commits by
itself unless the call opens a transaction; then the caches of the instance are
emptied.  Algorithms read a graph through the calls of a backend and keep nothing.

### Hazards

`PROJECT.json` lists forty at their lines, with a note where no property catches the hazard itself.
They come in these groups: a crash
between two writes (log, checkpoint, pages of a split, two clusters of an edge,
page and index entry, header and root); caches and copies that go stale
(node cache, staged pages, adjacency cache, page count, header root); long
sequences of legal calls (ids after a reopen, batches without nodes, lists
inserted under twice, freed pages); threads between the locks of one call; locks
taken in two orders; statements of one SQLite call with another instance, a
failure or a death between them; vector indexes whose links, numbers and stored
vectors part ways after a deletion, a failed batch or a reopening; and algorithms
that take an order for granted, do not end, or apply a result to a graph that has
changed.

## 2. Modules

| module | models | implements | model for TLC | proofs |
|---|---|---|---|---|
| `KvEngine` | durability of the key-value side, all threads | `KvDurable` | `MCKv` | `KvEngine_proofs` |
| `KvStore` | version histories, snapshots, expiry | | `MCKvStore` | `KvStore_proofs` |
| `NodeStore` | nodes, caches, batches | | `MCNodes` | `NodeStore_proofs` |
| `PageAllocator` | pages | `PagePool` | `MCAlloc` | `Pages_proofs` |
| `EdgeStore` | adjacency | | `MCEdges` | `EdgeStore_proofs` |
| `BTree` | index pages | | `MCBTree` | `Pages_proofs` |
| `BackendLocks` | the locks of all operations | | `MCLocks` | `Paths_proofs` |
| `V3Graph` | indexes, sidecar, edges to nodes, snapshots, all threads | | `MCV3Graph` | `V3Graph_proofs` |
| `SqliteGraph` | the SQLite backend, all instances | | `MCSqlite` | `SqliteGraph_proofs` |
| `HnswIndex` | a vector index in the file of a graph | | `MCSqlite` | `SqliteGraph_proofs` |
| `GraphState` | a graph, for the algorithms | | | |
| `FlowAnalysis` | dominators, frontiers, post-dominators, control dependence, slices, loops | | `MCAlgos` | `Paths_proofs` |
| `OrderAnalysis` | components, topological and critical order, closure, reduction, cycles | | `MCAlgos` | |
| `CutAnalysis` | cuts, separators, partitions | | `MCAlgos` | |
| `PathAnalysis` | path enumeration and its constraints | | `MCAlgos` | |
| `Traversals` | bfs, k-hop, shortest path, chains, parallel bfs, impact, taint | | `MCAlgos` | |
| `PatternAnalysis` | subgraph isomorphism, rewriting, similarity, diff | | `MCAlgos` | |
| `Queries` | Cypher patterns and conditions, triples, legs, has_path | | `MCAlgos` | |

`EdgeStore` and `BTree` take the allocator to be a `PagePool`, and
`EdgeStore` and `NodeStore` take the index to be a map: the two promises that
`PageAllocator` and `BTree` are proved to keep.  `V3Graph` in turn takes the node
store to be a map and keeps of edges only their count: it is the composition of
the stores as the callers of `V3Backend` see them, with the threads.

Several modules keep a history variable `events`.  The code loses data in
certain sequences of legal calls; a property that simply excluded those calls
would be weak, and one that ignored the loss would be false, so the model notes
the event and the property says from which event on it claims nothing.  Every
such event is described below or in the module.

### KvEngine

| state | code |
|---|---|
| `mem`, `inited` | the newest values in `KvStore`; `kv_store` is `Some` |
| `buf`, `walFile` | `WALWriter::buffer`; the .v3wal file, with or without a header |
| `ckpt`, `temp` | the .v3checkpoint file and the temporary file it is renamed from |
| `walOn`, `edgeWal`, `edgeDirty` | `backend.wal`, `edge_store.wal`, dirty clusters |
| `base` | history: the store when the log was last opened or emptied, which its records continue |
| `pc`, `op`, `fd` | where each thread is in its call, its record, its open file |
| `view`, `past`, `since`, `events` | history: what a subscriber knows, what a crash may fall back to |

A call is split where the code releases a lock.  `kv_set` is `KvWrite`,
`KvAppend` (or `KvAppendFails`), `KvEmit`; `kv_set_v3` is `KvWriteV3` alone,
which is all it does.  `flush_to_disk` is `EdgeFlush`, then `CkptSkip` or
`CkptCreate`, `CkptWrite` (or `CkptFails`), `CkptRename`, then `CkptRecord` or
`NoLogToFlush`, `WalFlush`, `WalTruncate`.  `Crash` and failing
writes (`LogWriteFails`, `LogFails`) may cut a log write short anywhere, and what
is written stays in the file: whole records and perhaps a `Fragment` of one more
(`Beginnings`), behind which the next flush appends.  `recover_kv` finds its way
from record to record by the size in front of each, so behind a fragment it goes on
inside a record, and may be at the beginning of any later one again or of none.
`Readings` is what it may find then: what it does not see as it was written it
skips or takes for a record nobody wrote (one of them; that is a bound, and later
openings read the bytes as the first did).  `Closed` is the end of `Drop`; `OpenRefused` and `Open` are `V3Backend::open`.
`KvDurable` promises that a crash falls back to a store that was visible at some
moment since the last completed flush began, and that nothing older than what an
open has shown comes back later.

### KvStore

`entries` is the list of versions of each key, `now` the clock.  `Set`, `Delete`,
`GetAtSnapshot`, `PrefixScan`, `ReopenFromCheckpoint` (`to_bytes`, `from_bytes`)
and `ReopenFromLog` follow store.rs and wal.rs; `Rising` says whether the caller's
versions rise (as in the tests) or stay the same (as `V3Backend` passes them).

### NodeStore

`disk`, `cache`, `dirty` and `nodeCache` are the file, `page_cache`,
`dirty_pages` and `node_cache`; `index` the B+tree; `count`, `total`, `diskCount`
and `diskTotal` the two header counts in memory and in the file; `batch` is
`batch_mode`, `guard` the open `WriteBatchGuard`.  Actions are the calls of the
backend: `InsertNode`, `BatchInsertNode`, `GetNode`, `UpdateNode`,
`DeleteEntity`, `BatchInsertEdge`, `BeginBatch`, `CommitBatch`, `RollBack`,
`Flush`, `CloseAndOpen`; `CrashAndOpen(P)` dies with the pages `P` of a commit
written, `InsertCut` and `DeleteCut` die inside a call.  `promised` and `base`
are what the completed calls amount to, with and without the open batch.

### PageAllocator

`bitmap`, `freeList`, `total` and the two copies of the total in the header.
`Reuse` and `Grow` are `allocate_inner`, `Deallocate` and `StrayDeallocate`
`deallocate` by an owner and by anyone, `SyncHeader` and `CopyTotal` the header,
`CloseAndOpen` and `CrashAndOpen` the reopening.  `stale` notes that an open read
a page count below a page in use.

### EdgeStore

`cache`, `types`, `dirty`, `index`, `disk`, `sidecar`, `hdrRoot`, and `pc` and
`pending` for a running flush.  `Insert` is `V3Backend::insert_edge` (both
directions, under one lock), `Load` a `neighbors` call, `FlushStart`,
`WriteCluster`, `WriteSidecar`, `SyncHeader` the flush.

### BTree

An insert is a sequence of steps, each with the page writes it makes
(`SplitRoot`, `SplitChild`, `WritePage`, `InsertIntoLeaf`), between which only a
crash can come.  `Delete`, `Lookup` and the late header copy of the root
(`SyncRoot`) follow btree.rs.  The sorted arrays of a page are functions: the
entries of a leaf lead from keys to values, the children of an internal page from
separators to pages, the first child standing under 0.  `events` notes a split
whose second page a crash has left unwritten (*torn*), pages a crash has left to
the leaf chain alone (*chained*), a delete that left a copy of its key further
along the chain (*undeleted*) and any delete (*deleted*).  The limit of ten levels
beyond which the code gives up (MAX_TREE_HEIGHT, btree.rs:36) is left out: pages
of full size do not come near it.

### BackendLocks

Thirteen operations as programs of lock steps over seven `RwLock`s, put together
as the code nests them: `Reading(lock, body)` and `Writing(lock, body)` are a
guard that lives while the body runs.  A flush is given every lock it may take: under
the edge store's, allocator and log (`FlushEdges`).  A writer that waits (`queued`) keeps readers
out, as in parking_lot.  No data.

### V3Graph

`nodes`, `cache`, `kinds`, `header` and `nextId` are node store, `node_cache`,
kind index, header and id counter in memory; `file`, `sidecar`, `temp` and `snap`
the files; `lock` is `node_store.write()` where a call holds it for more than one
step, and `call` says where each thread is and what it carries.  The kind index is
a bag, since `KindIndex::insert` pushes an id without looking for it.
`insert_node`, `update_node`, `delete_entity`, `insert_edge`, `flush_to_disk`,
`snapshot_export` and `snapshot_import` are split where they release a lock;
`CrashAndOpen` may come between any two steps and takes the sidecar, if its count
fits, or rebuilds the index.  A handle of a sidecar that another thread has renamed
goes on writing to the renamed file (`fd`).  Six `events` (an id used again, a
count too low to rebuild from, a sidecar ahead of the header of the file when the
process died, an import over cached nodes, an export written into, a death inside
a delete or import) and two `races` (a writer under way during an import, two
flushes at the sidecar at once) end what the properties promise.

### SqliteGraph

The tables are `entities`, `edges`, `labels` with their AUTOINCREMENT counters;
per instance `outgoing`, `incoming` and `answers` are the caches, `current` the
published snapshot, `held` the one a client has, `call` the call it is in; `file`
is the dump.  A statement is a step, a transaction is one step, a statement may
fail and an instance may die between two.  The histories `foreign`, `raced`,
`cut`, `given`, `unlabelled`, `recycled` and `disturbed` say which lists another
instance's write has passed by, which edges were inserted after an end had gone,
whose edges a delete never reached, and so on; they are the excuses of the
properties.

### HnswIndex

`ix` is the index in memory: `layers` (per layer `links` of its nodes, entry
points `eps`, the `dirty` nodes), the index's own entry points, `count`, the
vector `cache`, and `maps`, the numbering of a multi-layer index.  `db` is its
rows: `stored` vectors, `rows` of links, `entry` points, and the `next` id, which
all indexes of the file share.  The mutex around the map of indexes is held for a
whole call, so calls are steps: `InsertVector`, `BatchInsert`, `DeleteVector`,
`OtherIndexInserts`, and `Reopen`, which restores or rebuilds the index.
`AddVector` is what an insertion does in memory, layer by layer until an error;
`Persist` the save at the end of a call, in one transaction with three outcomes
(`SaveOutcomes`): saved; failed, which keeps every mark and which `insert_vector`
ignores; or with its COMMIT lost, whose result the code drops: the rows are the old
ones, the marks are gone and the call returns Ok (event *commit lost*).  The vectors
of a batch may fail to be stored one by one or at their COMMIT (`Storings`).  A
death inside a call is a failed save followed by `Reopen`.  `Search`
is the descent and the search of the base layer.

Vectors are different places on a line, so distances are exact; ef is never below
the number of vectors, so a search of a layer ends only where no link leads on.
The law of the levels is a choice of any level, vectors of a batch join the base
layer only.  `ReverseLimit` stands for max(2m, 32), the links a neighbour may have
before the lowest are kept; it is small so that the cut happens.  `events` notes
what the code is known to lose vectors by, and the properties name the events
from which on they claim nothing.

`MCSqlite` composes it with `SqliteGraph`: an index is in the file of a graph and
is opened with it, but shares no row and no cache with the rest, so a behaviour is
either one of the graph or one of an index.

### The algorithms

`GraphState` lets a graph grow edge by edge, so that every graph over the given
edges is a state, and the other modules define each function of `algo/` over the
graph of that state.  Where the code iterates over a hash map, pops a stack that
was filled from one, or merges chunks, the operator gives the set of results over
every order.  A property says of every graph what the result must be, by a
definition that does not mention the algorithm: dominators by paths, components
by mutual reachability, cuts by removal, paths by enumeration of all walks.

`Traversals` has a mutable visited set per step where the code has one, and
parallel bfs by chunks of a level, each with the visited set of the level's
beginning.  `PathAnalysis` is the depth-first search with backtracking, bounds
and one of three pruning rules.  `PatternAnalysis` renumbers nodes on every
rewrite as `copy_graph` does.

`Queries` takes a query as the parser makes it: a shape with its legs, and a tree
of conditions.  `AllRows` is what `execute_match` binds, shape by shape, each with
the source it reads: `NodePatternMatches` the row of an entity, `RowsMatch` its
labels and property rows, and `WhereMatches` the groups that
`where_expr_to_dnf` makes.  `Meaning` is every choice of nodes that satisfies
pattern and condition; a query is `Plain` when the executor has no exception for
it, and the property leaves out nodes whose labels and rows are not in step with
their row (entities made by `CREATE` have neither).

## 3. Runs

| run | question | bounds | distinct states |
|---|---|---|---|
| KvLog | What do log and checkpoint bring back? | one caller, 2 keys, 1 value and deletes, edges, 3 writes, 2 crashes | 3.3 M |
| KvFaults | Can a crash find a torn checkpoint? | 2 threads, 1 flusher, both KV interfaces, failing log writes (to a file of 1 record) and checkpoints, 2 writes, 2 crashes | 1.8 M |
| KvRefused | Does open accept the program's own files? (no) | 2 writes, 1 crash | |
| KvVersions | Snapshots, scans, expiry, reopen | 2 keys, 2 values, versions to 2, clock to 3, 3 writes, 2 reopens | 1.9 M |
| Nodes | Do reads, file, count and listing agree? | 2 ids, 2 pages of 2 records, page cache of 1, 1 reopen | 0.5 M |
| Alloc | Has every page one owner? | 2 clients, pages 0 to 3, 2 reopens | 34 k |
| Edges | Is every list complete, in both directions, in order, with its types? | 2 nodes, 1 type, pages of 2 edges, 3 inserts, 2 reopens | 1.7 M |
| BTree | Lookups, shape and half-fullness | 5 keys, 2 values, pages of 2, 6 updates, 1 crash | 4.7 M |
| Locks | Which circles of waiting threads are possible, and does every call of a compatible mix return? | 2 threads, all operations, four largest compatible mixes | 94 k |
| V3Graph | Are index, sidecar, edges and snapshots right between threads? | 2 threads, 2 kinds, 2 ids, 4 writing calls, 2 crashes | 1.0 M |
| Sqlite | Caches, snapshots, ends, labels, dumps; what a vector index finds and saves | 2 instances, 2 ids of entities and edges: 3 calls and 3 reads, 1 fault; or 6 calls with dumps and loads, 1 read, 1 fault; or 4 vectors (3 in layers), m = 1, 1 deletion or failure, 2 reopens | 1.3 M |
| Algos | Do the algorithms compute what they are named for? | every graph of 4 nodes without loops, and with one loop and 5 other edges at most; 11 queries, 3 sequences of legs | 5682 |

What they show:

* **KvLog.**  With one caller, the log agrees with the store between calls, a
  subscriber that rereads knows the store, `flush_to_disk` removes the log only
  when the checkpoint covers it, and the engine implements `KvDurable` until one
  of three events: `open` replays a log that lacks a key of the store it continued
  (*hidden*), `open` reads a log otherwise than it was written (*garbled*), or the
  edge store, which after a reopen shares the log, removes it before the checkpoint
  covers it (*dropped*).  For the first the log must have been emptied and written
  again; for the second a crash must have cut a log write short, the next session
  have written behind it and died too: then records that were acknowledged are
  lost, or others invented; for the third the database must have been opened again.
  `LogAgreesWithStore` goes on through all three, for the log as `open` found it.
* **KvFaults.**  With one flusher, the checkpoint file is the old one or the new
  one after any crash, failed write (of the checkpoint or of the log, in whole or in
  part) or interleaving of writers.
* **KvVersions.**  No write changes what an earlier snapshot reads, a writer
  reads what it wrote, a scan shows what gets show except for keys written again
  after the snapshot, and a reopen loses no current value and brings back no
  deleted one; only replay may bring back the newest value of a key after its
  time has run out.
* **Nodes.**  A read returns what the last call made of the node from whichever
  cache or page it comes; what is committed is in the file and what is not
  committed is not; `node_count` is the number of nodes and `entity_ids` lists
  all of them.  Excused are the events *reused* (an id is handed out again after a
  reopen), *overwritten* (a stale page count), *phantom* (a rolled back node in
  the node cache), *lost* (a call staged outside the batch and discarded) and,
  for the count and the list, *rolledBack*, *missed*, *deleted*, *cut*.  The
  model's constraint stops exploring after the first four, since every property
  but `TypeOK` claims nothing from there on.
* **Alloc.**  Every grant is of a page nobody owns and the free list is sound
  over any closing and crash, until an open reads a stale page count.
* **Edges.**  Neighbour lists are complete, the directions agree and order and
  types survive a reopen, except after: an insert under a key flushed before
  (*relisted*), a cluster larger than its page (*spilled*), an edge inserted
  twice (*repeated*) or again without its type (*cleared*), a crash in the
  middle of writing clusters (*halved*) or at all (*crashed*).
* **BTree.**  Lookups are right across every split and every crash but one that
  cuts a split between its first and second page; also half of an internal page
  that a crash leaves without a parent loses no key, for the leaf chain still
  leads to its leaves; no page names an unwritten one; without crashes all
  leaves are at one depth, chained in order and at least half full.  Five keys
  in pages of two give three levels, so root, internal pages and leaves all
  split.
* **Locks.**  The only circles of waiting threads pass through the header lock
  held by `flush_to_disk` (waiting for the edge store) or by `entity_ids`
  (waiting for the node store); all other locks are taken in one order, which is
  why two threads are enough: a circle of more would need a lock out of that
  order too.  Mixes without those meetings never deadlock and every call returns.
* **V3Graph.**  The kind index has every node once, under a kind it had, whether
  kept, restored or rebuilt, also after the sidecar of an earlier flush has outlived
  a crash; no edge is inserted to a node whose delete had
  returned before; an import leaves the nodes of the snapshot.  The constraint
  `Judged` stops exploring once an event or a race has happened, since no
  property says anything from there on; each of them is reached.
* **Sqlite.**  Cached lists and answers are those of the file unless another
  instance has written; a snapshot shows the lists of one moment; an edge
  without an end was raced or cut off; an entity has its kind as a label and
  inherits none; a quiet and complete dump restores entities, edges and labels.
  The model takes one of three ways from its beginning, so that the parts add up
  instead of multiplying.  The first has calls statement by statement, three in
  all, with reads, but no dumps: three calls cannot make an edge, dump and load it.
  So in the second (`CopyNext`) entities are made at once and the calls are six:
  dumps with one edge and with two are loaded, by the same instance or the other,
  into the graph as it has become and into a new file; a dump that a write of the
  other instance came into is loaded too, one cut short by a death, and one with an
  edge whose end had gone; and a list may be cached before a load that changes it.
  A load inserts rows under the ids they had, so ends need no translation.  The
  third is the index.
  Of a vector index (`FindsEverything`, `FindsOnlyStored`, `SavedIsCurrent`):
  every search finds every stored vector as long as nothing was deleted, failed,
  cut to a width, unsaved at a reopen or renumbered, and an entry point is in the
  highest layer; it finds nothing that is not stored but after a rolled back batch
  or a deletion from several layers; and the tables hold the links whenever no
  node is marked, but after a rebuild, a restore that cut links, one that
  renumbered the nodes, or a save whose COMMIT was lost.
* **Algos.**  On every graph, in every order: dominators, frontiers (where the
  walk ends), post-dominators, control dependence over branches, slices and loop
  headers; components, orders, critical paths, closure, reachability, cycles
  (`ComponentsAndOrdersRight`);
  cuts that separate (between nodes without a direct edge, and when the search for
  them ends), partitions with every node in one part; traversals in the
  right distance with parents and chains, parallel bfs as the sequential one;
  paths as all walks; and, in `MatchesRight`, patterns, single rewrites,
  similarity, diff, plain queries of every shape with the nodes they would
  change, the fast path against the SQL, legs and `has_path`.  The
  `ASSUME`s of `MCAlgos` show on one graph each where an algorithm does not do
  what its text says.

The bounds are chosen so that every event named in a property occurs.  Beyond
them, the following also pass: KvFaults with a log of 2 records (6.4 M states), Nodes and
Edges with one reopening more, V3Graph with five writing calls.  Four nodes are the fewest with a loop
that has an entry, a body, an exit and a way around; what needs more has its own
graph in an `ASSUME`.

`CHECK_DEADLOCK FALSE` is set in five configurations: `MCLocks`, because the code
does deadlock and the property says where; `MCAlgos`, which ends at the complete
graph; and `MCKvStore`, `MCV3Graph` and `MCSqlite`, where the bounded calls run
out.

### Fairness

Only `Locks` uses it: a thread inside a call that is not waiting for a lock
is scheduled (weak fairness on `Park` and `Release`), and a lock that is free
again and again is eventually granted to a thread that waits for it (strong
fairness on `Acquire`; parking_lot's locks are task-fair).  Nobody has to call.

## 4. Proofs

Eight modules, for every value of the constants that the `ASSUME`s of the module
admit, so for any number of threads, keys, nodes, pages, writes and crashes.  The
`ASSUME`s say of what kind a constant is and that the values standing for "nothing"
(`None`, `Absent`, `NoFile`, ...) are nothing else; TLC evaluates them in every run.
An assumption on the schedule is in the statement of the theorem that needs it.
Every inductive invariant was checked by TLC on the instance of its run before it
was proved.

Of the properties that the runs check, all are proved but those listed at the end of
this section.

**KvEngine_proofs.**  `TypeCorrect` needs no further assumption.
`CheckpointAtomic` assumes `OneFlusher` (concurrent flushes share the temporary
file, and then it is false).  Its invariant `CheckpointInv` adds to `TypeOK` and
the claim itself that at most one thread is in a flush (`FlushesAlone`) and that
an open handle refers to the temporary file, completely written before the
rename (`HandleOwned`).  `DurableWithoutLog` assumes also no log and no I/O
errors, and shows that `KvEngine` implements `KvDurable` with no event excused;
`DurableInv` adds that nothing is ever logged, that a store that was never
created has no checkpoint, that both the visible store and the one on disk are
in `past`, and that a running flush keeps every store seen since its copy
(`FlushKeeps`, without which the step that completes a flush could drop the
store on disk from `past`).  `SubscriberKnowsStore` assumes that the `_v3` calls,
which emit nothing, are not used and no append fails; `ViewInv` says that only
the key of a write in progress may be unknown to the subscriber.

With a log, `LogHasStoreOrder`, `TruncateLosesNothing` and `DurableWithLog` assume
one thread (`OneThread`), no `_v3` calls and no I/O errors.  Each of the three is
needed: without it TLC finds `RecoversRecentStore` violated, and without one of the
last two also `LogAgreesWithStore` (section 5).  The key is `base`, the store the records of the log continue: `LogFollows` in `LogInv` says
that file and buffer make of `base` the store in memory, but for the write between
the two.  `LogAgreesWithStore` alone is not inductive, since a key that is not
mentioned yet says nothing of what its first record will meet.  `SavedInv` says
that a flush past its rename has the store in memory as checkpoint, hence the log
it removes tells of nothing else.  `FallbackInv` says what a crash would leave: any
prefix of the buffer, written behind the file, makes a store of `past`
(`LogRecoverable`), and a file without a key leaves that to the checkpoint
(`DiskRecoverable`).  A fragment
tells of no key, so a log with fragments still tells of a store of `past`
(`WholeRecoverable`), and `open` shows that store unless *hidden* or *garbled* is
noted (`OpenReads`).  `DurableWithLog` is the refinement of
`KvDurable`, step by step, until `open` has misread records behind a torn write, a
replay has hidden keys or the edge store has dropped a log.  That *garbled* excuses
no more than this is the theorem `OnlyFragmentsGarble`, with any number of threads
and failing writes: `open` reads a log otherwise than it was written only if a
fragment stands in it with something behind (`WholeLogIsRead`).

**KvStore_proofs.**  `TypeCorrect`, `SnapshotsAreStable`, `WritesAreRead`,
`ScansAgreeWithGets`, `ReopenIsSafe`.  The invariant is `KvInv` (the histories
are in order of version and no version exceeds the newest), and for the reopen
also `Stamped` (no value has a time stamp in the future).  The argument for
snapshots: a write appends above every earlier snapshot, so the greatest visible
position does not move.

**Pages_proofs.**  Of `PageAllocator`: `AllocInvariant`, and from it `TypeCorrect`,
`OnlyStaleCountsShare`, `FreeListStaysSound` and `ImplementsPool`.  `AllocInv`
adds to the properties that an appended page lies beyond every page marked,
listed or, unless a count was stale, owned (`Beyond`): without it an append
could return a page in use.  `PagesAreAccountedFor` adds `AccountInv`: until the
database is opened again an owned page is marked and the header page is nobody's,
so that a refused deallocation can only be of a page without an owner.

Of `BTree`: `TreeTypesOK`, `LookupsAreRight`, `DeletesAreComplete`,
`TreesAreWellShaped`, for any number of keys, pages of any capacity of two or more,
trees of any height and any number of crashes.  The pages themselves do not say
what they are for, so the invariant `TreeInv` says that there are a set of pages,
the tree, and for each an interval of keys and a level, and a set of leaves, the
chain, each with a rank that falls along `next` (`TreeOK`, `ChainOK`).  A child has
the part of its parent's interval between two separators, a key in a leaf lies in
the leaf's interval, and what the chain has from where a descent ends on is what
was promised (`ContentOK`).  The chain may be larger than the tree: a crash behind
the second write of a split leaves pages without a parent, and one before the header
knows of a new root makes the old root, somewhere down the left edge, the root
again (`HeaderOK`); then a descent ends further left than it might, and the walk
along the chain makes up for it.  That is why `LookupsRight` excuses only the crash
between the first two writes; the model-checked version of it once excused halves of
internal pages too, and the proof showed that it need not.  While writes are under
way the invariant speaks of the disk before the split and of what each write makes
of it (`Splitting`); an insert under way stands at a page that has room and whose
interval has its key (`Quiet`).

**NodeStore_proofs.**  `TypeCorrect`, `EveryReadIsRight`, `CommittedSurvives`,
`CountStaysRight`, with no assumption on the schedule.  Types need `CachedOnDisk`
(no page is cached that the file lacks).  The invariant behind the next two is
`DataInv`, and holds until one of the four excused events.  `PromiseInv` says that
the page the index names, as the batch sees it, has what was promised, and the file
what was committed.  It is not inductive alone: a load may take the page from
`page_cache`, so `CacheInv` says that a page that is not staged is cached as in
the file, and that before the first node of a batch even staged pages are; and a
rollback or close makes the committed nodes the promised ones, so `BatchInv` says
that the two differ only in a batch with nodes.  Lemmas about `Find` say what
appending to a page and replacing a record in it change.  The count is the
cardinality of the promised ids (`CountInv`), in the file too but for an open
batch; and while nothing has happened these ids are 1 to the count, which is what
`entity_ids` relies on.

**EdgeStore_proofs.**  `EdgeTypes`, `NeighborsAreComplete`,
`DirectionsStayTogether`, `OpeningKeepsLists`, with no assumption on the schedule.
The idea is that the edges known under a key are in one place, `Records(k)`: its
dirty cluster or, when that is gone, the page the index names.  A flush moves them
and changes nothing, an insert appends.  `StoreInv` says what makes this true:
every page has one owner (`OwnPages`, or writing a cluster would change another
list) and what is still to be written is dirty (`FlushState`).  `KeptInv` says
that the cached list has the nodes of the records, nothing that was never
inserted, and that a completed flush has brought to the disk what it saw when it
began.  `MirrorInv` says of the records of two keys what `DirectionsAgree` says of
two lists, on the disk too unless clusters are just being written; `OrderInv` that
records are in the order of the inserts and that the last one for a node has its
type.

**Paths_proofs.**  Of `BackendLocks`: `LocksTypes`, `CirclesNeedTheHeader`,
`NoCircleWhenCompatible`.  That the locks have an order is a fact about thirteen
programs and not about states, so there is no invariant but the types: a path is
*calm* under what is already held if it leaves nothing held and each of its steps
asks for a lock behind all that are held then (or is one of the two exceptions).
Calm paths in turn are calm, and a calm path under a guard is, which follows how
the programs are put together.  In a circle without the exceptions take the thread
that waits for the last lock in the order: who holds it waits for a later one.
In a compatible mix one exception would have to wait for a holder of the edge or
node store that waits too; a flush may hold the edge store, but then it waits for
the allocator or the log, for which nobody in a circle waits (`NobodyWaitsInside`).
Circles of any number of threads, those that are closed by a parked writer
included, are covered, where TLC sees two threads.

Of `FlowAnalysis`: `DominanceIsRight`, for every graph.  All searches are `Spread`,
which adds to a set what a step leads to until nothing is new, and a lemma says that
it is the least set that the step does not leave.  Then for each node d there is the
set `Past(d)` of what can be reached without d, and one fact about the sets of
dominators says everything: d is in the set of a node unless the node is past d
(`SetsRight`).  It holds after as many sweeps as there are nodes, because for each d
the nodes that lack d grow with each sweep until they are all of `Past(d)`.  From
there on only these sets are used: dominance is an order in which the dominators
of a node are in line, so there is one closest; a runner that walks up the tree from
a predecessor of n meets the dominators of the predecessor up to the closest one of
n, and since the sets shrink on the way it ends.  Post-dominators are dominators of
the reversed graph, and behind the virtual exit, past d means past d for some exit.
Headers of loops and slices follow from what can be reached.

**V3Graph_proofs.**  `GraphTypes`, `KindsAreKnown`, `EdgesEndAtNodes`,
`KindsAreRight`, `ImportsRestore`, with no assumption on the schedule.  `GraphInv`
has six parts:

* `CallInv`: types, every thread at a step of its call, the lock with the call that
  took it, and the file a handle refers to is there.
* `KnownInv`: wherever a record or an index may come from (cache, file, sidecar,
  temporary file, snapshot, the copy a flush carries), it has no kind its id never
  had.  This half of `KindIndexRight` so holds without any excuse, which is the
  theorem `KindsAreKnown`.
* `Apart`: without a race nobody is in a call beside an import and no two calls are
  between count and rename.
* `AbsentInv`: a deleted node is in neither store nor cache, and an `insert_edge`
  that has found an end has not found one that was gone when it began.
* `ListedInv`: a sidecar may be old, and is still accepted if its count fits.  So
  `Covers` says of every sidecar, temporary file and copy: what it lacks was inserted
  after its count was taken, and hence the count in the file is higher as soon as
  the insert returns.  A delete takes the count back and breaks this, until its own
  flush, which holds `node_store` and which no insert can disturb, has written a
  sidecar that has everything (`Shrinks`, `Exact`); until then `Covers` is not
  claimed (`Steady`).
* `SnapInv`: a snapshot nobody wrote into has what was promised when its export
  began, and each step of an import has put its part in place (`Rebuilding`).

The attempt to prove `KindIndexRight` with two crashes failed for a good reason,
which is the event `ahead` (section 5).

**SqliteGraph_proofs.**  `SqliteTypes`, `CachesAreCurrent`,
`SnapshotsAreOfOneMoment`, `EdgesKeepTheirEnds`, `LabelsTellTheKinds`,
`DumpsAreRestored`, for any number of instances.  `GraphTypes` says of types what
the rest needs: no two edges have an id in common, and the edges that a dump has
written are, by id, edges that were there (ids are not used again, so a dump among
other writes has no id twice).  The caches keep what SQL would answer through each
step that fills them, and every other step empties them, leaves the edges alone or
marks the other instances (`CacheInv`).  The ends of edges need the dump, since a
load brings edges back: `DumpRight` says that the file has part of the graph its
dump began with while no write has come between, and all of it at the end.
`LabelsRight` needs that labels beyond the last id come from a loaded graph only.

Of `HnswIndex`: `LinksAreSaved`, `SearchesFindStored`, `SearchesFindEverything`, for
any vectors, numbers of layers and widths.  Insertion and search are loops that add
one node after another; lemmas say of what a search of a layer reaches that it is
the least set that links do not leave, and what an insertion does to a layer: a new
node with at most the width of links, and the new node in the lists of those it
links to, cut if they are too long (`Grown`).  `SavedInv` (`Written`) says that a node which is not marked has in
its row what it has in memory, until a COMMIT is lost, and that entry points, in memory and saved, are nodes
of the base layer.  `OnlyInv` (`CutOff`) says that a vector that is no longer stored
is no entry point and no node links to it, so no search comes to it.  `WholeInv`
(`Whole`) says that the numbers of the layers fit the stored ids and that the base
layer is connected, from any node to any other (`Connected`), for a new node gets links
both ways and nothing was cut; `EntryWhole` says that what is saved is enough to begin
with.  TLC checked these invariants before with a width of 1, and of
2 with a limit of 4.  The attempt showed that `SavedIsCurrent` was
false beyond the first bounds, after a reopening that renumbers the nodes; it now
names that event.

A lemma about the greatest or least element of a non-empty set of positions stands
in each module that needs it: the library's induction theorems take an operator
as parameter, so it follows from well-foundedness or finiteness facts instead.

Model-checked only:

* `ComponentsAndOrdersRight`, `CutsRight`, `WalksRight` and `MatchesRight` of
  `MCAlgos`: these modules are recursive, in searches that backtrack or take one
  of several orders at each step, and what a recursive operator computes is out of
  the prover's reach.  (`FlowAnalysis` and `HnswIndex` search too, but as recursive
  functions, whose equation can be used once a solution of it has been exhibited.)
* `EveryCallReturns`: liveness under fairness is too, as `ENABLED` is.
* `OpenAlwaysAccepts` (run KvRefused), which is false, and the properties of
  `KvEngine` under two threads that use the log, which are false too.

## 5. Where code and text disagree

Checked by a run that ends in a violation:

* `KvRefused`: after a truncate, the next log flush makes a file without a
  header, and open refuses it (wal.rs:894), although "KV is auxiliary data and
  shouldn't brick database open" (wal.rs:1559).

Noted as an event in a passing run:

* Ids start at 1 again after a reopen (node/store.rs:449, "Get the next available
  node ID"): Nodes, V3Graph.
* An insert under a flushed key starts an empty cluster that replaces the flushed
  one (edge_compat.rs:888, "load cluster (or create), append", line 57): Edges.
* A log with some KV records hides the checkpoint (backend.rs:531), and the edge
  store removes the log before the KV checkpoint (edge_compat.rs:1037): KvLog.
* Recovery stops at a torn record and leaves its bytes in the log (wal.rs:1621); a
  later flush appends behind them (wal.rs:892), and what it wrote cannot be told
  from the rest of the torn record any more, or is read out of step: KvLog.
* The page count is not synced with a node insert (backend.rs:687), so after a
  crash a page in use may be given away: Alloc, Nodes.
* Committing a batch without nodes leaves `batch_mode` on (backend.rs:139), and
  what is inserted then is lost at close (backend.rs:179 "ensures data is
  persisted"); rollback leaves its nodes in caches, count and index
  (node/store.rs:411); deleting a missing node lowers `node_count`
  (backend.rs:1034); `entity_ids` misses the highest ids after a delete
  (backend.rs:1049): Nodes.
* A free list is lost at reopen (allocator.rs:93), and freeing a live page is
  then refused as a double free (allocator.rs:182): Alloc.
* A crash during a split loses the upper half of the page (btree.rs:611): BTree.
* `flush_to_disk` against `insert_edge`, and `entity_ids` against `insert_node`
  or `delete_entity`, deadlock (backend.rs:683, 1050): Locks.
* The sidecar of the indexes is accepted whenever its count fits
  (index_persistence.rs:198; "Staleness check: sidecar must match current DB node
  count").  A flush may write a sidecar with the count of an insert that has not
  brought it to the header of the file yet; after a crash there, the next insert
  makes the counts agree, and if the process dies once more before a flush, the
  sidecar is accepted and `query_nodes_by_kind` misses the new node.  Two flushes
  share its temporary file (:80), a
  rebuild looks only at ids up to the count, and an import neither empties
  `node_cache` nor keeps other calls out (backend.rs:1578): V3Graph.
* Writes of another SQLite instance leave caches and snapshots behind
  (graph/adjacency.rs:158), `delete_entity` and `insert_entity` are two
  statements without a transaction (graph/entity_ops.rs:164, 36), labels stay
  behind updates and deletes, and the last buffer of a dump is written when the
  writer is dropped, without a look at the result (recovery.rs:199): Sqlite.
* In a vector index (hnsw/, run Sqlite): a rebuilt index is marked saved and is
  not, so the next open restores only what was touched since
  (index_persist.rs:241); a restore cuts lists to the width by lowest number
  (layer.rs:293), and hnsw/mod.rs:139 says that links are not persisted at all; a
  multi-layer index is reopened with one layer's numbering (index_persist.rs:150),
  which is another one if ids are not 1, 2, ...; a batch that fails gives its ids
  back and keeps its nodes (index_api.rs:314), so the next insertion is refused;
  `delete_vector` takes the base-layer number out of every layer, lowers the count
  even for a missing vector, and without its only entry point every search fails
  (index_persist.rs:507); a save drops the result of its COMMIT (index_persist.rs:538),
  clears the marks and returns Ok, so that links may be lost that count as saved;
  an insertion into a reopened index with deleted nodes
  may fail, for these are entry points again; a search of several layers fails
  while the last entry point is below the highest one (index_api.rs:371).

Shown on one graph by an `ASSUME` of `MCAlgos`:

* `dominance_frontiers` goes round for ever among unreachable nodes that precede
  something (algo/dominance_frontiers.rs:310).
* The body of a natural loop is walked forward from the tail and misses nodes
  (algo/natural_loops.rs:676).
* Control dependence counts edges to the only successor.
* `transitive_reduction` drops every edge but loops (algo/transitive_reduction.rs:60
  promises the minimal graph with the same reachability).
* `cycle_basis` lists sequences that are no cycles; normalised cycles start and
  end with different nodes and come once per start.
* `min_st_cut` takes no flow back, so its cut may be too small, and with a
  reverse entry first it never returns (algo/cut_partition.rs:480);
  `min_vertex_cut` may return too many nodes.
* Path pruning, "preserving ALL feasible paths" (algo/path_enumeration.rs:856),
  loses paths round loops (dominance), and simple paths (control dependence,
  loops).
* Of two rewrites that renumber, the second hits other nodes
  (algo/graph_rewriting.rs:574); an edge between interface nodes stays.
* Two graphs of a size that are not isomorphic have similarity 0, whatever they
  share (algo/graph_similarity.rs:207 promises the largest common part).
* An undirected leg is matched along the edges only (cypher.rs:2022: "running both
  directions and merging").
* A walk of two to three hops also finds what is one hop away, as `k_hop` answers
  with every distance up to its depth (cypher.rs:1621, "every depth in
  [min, max]").
* Labels and conditions on the inside of a chain are ignored.
* `SET` and `DELETE` with an edge in the pattern change every first node, with the
  edge or without (cypher.rs:1807, "node IDs that match the MATCH clause").
* A pattern of one node reads the kind of the row, one with an edge the labels: an
  entity without labels is found by the first only.

Avoided by the choice of constants; with the changes named, TLC finds the
properties of the run violated:

* Two writers enter store and log in different orders (backend.rs:1700), and a
  write between the checkpoint copy and the truncation is lost
  (backend.rs:709): `MCKv_Log.cfg` with two threads.
* `kv_set_v3` writes no log and emits no event (backend.rs:574):
  `V3Api = TRUE` there.  A failed append leaves the store changed and the
  subscriber unaware, and a failed checkpoint is ignored and the log removed
  (backend.rs:706): `IoErrors = TRUE` there.
* Two concurrent flushes share the temporary checkpoint (wal.rs:1724):
  `MCKv_Faults.cfg` with two flushers.

Outside the properties: `V3Backend` passes a version that never changes, so all
its writes share one version and its snapshots isolate nothing (kv_store/store.rs:38
promises "true MVCC snapshot isolation"); `KvStore` with `Rising = FALSE` is
that backend, and its properties hold there because no earlier snapshot exists.

Outside the models: `update_node` stores JSON without the kind and name prefix
that `get_node` parses, so an updated node reads as kind "Node" with no data
(backend.rs:1003, 253).  A second `begin_batch` discards the pages the first one
staged.

Seen while modelling the SQLite side, outside its properties: after the delete of
an entity, `get_entities_by_label` fails for its kind; `graph_labels` has no
unique constraint, so `INSERT OR IGNORE` duplicates; `bulk_insert_edges` counts
ends and so refuses a loop that `insert_edge` takes; `kv_get` of an empty value
fails; `kv_prefix_scan` never matches; `snapshot_import` subtracts counts that may
have sunk.

## 6. Not modelled, and why

Encodings of pages, records and edges, compression and the string table are
pure functions of bytes without state.  FileCoordinator and WriteBatch are not
installed by `V3Backend`, nor is `WALRecovery::recover` called.  Page writes are
atomic in all modules but the log and checkpoint.  `NodeStore` has one batch at a
time and no threads between the locks of one call; `V3Graph` has the threads and
no pages, `BackendLocks` the threads and no data.  `SqliteGraph` relies on
SQLite's transactions.  `HnswIndex` has neither floating-point distances nor an ef
below the size of the index, and so does not measure recall; of the algorithms centrality and communities iterate over floating
point or random choices; the parser of the query language and the front ends are
sequential layers.  Queries are asked of graphs with at most one edge between two
nodes and no writes meanwhile.  Time limits, cancellation and progress callbacks of the algorithms are left out.
`PROJECT.json` gives the reason for each component.

## 7. Plan

Done: the modules of section 2, with proofs for all components that keep state and
for the control-flow algorithms.

Next, proofs: the algorithms whose results do not depend on an order of choice, once
their searches are written with `Spread` (components, reachability, closure), and the
meaning of a query against its conditions in normal form.

Next, models: Publisher channels (filters, full or closed channels,
unsubscribe); the happens-before analysis of recorded traces
(algo/observability.rs).
