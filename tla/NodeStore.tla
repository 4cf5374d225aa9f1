------------------------------ MODULE NodeStore -------------------------------
(***************************************************************************)
(* Nodes: the node pages and the two caches over them, the index from id   *)
(* to page, the id counter, write batches, the node count in the header,   *)
(* closing, crashing and opening.                                          *)
(*                                                                         *)
(* A call holds node_store.write() until its pages, the index and the      *)
(* header in memory are changed, so it is one step, in which the process   *)
(* may also die half way (InsertCut, DeleteCut, a crash during a commit).  *)
(* The index writes through to disk, in a batch as well; its pages are     *)
(* BTree's subject.  Records differ in size, so a page that has room for   *)
(* one may be too full for the next: PageCap only bounds how many fit.     *)
(* A record is an id and what its caller wrote; the DELETED flag is left   *)
(* out because no reader looks at it.  At most one batch is open at a time.*)
(***************************************************************************)
EXTENDS Integers, Sequences, FiniteSets

CONSTANTS
  Payloads,   \* what a node record may carry
  Absent,     \* no record, no page, no entry
  PageCap,    \* records in a page, at most
  CacheCap,   \* pages in page_cache, at most
  MaxId, MaxPage, MaxOpens  \* bounds on ids, pages and openings

ASSUME NodeAssumption ==
  /\ Absent \notin Payloads
  /\ {PageCap, CacheCap, MaxId, MaxPage} \subseteq Nat \ {0}
  /\ MaxOpens \in Nat

VARIABLES
  disk,       \* the pages in the file
  index,      \* the page of an id, 0 if it has none
  diskCount,  \* node_count of the header in the file
  diskTotal,  \* total_pages of the header in the file
  cache,      \* page_cache
  dirty,      \* dirty_pages
  nodeCache,  \* node_cache: the record last read of an id
  nextId,     \* next_node_id
  batch,      \* batch_mode
  count,      \* node_count of the header in memory
  total,      \* total_pages of the allocator
  guard,      \* the open WriteBatchGuard: "none", "empty", or what it inserted
  promised,   \* history: what the calls that returned made of an id
  base,       \* history: the same without the open batch
  mixed,      \* history: a call outside the batch was staged with it
  events,     \* history: events that excuse what a reader sees
  opens       \* counter behind MaxOpens

fileVars == <<disk, index, diskCount, diskTotal>>
memVars  == <<cache, dirty, nodeCache, nextId, batch, count, total, guard>>
histVars == <<promised, base, mixed, events, opens>>
vars == <<disk, index, diskCount, diskTotal, cache, dirty, nodeCache, nextId,
          batch, count, total, guard, promised, base, mixed, events, opens>>

-----------------------------------------------------------------------------
Ids == 1..MaxId
Pages == 1..MaxPage
Record == [id : Ids, val : Payloads]
PageContents == UNION {[1..n -> Record] : n \in 0..PageCap}
ASSUME PageAssumption == Absent \notin PageContents
None(S) == [x \in S |-> Absent]

Events == {
  "reused",     \* an insert was given an id that some page has a record of
  "overwritten",\* an allocation handed out a page in use
  "phantom",    \* a batch was rolled back with a node of its own in node_cache
  "rolledBack", \* a batch with nodes was rolled back
  "lost",       \* a call outside the batch was staged and then discarded
  "missed",     \* delete_entity was called for a node that does not exist
  "deleted",    \* delete_entity was called
  "cut" }       \* the process died within an insert, a delete or a batch
If(condition, event) == IF condition THEN {event} ELSE {}

TypeOK ==
  /\ disk \in [Pages -> PageContents \cup {Absent}]
  /\ cache \in [Pages -> PageContents \cup {Absent}]
  /\ dirty \in [Pages -> PageContents \cup {Absent}]
  /\ \A p \in Pages : dirty[p] # Absent => batch /\ disk[p] # Absent
  /\ index \in [Ids -> {0} \cup {p \in Pages : disk[p] # Absent}]
  /\ {count, diskCount, total, diskTotal} \subseteq Nat
  /\ nodeCache \in [Ids -> Payloads \cup {Absent}]
  /\ nextId \in 1..(MaxId + 1)
  /\ {batch, mixed} \subseteq BOOLEAN
  /\ guard \in {"none", "empty", "nodes", "edges"}
  /\ {promised, base} \subseteq [Ids -> Payloads \cup {Absent}]
  /\ events \subseteq Events

Init ==
  /\ disk = None(Pages)
  /\ index = [i \in Ids |-> 0]
  /\ diskCount = 0
  /\ diskTotal = 0
  /\ cache = None(Pages)
  /\ dirty = None(Pages)
  /\ nodeCache = None(Ids)
  /\ nextId = 1
  /\ batch = FALSE
  /\ count = 0
  /\ total = 0
  /\ guard = "none"
  /\ promised = None(Ids)
  /\ base = None(Ids)
  /\ mixed = FALSE
  /\ events = {}
  /\ opens = 0

-----------------------------------------------------------------------------
(* Pages and caches *)

Cached == {p \in Pages : cache[p] # Absent}

\* What page_cache may be after page p is put in: beyond its capacity any one
\* page leaves.
CachedWith(p, page) ==
  LET put == [cache EXCEPT ![p] = page]
      all == Cached \cup {p}
  IN  IF Cardinality(all) <= CacheCap THEN {put}
      ELSE {[put EXCEPT ![q] = Absent] : q \in all}

\* load_node_page: the staged page, the cached page, the page in the file.
Loaded(p) ==
  IF dirty[p] # Absent THEN dirty[p]
  ELSE IF cache[p] # Absent THEN cache[p] ELSE disk[p]

\* What page_cache may be after a page is loaded.
CachedByLoading(p) ==
  IF dirty[p] = Absent /\ cache[p] = Absent THEN CachedWith(p, disk[p])
                                            ELSE {cache}

\* The first record of an id in a page, if there is one.
Hits(page, id)  == {i \in DOMAIN page : page[i].id = id}
First(page, id) == CHOOSE i \in Hits(page, id) : \A j \in Hits(page, id) : i <= j
Find(page, id)  == IF Hits(page, id) = {} THEN Absent ELSE page[First(page, id)].val

\* NodeStore::lookup_node, and what it would find in the file alone.
Lookup(id)  == IF index[id] = 0 THEN Absent ELSE Find(Loaded(index[id]), id)
Durable(id) == IF index[id] = 0 THEN Absent ELSE Find(disk[index[id]], id)

\* get_node_internal
Read(id) == IF nodeCache[id] # Absent THEN nodeCache[id] ELSE Lookup(id)

\* write_node_page: staged in a batch, otherwise written to the file.
WritePage(p, page) ==
  IF batch THEN dirty' = [dirty EXCEPT ![p] = page] /\ UNCHANGED disk
           ELSE disk' = [disk EXCEPT ![p] = page] /\ UNCHANGED dirty

\* Some page has a record of the id, possibly a deleted one.
Recorded(id) ==
  \E p \in Pages : \E page \in {disk[p], dirty[p]} \ {Absent} :
     Find(page, id) # Absent

-----------------------------------------------------------------------------
(* Inserting *)

\* A new page is written to the file and cached, empty, before it is loaded.
Before(p, new) == IF new /\ dirty[p] = Absent THEN <<>> ELSE Loaded(p)

\* What page_cache may be after it received a record.
CachedByPlacing(p, new, page) ==
  IF ~batch THEN CachedWith(p, page)
  ELSE IF new THEN CachedWith(p, <<>>) ELSE {cache}

\* Mutant: the page is written to the file in a batch too.
Place_WritesThrough(p, new, rec) ==
  LET page == Append(Before(p, new), rec)
  IN  /\ disk' = [disk EXCEPT ![p] = page]
      /\ dirty' = IF batch THEN [dirty EXCEPT ![p] = page] ELSE dirty
      /\ cache' \in CachedByPlacing(p, new, page)
      /\ total' = IF new THEN p ELSE total

\* Page p receives a record: the file, the staged pages, the cache, the allocator.
Place(p, new, rec) ==
  LET page == Append(Before(p, new), rec)
  IN  /\ disk' = IF ~batch THEN [disk EXCEPT ![p] = page]
                 ELSE IF new THEN [disk EXCEPT ![p] = <<>>] ELSE disk
      /\ dirty' = IF batch THEN [dirty EXCEPT ![p] = page] ELSE dirty
      /\ cache' \in CachedByPlacing(p, new, page)
      /\ total' = IF new THEN p ELSE total

\* The page of a new record: one that is staged or cached and has room, or the
\* next page of the allocator, whatever the file has there.
Target(p, new) ==
  /\ IF new THEN p = total + 1 ELSE dirty[p] # Absent \/ cache[p] # Absent
  /\ Len(Before(p, new)) < PageCap

\* insert_node_inner: the node store's insert_node, then the header in memory.
InsertInner(p, new, v) ==
  /\ nextId <= MaxId
  /\ Target(p, new)
  /\ nextId' = nextId + 1
  /\ Place(p, new, [id |-> nextId, val |-> v])
  /\ index' = [index EXCEPT ![nextId] = p]
  /\ count' = count + 1
  /\ events' = events \cup If(Recorded(nextId), "reused")
                      \cup If(new /\ disk[p] # Absent, "overwritten")
  /\ promised' = [promised EXCEPT ![nextId] = v]

\* V3Backend::insert_node: sync_header follows.
InsertNode(p, new, v) ==
  /\ InsertInner(p, new, v)
  /\ diskCount' = count'
  /\ base' = [base EXCEPT ![nextId] = v]
  /\ mixed' = batch
  /\ UNCHANGED <<diskTotal, nodeCache, batch, guard, opens>>

\* WriteBatchGuard::insert_node
BatchInsertNode(p, new, v) ==
  /\ guard # "none"
  /\ InsertInner(p, new, v)
  /\ guard' = "nodes"
  /\ UNCHANGED <<diskCount, diskTotal, nodeCache, batch, base, mixed, opens>>

-----------------------------------------------------------------------------
(* Reading, updating, deleting *)

\* get_node_internal; a record that is found is cached, in a batch as well.
Fetch(id) ==
  IF nodeCache[id] # Absent \/ index[id] = 0
  THEN UNCHANGED <<cache, nodeCache>>
  ELSE /\ cache' \in CachedByLoading(index[id])
       /\ nodeCache' = [nodeCache EXCEPT ![id] = Lookup(id)]

GetNode(id) ==
  /\ Fetch(id)
  /\ UNCHANGED <<dirty, nextId, batch, count, total, guard>>
  /\ UNCHANGED <<fileVars, histVars>>

\* WriteBatchGuard::insert_edge for an edge from a node to itself: the node must
\* exist.  What it does to the edges is EdgeStore's subject.
BatchInsertEdge(id) ==
  /\ guard # "none"
  /\ Read(id) # Absent
  /\ Fetch(id)
  /\ guard' = IF guard = "empty" THEN "edges" ELSE guard
  /\ UNCHANGED <<dirty, nextId, batch, count, total>>
  /\ UNCHANGED <<fileVars, histVars>>

\* flush_to_disk, as far as the header is concerned.
HeaderFlushed == diskCount' = count' /\ diskTotal' = total'

\* The page with the first record of the id replaced.
Replaced(page, id, v) == [page EXCEPT ![First(page, id)].val = v]

\* Mutant: node_cache keeps the record.
UpdateNode_KeepsCached(id, v) ==
  /\ Lookup(id) # Absent
  /\ LET p == index[id]
         page == Replaced(Loaded(p), id, v)
     IN  WritePage(p, page) /\ cache' \in CachedWith(p, page)
  /\ UNCHANGED <<count, total, nodeCache>>
  /\ HeaderFlushed
  /\ promised' = [promised EXCEPT ![id] = v]
  /\ base' = [base EXCEPT ![id] = v]
  /\ mixed' = batch
  /\ UNCHANGED <<index, nextId, batch, guard, events, opens>>

\* V3Backend::update_node; without a record it fails and does what GetNode does.
UpdateNode(id, v) ==
  /\ Lookup(id) # Absent
  /\ LET p == index[id]
         page == Replaced(Loaded(p), id, v)
     IN  WritePage(p, page) /\ cache' \in CachedWith(p, page)
  /\ nodeCache' = [nodeCache EXCEPT ![id] = Absent]
  /\ UNCHANGED <<count, total>>
  /\ HeaderFlushed
  /\ promised' = [promised EXCEPT ![id] = v]
  /\ base' = [base EXCEPT ![id] = v]
  /\ mixed' = batch
  /\ UNCHANGED <<index, nextId, batch, guard, events, opens>>

\* NodeStore::delete_node: the page is written back with the flag set.
DeleteRecord(id) ==
  IF Lookup(id) # Absent
  THEN LET p == index[id]
       IN  /\ WritePage(p, Loaded(p))
           /\ cache' \in CachedWith(p, Loaded(p))
           /\ index' = [index EXCEPT ![id] = 0]
  ELSE /\ IF index[id] = 0 THEN UNCHANGED cache
                           ELSE cache' \in CachedByLoading(index[id])
       /\ UNCHANGED <<disk, dirty, index>>

\* header.node_count.saturating_sub(1)
LessOne(n) == IF n = 0 THEN 0 ELSE n - 1

\* V3Backend::delete_entity: the count falls whether there was a node or not.
DeleteEntity(id) ==
  /\ DeleteRecord(id)
  /\ nodeCache' = [nodeCache EXCEPT ![id] = Absent]
  /\ count' = LessOne(count)
  /\ UNCHANGED total
  /\ HeaderFlushed
  /\ promised' = [promised EXCEPT ![id] = Absent]
  /\ base' = [base EXCEPT ![id] = Absent]
  /\ events' = events \cup {"deleted"} \cup If(Lookup(id) = Absent, "missed")
  /\ UNCHANGED <<nextId, batch, guard, mixed, opens>>

-----------------------------------------------------------------------------
(* Batches *)

\* V3Backend::begin_batch
BeginBatch ==
  /\ guard = "none"
  /\ guard' = "empty"
  /\ batch' = TRUE
  /\ dirty' = None(Pages)
  /\ mixed' = FALSE
  /\ events' = events \cup If(mixed, "lost")
  /\ UNCHANGED <<cache, nodeCache, nextId, count, total, promised, base, opens>>
  /\ UNCHANGED fileVars

\* The staged pages of P written over a file.
Written(P) == [p \in Pages |-> IF p \in P THEN dirty[p] ELSE disk[p]]
Staged == {p \in Pages : dirty[p] # Absent}

\* Every staged page is written and cached; any of them may leave the cache.
CachedByCommit ==
  {c \in [Pages -> {Absent} \cup {cache[p] : p \in Cached} \cup {dirty[p] : p \in Staged}] :
     /\ \A p \in Pages : c[p] \in {Absent, IF p \in Staged THEN dirty[p] ELSE cache[p]}
     /\ Cardinality({p \in Pages : c[p] # Absent}) =
          LET all == Cardinality(Cached \cup Staged)
          IN  IF Staged = {} \/ all <= CacheCap THEN all ELSE CacheCap}

\* Mutant: the header is not written.
CommitBatch_NoHeader ==
  /\ guard # "none"
  /\ guard' = "none"
  /\ IF guard = "nodes"
     THEN /\ disk' = Written(Staged)
          /\ cache' \in CachedByCommit
          /\ dirty' = None(Pages)
          /\ batch' = FALSE
          /\ base' = promised
          /\ mixed' = FALSE
     ELSE UNCHANGED <<disk, cache, dirty, batch, base, mixed>>
  /\ UNCHANGED <<diskCount, diskTotal>>
  /\ UNCHANGED <<index, nodeCache, nextId, count, total, promised, events, opens>>

\* WriteBatchGuard::commit: commit_batch only if a node was inserted.
CommitBatch ==
  /\ guard # "none"
  /\ guard' = "none"
  /\ IF guard = "nodes"
     THEN /\ disk' = Written(Staged)
          /\ cache' \in CachedByCommit
          /\ dirty' = None(Pages)
          /\ batch' = FALSE
          /\ base' = promised
          /\ mixed' = FALSE
     ELSE UNCHANGED <<disk, cache, dirty, batch, base, mixed>>
  /\ IF guard = "empty" THEN UNCHANGED <<diskCount, diskTotal>>
                        ELSE diskCount' = count /\ diskTotal' = total
  /\ UNCHANGED <<index, nodeCache, nextId, count, total, promised, events, opens>>

\* WriteBatchGuard dropped without commit: rollback_batch.
RollBack ==
  /\ guard # "none"
  /\ guard' = "none"
  /\ dirty' = None(Pages)
  /\ batch' = FALSE
  /\ promised' = base
  /\ mixed' = FALSE
  /\ events' = events \cup If(mixed, "lost") \cup If(guard = "nodes", "rolledBack")
       \cup If(\/ \E i \in Ids : nodeCache[i] \notin {Absent, base[i]}
               \/ \E p \in Pages : cache[p] \notin {Absent, disk[p]}, "phantom")
  /\ UNCHANGED <<cache, nodeCache, nextId, count, total, base, opens>>
  /\ UNCHANGED fileVars

-----------------------------------------------------------------------------
(* Flushing, closing, crashing, opening *)

\* V3Backend::flush: the header; staged pages stay staged.
Flush ==
  /\ diskCount' = count
  /\ diskTotal' = total
  /\ UNCHANGED <<disk, index>>
  /\ UNCHANGED <<memVars, histVars>>

\* What open finds is what the file has; the id counter starts again at 1.
Opened ==
  /\ opens < MaxOpens
  /\ opens' = opens + 1
  /\ cache' = None(Pages)
  /\ dirty' = None(Pages)
  /\ nodeCache' = None(Ids)
  /\ nextId' = 1
  /\ batch' = FALSE
  /\ count' = diskCount'
  /\ total' = diskTotal'
  /\ guard' = "none"
  /\ mixed' = FALSE

\* Drop flushes the header and not the staged pages; a guard borrows the
\* backend, so none is open.
CloseAndOpen ==
  /\ guard = "none"
  /\ diskCount' = count
  /\ diskTotal' = total
  /\ Opened
  /\ events' = events \cup If(mixed, "lost")
  /\ UNCHANGED <<disk, index, promised, base>>

\* After a crash callers can rely on what the file has.
Survived(files) ==
  /\ promised' = [i \in Ids |-> IF index'[i] = 0 THEN Absent
                                 ELSE Find(disk'[index'[i]], i)]
  /\ base' = promised'
  /\ events' = events \cup files

\* Between two calls, or in a commit when the pages of P have been written.
CrashAndOpen(P) ==
  /\ guard # "nodes" => P = {}
  /\ disk' = Written(P)
  /\ UNCHANGED <<index, diskCount, diskTotal>>
  /\ Opened
  /\ Survived(If(guard = "nodes", "cut") \cup If(mixed, "lost"))

\* In an insert outside a batch, with the page written and the index not, or
\* both and the header not.
InsertCut(p, new, v, indexed) ==
  /\ ~batch
  /\ nextId <= MaxId
  /\ Target(p, new)
  /\ disk' = [disk EXCEPT ![p] = Append(Before(p, new), [id |-> nextId, val |-> v])]
  /\ index' = IF indexed THEN [index EXCEPT ![nextId] = p] ELSE index
  /\ UNCHANGED <<diskCount, diskTotal>>
  /\ Opened
  /\ Survived({"cut"} \cup If(new /\ disk[p] # Absent, "overwritten"))

\* In a delete, with the index entry removed and the header not written.
DeleteCut(id) ==
  /\ Lookup(id) # Absent
  /\ disk' = IF batch THEN disk ELSE [disk EXCEPT ![index[id]] = Loaded(index[id])]
  /\ index' = [index EXCEPT ![id] = 0]
  /\ UNCHANGED <<diskCount, diskTotal>>
  /\ Opened
  /\ Survived({"cut"} \cup If(mixed, "lost"))

Next ==
  \/ \E p \in Pages, new \in BOOLEAN, v \in Payloads :
       \/ InsertNode(p, new, v)
       \/ BatchInsertNode(p, new, v)
       \/ \E indexed \in BOOLEAN : InsertCut(p, new, v, indexed)
  \/ \E id \in Ids : GetNode(id) \/ BatchInsertEdge(id) \/ DeleteEntity(id) \/ DeleteCut(id)
  \/ \E id \in Ids, v \in Payloads : UpdateNode(id, v)
  \/ BeginBatch
  \/ CommitBatch
  \/ RollBack
  \/ Flush
  \/ CloseAndOpen
  \/ \E P \in SUBSET Staged : CrashAndOpen(P)

Spec == Init /\ [][Next]_vars

-----------------------------------------------------------------------------
(* Properties *)

Without(excuses) == events \cap excuses = {}

\* Every read returns what the last call about the node made of it, whichever
\* of the two caches, the staged pages and the file it comes from, and after any
\* commit, rollback, close or crash; until an id is handed out again, a page in
\* use is overwritten, a rollback leaves a batch's node in a cache, or a call
\* that was only staged is discarded.
ReadsAreRight ==
  Without({"reused", "overwritten", "phantom", "lost"}) =>
    \A i \in Ids : Read(i) = promised[i]

\* What a crash now would leave is what was committed: nothing of an open
\* batch, and everything else, except calls staged with a batch not their own.
CommittedIsInFile ==
  (Without({"reused", "overwritten", "phantom", "lost"}) /\ ~mixed) =>
    \A i \in Ids : Durable(i) = base[i]

\* entity_ids: the ids up to node_count that can be read.
EntityIds == {i \in 1..count : i \in Ids /\ Read(i) # Absent}

\* header.node_count is the number of nodes while no batch was rolled back with
\* its nodes counted, no delete missed its node and no call was cut short; and
\* with none of the events at all entity_ids returns the id of every node.
CountIsRight ==
  /\ Without({"reused", "overwritten", "phantom", "lost", "rolledBack", "missed", "cut"}) =>
       count = Cardinality({i \in Ids : promised[i] # Absent})
  /\ Without(Events) => EntityIds = {i \in Ids : promised[i] # Absent}
=============================================================================
