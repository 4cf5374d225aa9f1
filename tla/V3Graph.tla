------------------------------- MODULE V3Graph --------------------------------
(***************************************************************************)
(* V3Backend as its callers see it: nodes and their kinds, the node cache, *)
(* the kind index and its .v3index sidecar, the header, and snapshots that *)
(* are exported and imported, with several threads in these calls at once. *)
(*                                                                         *)
(* insert_node_inner, update_node and delete_entity hold node_store.write()*)
(* while they change things (the last two until they return), and every    *)
(* other lock is held for one step, so `lock` is node_store's only.  What  *)
(* pages, batches and allocations do to nodes is NodeStore's subject, the  *)
(* lists of edges are EdgeStore's, the log KvEngine's: here the node store *)
(* is a map that is written through to the file, and of an edge only its   *)
(* count is kept.  The name index goes through the same steps as the kind  *)
(* index and is left out, as are evictions from the node cache.            *)
(***************************************************************************)
EXTENDS Naturals

CONSTANTS
  Threads,
  Kinds,      \* kinds of nodes
  Plain,      \* the kind parse_node_data reads from a record of update_node
  None,       \* no node, no file, no lock
  MaxId,      \* bound: ids are 1..MaxId
  Does,       \* bound: the operations each thread is used for
  MaxCalls,   \* bound on the number of calls that write
  MaxCrashes  \* bound on crashes

VARIABLES
  nodes,     \* the node store: the kind the record of an id says
  cache,     \* node_cache, likewise
  kinds,     \* kind_index: how often each id is listed under each kind
  header,    \* the header in memory
  nextId,    \* next_node_id
  lock,      \* the thread that holds node_store.write() beyond one step
  file,      \* the database file
  sidecar,   \* .v3index
  temp,      \* .v3index.tmp
  snap,      \* the exported file, and the history of its export
  call,      \* per thread: the call it is in
  promised,  \* history: the kind of each node whose insert returned
  was,       \* history: the kinds an id had
  gone,      \* history: ids whose delete returned
  stray,     \* history: an edge was inserted to a node gone since before the call
  events,    \* history: events after which less is promised
  races,     \* history: calls that got in each other's way
  calls, crashes  \* counters behind MaxCalls and MaxCrashes

memVars == <<nodes, cache, kinds, header, nextId, lock>>
fileVars == <<file, sidecar, temp, snap>>
histVars == <<promised, was, gone, stray, calls, crashes>>
vars == <<nodes, cache, kinds, header, nextId, lock, file, sidecar, temp, snap, call,
          promised, was, gone, stray, events, races, calls, crashes>>

-----------------------------------------------------------------------------
Ids == 1..MaxId
AllKinds == Kinds \cup {Plain}
NodeMap == [Ids -> AllKinds \cup {None}]
Index == [AllKinds -> [Ids -> Nat]]
Header == [nodes : Nat, edges : Nat, root : BOOLEAN]
File == [header : Header, nodes : NodeMap]
Sidecar == [count : Nat \cup {None}, kinds : Index \cup {None}]
Snapshot == [header : Header, nodes : NodeMap, promised : NodeMap, quiet : BOOLEAN]

ASSUME V3GraphAssumption ==
  /\ MaxId \in Nat /\ MaxCalls \in Nat /\ MaxCrashes \in Nat
  /\ Plain \notin Kinds /\ None \notin AllKinds \cup Threads \cup Nat
  /\ None \notin Sidecar \cup Snapshot \cup Index

Empty == [id \in Ids |-> None]
NoKinds == [k \in AllKinds |-> [id \in Ids |-> 0]]
NoHeader == [nodes |-> 0, edges |-> 0, root |-> FALSE]
Blank == [count |-> None, kinds |-> None]
If(condition, event) == IF condition THEN {event} ELSE {}

\* What a thread knows of the call it is in; each call uses some of it.
Call == [
  op : {"none", "insert_node", "update_node", "delete_entity", "insert_edge", "flush",
        "snapshot_export", "snapshot_import"},
  pc : {"none", "from", "to", "edge", "sync", "count", "create", "head", "entries",
        "rename", "pages", "stores", "header", "rebuild"},
  id : Ids \cup {0},              \* the node
  kind : AllKinds \cup {None},    \* the kind it is inserted with
  synced : BOOLEAN,               \* delete_entity has synced the header once
  from : Ids \cup {0}, to : Ids \cup {0},  \* the ends of an edge
  found : BOOLEAN,                \* whether the ends read so far were there
  gone : SUBSET Ids,              \* history: the ends that were gone at the start
  count : Nat,                    \* what goes into the sidecar: the count
  kinds : Index \cup {None},      \* ... and the copy of the index
  fd : {"none", "temp", "sidecar", "gone"},  \* where the file it writes is now
  header : Header,                \* the header an import has read
  file : File,                    \* history: the file when an export began
  promised : NodeMap ]            \* history: what was promised then

NoCall == [op |-> "none", pc |-> "none", id |-> 0, kind |-> None, synced |-> FALSE,
           from |-> 0, to |-> 0, found |-> TRUE, gone |-> {}, count |-> 0, kinds |-> None,
           fd |-> "none", header |-> NoHeader,
           file |-> [header |-> NoHeader, nodes |-> Empty], promised |-> Empty]

Events == {
  "reused",    \* an insert was given an id the node store or the index has
  "short",     \* no sidecar was accepted, and the count is below a node's id
  "ahead",     \* the process died after a sidecar was written whose count the
               \* header of the file did not have yet
  "stale",     \* a snapshot was imported over cached nodes it has otherwise
  "torn",      \* a snapshot was imported whose export other calls wrote into
  "cut" }      \* the process died in a delete_entity or a snapshot_import
Races == {
  "import",    \* a call that writes was under way while a snapshot was imported
  "sidecar" }  \* two calls were on their way to write the sidecar

TypeOK ==
  /\ nodes \in NodeMap /\ cache \in NodeMap /\ promised \in NodeMap
  /\ kinds \in Index
  /\ header \in Header
  /\ nextId \in 1..(MaxId + 1)
  /\ lock \in Threads \cup {None}
  /\ file \in File
  /\ sidecar \in Sidecar \cup {None} /\ temp \in Sidecar \cup {None}
  /\ snap \in Snapshot \cup {None}
  /\ call \in [Threads -> Call]
  /\ was \in [Ids -> SUBSET AllKinds]
  /\ gone \subseteq Ids /\ stray \in BOOLEAN
  /\ events \subseteq Events /\ races \subseteq Races
  /\ calls \in Nat /\ crashes \in Nat

\* V3Backend::create
Init ==
  /\ nodes = Empty /\ cache = Empty /\ kinds = NoKinds
  /\ header = NoHeader /\ nextId = 1 /\ lock = None
  /\ file = [header |-> NoHeader, nodes |-> Empty]
  /\ sidecar = None /\ temp = None /\ snap = None
  /\ call = [t \in Threads |-> NoCall]
  /\ promised = Empty /\ was = [i \in Ids |-> {}] /\ gone = {} /\ stray = FALSE
  /\ events = {} /\ races = {} /\ calls = 0 /\ crashes = 0

-----------------------------------------------------------------------------
(* Calls *)

Idle(t) == call[t].op = "none"
At(t, pc) == call[t].pc = pc
Goto(t, pc) == call' = [call EXCEPT ![t].pc = pc]
Starts(t, op) == Idle(t) /\ op \in Does[t] /\ calls < MaxCalls /\ calls' = calls + 1
Unlocked(t) == lock \in {None, t}
Inserting(t) == call[t].op = "insert_node"
Deleting(t) == call[t].op = "delete_entity"
Importing(t) == call[t].op = "snapshot_import"

\* A call is over: its lock is released, and what it did can be relied on, unless
\* another call has undone it.
Released(t) ==
  LET c == call[t]
  IN  /\ lock' = IF lock = t THEN None ELSE lock
      /\ promised' = IF Inserting(t) /\ nodes[c.id] = c.kind
                     THEN [promised EXCEPT ![c.id] = c.kind]
                     ELSE IF Importing(t) THEN snap.promised ELSE promised
      /\ gone' = IF Deleting(t) THEN gone \cup {c.id}
                 ELSE IF Importing(t) THEN {} ELSE gone

-----------------------------------------------------------------------------
(* Nodes *)

\* get_node_internal: what it answers, and the cache after it.
Lookup(id) == nodes[id]
Cached(id) == cache[id] # None
Read(id) == IF Cached(id) THEN cache[id] ELSE Lookup(id)
Caching(S) == [id \in Ids |-> IF id \in S THEN Read(id) ELSE cache[id]]

GetNode(t, id) ==
  /\ "get_node" \in Does[t] /\ Idle(t) /\ ~Cached(id) /\ Unlocked(t)
  /\ cache' = Caching({id})
  /\ UNCHANGED <<nodes, kinds, header, nextId, lock, fileVars, call, events, histVars>>

\* Whether the index lists an id.
Listed(id) == \E k \in AllKinds : kinds[k][id] > 0

\* insert_node_inner: the node store, the index, the header in memory.
InsertNode(t, k) ==
  /\ Starts(t, "insert_node") /\ Unlocked(t) /\ nextId \in Ids
  /\ nodes' = [nodes EXCEPT ![nextId] = k]
  /\ file' = [file EXCEPT !.nodes[nextId] = k]
  /\ nextId' = nextId + 1
  /\ kinds' = [kinds EXCEPT ![k][nextId] = @ + 1]
  /\ header' = [header EXCEPT !.nodes = @ + 1, !.root = TRUE]
  /\ call' = [u \in Threads |->
       IF u = t THEN [NoCall EXCEPT !.op = "insert_node", !.pc = "sync", !.id = nextId,
                                    !.kind = k]
       ELSE [call[u] EXCEPT !.gone = @ \ {nextId}]]
  /\ was' = [was EXCEPT ![nextId] = @ \cup {k}]
  /\ gone' = gone \ {nextId}
  /\ events' = events \cup If(nodes[nextId] # None \/ Listed(nextId), "reused")
  /\ UNCHANGED <<cache, lock, sidecar, temp, snap, promised, stray, crashes>>

\* sync_header, which ends most calls.
SyncHeader(t) ==
  /\ At(t, "sync")
  /\ file' = [file EXCEPT !.header = header]
  /\ IF Deleting(t) /\ ~call[t].synced
     THEN /\ call' = [call EXCEPT ![t].pc = "count", ![t].synced = TRUE]
          /\ UNCHANGED <<lock, promised, gone>>
     ELSE call' = [call EXCEPT ![t] = NoCall] /\ Released(t)
  /\ UNCHANGED <<nodes, cache, kinds, header, nextId, sidecar, temp, snap, was, stray,
                 events, calls, crashes>>

\* update_node: the new record has neither kind nor name, and the index is not
\* told.  node_store stays locked during the flush that follows.
UpdateNode(t, id) ==
  /\ Starts(t, "update_node") /\ Unlocked(t) /\ Lookup(id) # None
  /\ nodes' = [nodes EXCEPT ![id] = Plain]
  /\ file' = [file EXCEPT !.nodes[id] = Plain]
  /\ cache' = [cache EXCEPT ![id] = None]
  /\ lock' = t
  /\ call' = [call EXCEPT ![t] = [NoCall EXCEPT !.op = "update_node", !.pc = "count", !.id = id]]
  /\ promised' = [promised EXCEPT ![id] = None]
  /\ was' = [was EXCEPT ![id] = @ \cup {Plain}]
  /\ UNCHANGED <<kinds, header, nextId, sidecar, temp, snap, gone, stray, events, crashes>>

\* Mutant: the cache keeps the record.
DeleteEntity_KeepsCached(t, id) ==
  /\ Starts(t, "delete_entity") /\ Unlocked(t)
  /\ nodes' = [nodes EXCEPT ![id] = None]
  /\ file' = [file EXCEPT !.nodes[id] = None]
  /\ lock' = t
  /\ header' = [header EXCEPT !.nodes = IF @ = 0 THEN 0 ELSE @ - 1]
  /\ call' = [call EXCEPT ![t] = [NoCall EXCEPT !.op = "delete_entity", !.pc = "sync", !.id = id]]
  /\ promised' = [promised EXCEPT ![id] = None]
  /\ UNCHANGED <<cache, kinds, nextId, sidecar, temp, snap, was, gone, stray, events, crashes>>

\* delete_entity: the record, the cache, the count in memory; then the header is
\* synced and everything flushed.  Index and edges keep the id.
DeleteEntity(t, id) ==
  /\ Starts(t, "delete_entity") /\ Unlocked(t)
  /\ nodes' = [nodes EXCEPT ![id] = None]
  /\ file' = [file EXCEPT !.nodes[id] = None]
  /\ cache' = [cache EXCEPT ![id] = None]
  /\ lock' = t
  /\ header' = [header EXCEPT !.nodes = IF @ = 0 THEN 0 ELSE @ - 1]
  /\ call' = [call EXCEPT ![t] = [NoCall EXCEPT !.op = "delete_entity", !.pc = "sync", !.id = id]]
  /\ promised' = [promised EXCEPT ![id] = None]
  /\ UNCHANGED <<kinds, nextId, sidecar, temp, snap, was, gone, stray, events, crashes>>

-----------------------------------------------------------------------------
(* Edges *)

\* insert_edge_inner reads one end, then the other, ...
BeginEdge(t, a, b) ==
  /\ Starts(t, "insert_edge")
  /\ call' = [call EXCEPT ![t] = [NoCall EXCEPT !.op = "insert_edge", !.pc = "from",
                                    !.from = a, !.to = b, !.gone = gone \cap {a, b}]]
  /\ UNCHANGED <<memVars, fileVars, promised, was, gone, stray, events, crashes>>

CheckEnd(t) ==
  /\ At(t, "from") \/ At(t, "to")
  /\ LET id == IF At(t, "from") THEN call[t].from ELSE call[t].to
     IN  /\ Cached(id) \/ Unlocked(t)
         /\ cache' = Caching({id})
         /\ call' = [call EXCEPT ![t].pc = IF @ = "from" THEN "to" ELSE "edge",
                                 ![t].found = @ /\ Read(id) # None]
  /\ UNCHANGED <<nodes, kinds, header, nextId, lock, fileVars, events, histVars>>

\* ... and inserts the edge, if both were there, with no lock on the nodes.
InsertEdge(t) ==
  /\ At(t, "edge")
  /\ IF call[t].found
     THEN /\ header' = [header EXCEPT !.edges = @ + 1]
          /\ stray' = (stray \/ call[t].gone # {})
          /\ Goto(t, "sync")
     ELSE call' = [call EXCEPT ![t] = NoCall] /\ UNCHANGED <<header, stray>>
  /\ UNCHANGED <<nodes, cache, kinds, nextId, lock, fileVars, promised, was, gone, events,
                 calls, crashes>>

-----------------------------------------------------------------------------
(* flush_to_disk: the count, the sidecar, the header *)

Flush(t) ==
  /\ Starts(t, "flush")
  /\ call' = [call EXCEPT ![t] = [NoCall EXCEPT !.op = "flush", !.pc = "count"]]
  /\ UNCHANGED <<memVars, fileVars, promised, was, gone, stray, events, crashes>>

\* The node count the sidecar will carry.
TakeCount(t) ==
  /\ At(t, "count")
  /\ call' = [call EXCEPT ![t].pc = "create", ![t].count = header.nodes]
  /\ UNCHANGED <<memVars, fileVars, events, histVars>>

\* persist_indexes: File::create truncates the temporary file if it exists.
CreateTemp(t) ==
  /\ At(t, "create")
  /\ temp' = Blank
  /\ call' = [call EXCEPT ![t].pc = "head", ![t].fd = "temp"]
  /\ UNCHANGED <<memVars, file, sidecar, snap, events, histVars>>

\* A file that was renamed while it was open is written where it is now.
Opened(fd) == IF fd = "temp" THEN temp ELSE sidecar
Write(fd, content) ==
  /\ temp' = IF fd = "temp" THEN content ELSE temp
  /\ sidecar' = IF fd = "sidecar" THEN content ELSE sidecar

\* The count is written, the index copied ...
WriteHead(t) ==
  LET fd == call[t].fd
  IN
  /\ At(t, "head")
  /\ Write(fd, [Opened(fd) EXCEPT !.count = call[t].count])
  /\ call' = [call EXCEPT ![t].pc = "entries", ![t].kinds = kinds]
  /\ UNCHANGED <<memVars, file, snap, events, histVars>>

\* ... and the copy written.
WriteEntries(t) ==
  LET fd == call[t].fd
  IN
  /\ At(t, "entries")
  /\ Write(fd, [Opened(fd) EXCEPT !.kinds = call[t].kinds])
  /\ Goto(t, "rename")
  /\ UNCHANGED <<memVars, file, snap, events, histVars>>

\* rename fails if another thread has renamed the file; nobody looks.
Renamed(fd) == IF temp = None THEN fd ELSE IF fd = "temp" THEN "sidecar" ELSE "gone"
RenameTemp(t) ==
  /\ At(t, "rename")
  /\ sidecar' = IF temp # None THEN temp ELSE sidecar
  /\ temp' = None
  /\ call' = [u \in Threads |->
       IF u = t THEN IF Importing(t) THEN NoCall ELSE [call[t] EXCEPT !.pc = "sync"]
       ELSE IF call[u].pc \in {"head", "entries"} THEN [call[u] EXCEPT !.fd = Renamed(@)]
       ELSE call[u]]
  /\ IF Importing(t) THEN Released(t) ELSE UNCHANGED <<lock, promised, gone>>
  /\ UNCHANGED <<nodes, cache, kinds, header, nextId, file, snap, was, stray, events, calls,
                 crashes>>

-----------------------------------------------------------------------------
(* Rebuilding and opening *)

\* Mutant: the range leaves out its end.
Scanned_HalfOpen(count) == {id \in Ids : id < count}

\* The ids rebuild_indexes looks at.
Scanned(count) == {id \in Ids : id <= count}

\* The index it makes: read[id] is the kind found for an id, or None.
Rebuilt(count, read) ==
  [k \in AllKinds |-> [id \in Ids |-> IF id \in Scanned(count) /\ read[id] = k THEN 1 ELSE 0]]

\* restore_indexes accepts the sidecar.
Restores(count) ==
  sidecar # None /\ sidecar.count = count /\ sidecar.kinds # None

\* What the node store has that is opened on the file: without a root of its index
\* it starts over.
Found == IF file.header.root THEN file.nodes ELSE Empty

\* The process dies in any step, or V3Backend is dropped, and open follows.
CrashAndOpen ==
  /\ crashes < MaxCrashes
  /\ crashes' = crashes + 1
  /\ LET count == file.header.nodes
         restored == IF Restores(count) THEN sidecar.kinds ELSE NoKinds
         rebuilds == restored = NoKinds /\ count > 0
     IN  /\ nodes' = Found
         /\ file' = [file EXCEPT !.nodes = Found]
         /\ header' = file.header
         /\ kinds' = IF rebuilds THEN Rebuilt(count, Found) ELSE restored
         /\ cache' = [id \in Ids |-> IF rebuilds /\ id \in Scanned(count) THEN Found[id] ELSE None]
         /\ events' = events
              \cup If(restored = NoKinds /\ \E id \in Ids : promised[id] # None /\ id > count, "short")
              \cup If(sidecar # None /\ sidecar.count # None /\ sidecar.count > count, "ahead")
              \cup If(\E t \in Threads : Importing(t) \/ Deleting(t), "cut")
  /\ nextId' = 1
  /\ lock' = None
  /\ call' = [t \in Threads |-> NoCall]
  /\ gone' = gone \cup {call[t].id : t \in {u \in Threads : Deleting(u)}}
  /\ UNCHANGED <<sidecar, temp, snap, promised, was, stray, calls>>

-----------------------------------------------------------------------------
(* Snapshots *)

\* snapshot_export: copy reads the header before the pages.
ExportHeader(t) ==
  /\ Starts(t, "snapshot_export")
  /\ call' = [call EXCEPT ![t] = [NoCall EXCEPT !.op = "snapshot_export", !.pc = "pages",
                                    !.file = file, !.promised = promised]]
  /\ UNCHANGED <<memVars, fileVars, promised, was, gone, stray, events, crashes>>

\* History: what had been promised when the export began, and whether the file
\* stayed the same while it was copied.
ExportPages(t) ==
  /\ At(t, "pages")
  /\ snap' = [header |-> call[t].file.header, nodes |-> file.nodes,
              promised |-> call[t].promised, quiet |-> file = call[t].file]
  /\ call' = [call EXCEPT ![t] = NoCall]
  /\ UNCHANGED <<memVars, file, sidecar, temp, events, histVars>>

\* snapshot_import: the file is replaced, ...
ImportCopy(t) ==
  /\ Starts(t, "snapshot_import") /\ snap # None
  /\ file' = [header |-> snap.header, nodes |-> snap.nodes]
  /\ call' = [call EXCEPT ![t] = [NoCall EXCEPT !.op = "snapshot_import", !.pc = "stores"]]
  /\ UNCHANGED <<memVars, sidecar, temp, snap, promised, was, gone, stray, events, crashes>>

\* ... its header read and a node store opened on it, which takes the place of
\* the old one ...
ImportStores(t) ==
  /\ At(t, "stores") /\ Unlocked(t)
  /\ nodes' = Found
  /\ file' = [file EXCEPT !.nodes = Found]
  /\ nextId' = 1
  /\ call' = [call EXCEPT ![t].pc = "header", ![t].header = file.header]
  /\ UNCHANGED <<cache, kinds, header, lock, sidecar, temp, snap, events, histVars>>

\* Mutant: the header in memory stays.
ImportHeader_Kept(t) ==
  /\ At(t, "header")
  /\ Goto(t, "rebuild")
  /\ UNCHANGED <<memVars, fileVars, events, histVars>>

\* ... and then its header the place of the old one.
ImportHeader(t) ==
  /\ At(t, "header")
  /\ header' = call[t].header
  /\ Goto(t, "rebuild")
  /\ UNCHANGED <<nodes, cache, kinds, nextId, lock, fileVars, events, histVars>>

\* The indexes are cleared and rebuilt through the node cache, which was not.
ImportRebuild(t) ==
  /\ At(t, "rebuild") /\ Unlocked(t)
  /\ LET count == call[t].header.nodes
     IN  /\ kinds' = Rebuilt(header.nodes, [id \in Ids |-> Read(id)])
         /\ cache' = Caching(Scanned(header.nodes))
         /\ events' = events
              \cup If(\E id \in Ids : snap.promised[id] # None /\ id > count, "short")
              \cup If(\E id \in Ids : Cached(id) /\ Read(id) # Lookup(id), "stale")
              \cup If(~snap.quiet, "torn")
         /\ call' = [call EXCEPT ![t].pc = "create", ![t].count = count]
  /\ UNCHANGED <<nodes, header, nextId, lock, fileVars, histVars>>

-----------------------------------------------------------------------------
NodeCalls(t) ==
  \/ \E k \in Kinds : InsertNode(t, k)
  \/ \E id \in Ids : GetNode(t, id) \/ UpdateNode(t, id) \/ DeleteEntity(t, id)
  \/ \E a, b \in Ids : BeginEdge(t, a, b)
  \/ CheckEnd(t) \/ InsertEdge(t)

FlushCalls(t) ==
  \/ Flush(t) \/ TakeCount(t) \/ CreateTemp(t) \/ WriteHead(t) \/ WriteEntries(t)
  \/ RenameTemp(t) \/ SyncHeader(t)

SnapshotCalls(t) ==
  \/ ExportHeader(t) \/ ExportPages(t)
  \/ ImportCopy(t) \/ ImportStores(t) \/ ImportHeader(t) \/ ImportRebuild(t)

\* A call is between taking the count for the sidecar and renaming it.
Persisting(t) == call[t].pc \in {"create", "head", "entries", "rename"}

\* History: who is in whose way after the step.
Watch ==
  races' = races
    \cup If(\E t, u \in Threads : t # u /\ Importing(t)' /\ ~Idle(u)', "import")
    \cup If(\E t, u \in Threads : t # u /\ Persisting(t)' /\ Persisting(u)', "sidecar")

Next ==
  /\ \/ \E t \in Threads : NodeCalls(t) \/ FlushCalls(t) \/ SnapshotCalls(t)
     \/ CrashAndOpen
  /\ Watch

Spec == Init /\ [][Next]_vars

-----------------------------------------------------------------------------
(* Properties *)

\* query_nodes_by_kind has every node whose insert has returned, once, under
\* its kind, and no id under a kind it never had: whether the index was kept up
\* to date, restored from a sidecar that some flush wrote while nodes came and
\* went, or rebuilt.  Except while a snapshot is imported and after the events
\* and races listed with Events and Races.
KindIndexRight ==
  events = {} /\ races = {} /\ (\A t \in Threads : ~Importing(t)) =>
    /\ \A id \in Ids : promised[id] # None => kinds[promised[id]][id] = 1
    /\ \A k \in AllKinds, id \in Ids : kinds[k][id] > 0 => k \in was[id]

\* No edge is inserted to a node whose deletion had returned before the call
\* began, though the ends are looked up in a cache and long before the insert.
NoEdgeToDeletedNode == events = {} /\ races = {} => ~stray

\* entity_ids
EntityIds == {id \in Scanned(header.nodes) : Read(id) # None}

\* The nodes of a map.
Present(map) == {id \in Ids : map[id] # None}

\* An import returns with the nodes of the snapshot in place of what there was,
\* as get_node and entity_ids tell them, if no other call wrote to the file
\* while it was exported, none was under way while it was imported, and no node
\* was cached with another record.
ImportRestores ==
  [][\A t \in Threads :
       Importing(t) /\ Idle(t)' /\ crashes' = crashes /\ events = {} /\ races' = {} =>
         /\ \A id \in Present(snap.promised) : Read(id)' = snap.promised[id]
         /\ EntityIds' \subseteq Present(snap.nodes)
         /\ Present(snap.promised) \subseteq EntityIds']_vars
=============================================================================
