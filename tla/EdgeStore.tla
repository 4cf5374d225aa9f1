------------------------------ MODULE EdgeStore -------------------------------
(***************************************************************************)
(* The V3 edge store: the adjacency cache, the clusters waiting to be      *)
(* flushed, the pages they are written to, the index from (node,           *)
(* direction) to page, flush_to_disk as far as edges are concerned,        *)
(* closing, crashing and opening.                                          *)
(*                                                                         *)
(* V3Backend holds edge_store.write() across the two halves of an insert   *)
(* and across the flush of the clusters, so an insert is one step, and     *)
(* between the steps of a flush only a crash can come until the clusters   *)
(* and the sidecar are written.  Pages come from the allocator, which is   *)
(* taken to keep its promise (PagePool); page writes are atomic.  The      *)
(* index is a map written through to disk; its splits are BTree's subject. *)
(* Log records of edges are written and never replayed, so there are none. *)
(***************************************************************************)
EXTENDS Naturals, Sequences, SequencesExt

CONSTANTS
  Nodes,      \* node ids
  Types,      \* edge types
  NoType,     \* an edge without a type
  Absent,     \* no entry in a map
  PageCap,    \* how many edges of a cluster fit in a page
  MaxInserts, \* bound on the number of inserts
  MaxOpens    \* bound on the number of times the store is opened again

ASSUME EdgeAssumption ==
  /\ NoType \notin Types
  /\ PageCap \in Nat \ {0}
  /\ MaxInserts \in Nat
  /\ MaxOpens \in Nat

VARIABLES
  cache,    \* neighbour lists in memory
  types,    \* edge_types: the type of (node, direction, neighbour)
  dirty,    \* dirty_clusters: [page, edges]
  index,    \* the B+tree of clusters: page of a key, 0 if none
  disk,     \* the edges that can be read back from each page
  nextPage, \* the page the allocator hands out next
  sidecar,  \* the .v3edgemeta file: "none", "ok" or "torn"
  hdrRoot,  \* the header in the file has the root of the index
  pc,       \* where flush_to_disk is: "idle", "clusters", "sidecar", "header"
  pending,  \* keys whose clusters the running flush has still to write
  lists,    \* history: the neighbour lists a reader may rely on
  given,    \* history: the type each edge was last given
  ever,     \* history: every neighbour ever given to a key
  captured, \* history: lists when the running flush wrote the clusters
  saved,    \* history: lists when the last flush completed
  events,   \* history: events that excuse what a reader sees
  inserts, opens  \* counters behind MaxInserts and MaxOpens

memVars  == <<cache, types, dirty>>
fileVars == <<index, disk, sidecar, hdrRoot>>
histVars == <<lists, given, ever, captured, saved, events, inserts, opens>>
vars == <<cache, types, dirty, index, disk, nextPage, sidecar, hdrRoot, pc,
          pending, lists, given, ever, captured, saved, events, inserts, opens>>

-----------------------------------------------------------------------------
Keys == Nodes \X {"out", "in"}
Pages == 1..(2 * MaxInserts + 1)
Edge == [dst : Nodes, type : Types \cup {NoType}]
Cluster == [page : Pages, edges : Seq(Edge)]

ASSUME AbsentAssumption == Absent \notin Seq(Nodes) \cup Cluster

Events == {
  "relisted", \* an insert found the key flushed before and began a new cluster
  "spilled",  \* a cluster was larger than its page
  "repeated", \* an edge was inserted again before it was flushed
  "cleared",  \* an edge with a type was inserted again without one
  "crashed",  \* the process died
  "halved" }  \* it died while clusters were being written
If(condition, event) == IF condition THEN {event} ELSE {}

TypeOK ==
  /\ cache \in [Keys -> Seq(Nodes) \cup {Absent}]
  /\ types \in [Keys \X Nodes -> Types \cup {NoType}]
  /\ dirty \in [Keys -> Cluster \cup {Absent}]
  /\ index \in [Keys -> Pages \cup {0}]
  /\ disk \in [Pages -> Seq(Edge)]
  /\ nextPage \in Pages
  /\ sidecar \in {"none", "ok", "torn"}
  /\ hdrRoot \in BOOLEAN
  /\ pc \in {"idle", "clusters", "sidecar", "header"}
  /\ pending \subseteq Keys
  /\ {lists, captured, saved} \subseteq [Keys -> Seq(Nodes)]
  /\ given \in [Keys \X Nodes -> Types \cup {NoType}]
  /\ ever \in [Keys -> SUBSET Nodes]
  /\ events \subseteq Events
  /\ inserts \in 0..MaxInserts
  /\ opens \in 0..MaxOpens

Nothing(x) == [k \in Keys |-> x]
Untyped == [e \in Keys \X Nodes |-> NoType]

Init ==
  /\ cache = Nothing(Absent)
  /\ types = Untyped
  /\ dirty = Nothing(Absent)
  /\ index = Nothing(0)
  /\ disk = [p \in Pages |-> <<>>]
  /\ nextPage = 1
  /\ sidecar = "none"
  /\ hdrRoot = FALSE
  /\ pc = "idle"
  /\ pending = {}
  /\ lists = Nothing(<<>>)
  /\ given = Untyped
  /\ ever = Nothing({})
  /\ captured = Nothing(<<>>)
  /\ saved = Nothing(<<>>)
  /\ events = {}
  /\ inserts = 0
  /\ opens = 0

-----------------------------------------------------------------------------
(* Reading *)

Dsts(edges) == [i \in 1..Len(edges) |-> edges[i].dst]

\* load_neighbors_from_disk: the cluster of the page the index names, whoever
\* it belongs to.
Stored(k) == IF index[k] = 0 THEN <<>> ELSE disk[index[k]]

\* neighbors: the cached list if there is one.
Neighbors(k) == IF cache[k] # Absent THEN cache[k] ELSE Dsts(Stored(k))

\* The records of a neighbour that have a type.
Typed(edges, d) == {i \in 1..Len(edges) : edges[i].dst = d /\ edges[i].type # NoType}

\* Loading a cluster puts the types it records into edge_types; the last record
\* of a neighbour that has a type wins.
LoadedType(k, d) ==
  LET typed == Typed(Stored(k), d)
  IN IF typed = {} THEN types[<<k, d>>]
     ELSE Stored(k)[CHOOSE i \in typed : \A j \in typed : j <= i].type

\* neighbors on a cache miss: a list that is not empty is cached.
Load(k) ==
  /\ pc \in {"idle", "header"}
  /\ cache[k] = Absent
  /\ Stored(k) # <<>>
  /\ cache' = [cache EXCEPT ![k] = Dsts(Stored(k))]
  /\ types' = [e \in Keys \X Nodes |->
                 IF e[1] = k THEN LoadedType(k, e[2]) ELSE types[e]]
  /\ UNCHANGED <<dirty, index, disk, nextPage, sidecar, hdrRoot, pc, pending,
                 lists, given, ever, captured, saved, events, inserts, opens>>

-----------------------------------------------------------------------------
(* Inserting *)

\* A cached list gets a neighbour it lacks; without a list one is begun, whatever
\* the disk has.
Listed(list, d) ==
  CASE list = Absent -> <<d>>
    [] list # Absent -> IF Contains(list, d) THEN list ELSE Append(list, d)

\* Mutant: a new cluster does not take its page: two clusters get the same.
NeedsPage_Never(k) == FALSE

\* A key with neither a dirty cluster nor an indexed page needs a new page.
NeedsPage(k) == dirty[k] = Absent /\ index[k] = 0

\* Mutant: new edges go to the front of the cluster.
Clustered_Front(k, newPage, e) ==
  IF dirty[k] # Absent
  THEN [dirty[k] EXCEPT !.edges = <<e>> \o @]
  ELSE [page |-> IF index[k] # 0 THEN index[k] ELSE newPage, edges |-> <<e>>]

\* A key without a dirty cluster gets an empty one, on the page the index has for
\* it or else on a new page; the edge is appended, present or not.
Clustered(k, newPage, e) ==
  IF dirty[k] # Absent
  THEN [dirty[k] EXCEPT !.edges = Append(@, e)]
  ELSE [page |-> IF index[k] # 0 THEN index[k] ELSE newPage, edges |-> <<e>>]

\* Inserting neighbour d with type t under key k: the events to remember.
InsertEvents(k, d, t) ==
  If(dirty[k] = Absent /\ index[k] # 0, "relisted")
    \cup If(Contains(lists[k], d), "repeated")
    \cup If(t = NoType /\ given[<<k, d>>] # NoType, "cleared")

\* insert_edge_inner of the backend: outgoing from a to b, then incoming.
Insert(a, b, t) ==
  LET out == <<a, "out">>
      in  == <<b, "in">>
      inPage == nextPage + (IF NeedsPage(out) THEN 1 ELSE 0)
      withEdge(f) == [f EXCEPT ![out] = Listed(@, b), ![in] = Listed(@, a)]
  IN
  /\ pc \in {"idle", "header"}
  /\ inserts < MaxInserts
  /\ inserts' = inserts + 1
  /\ cache' = withEdge(cache)
  /\ types' = [types EXCEPT ![<<out, b>>] = t, ![<<in, a>>] = t]
  /\ dirty' = [dirty EXCEPT
                 ![out] = Clustered(out, nextPage, [dst |-> b, type |-> t]),
                 ![in] = Clustered(in, inPage, [dst |-> a, type |-> t])]
  /\ nextPage' = inPage + (IF NeedsPage(in) THEN 1 ELSE 0)
  /\ lists' = withEdge(lists)
  /\ given' = [given EXCEPT ![<<out, b>>] = t, ![<<in, a>>] = t]
  /\ ever' = [ever EXCEPT ![out] = @ \cup {b}, ![in] = @ \cup {a}]
  /\ events' = events \cup InsertEvents(out, b, t) \cup InsertEvents(in, a, t)
  /\ UNCHANGED <<index, disk, sidecar, hdrRoot, pc, pending, captured, saved, opens>>

-----------------------------------------------------------------------------
(* Flushing, under edge_store.write() until the sidecar is written *)

FlushStart ==
  /\ pc = "idle"
  /\ pending' = {k \in Keys : dirty[k] # Absent}
  /\ pc' = IF pending' = {} THEN "header" ELSE "clusters"
  /\ captured' = lists
  /\ UNCHANGED <<cache, types, dirty, index, disk, nextPage, sidecar, hdrRoot,
                 lists, given, ever, saved, events, inserts, opens>>

\* A cluster that fits replaces what its page held.  One that does not fit runs
\* on into the page behind it, and neither page can be read as a cluster.
PageWritten(p, edges) ==
  IF Len(edges) <= PageCap
  THEN [disk EXCEPT ![p] = edges]
  ELSE [q \in Pages |-> IF q \in {p, p + 1} THEN <<>> ELSE disk[q]]

\* Mutant: a flush leaves the index alone.
WriteCluster_NoIndex(k) ==
  /\ pc = "clusters"
  /\ k \in pending
  /\ disk' = PageWritten(dirty[k].page, dirty[k].edges)
  /\ pending' = pending \ {k}
  /\ events' = events
  /\ IF pending' = {}
     THEN dirty' = Nothing(Absent) /\ pc' = "sidecar"
     ELSE UNCHANGED <<dirty, pc>>
  /\ UNCHANGED <<cache, types, index, nextPage, sidecar, hdrRoot, lists, given,
                 ever, captured, saved, inserts, opens>>

\* One turn of the loop over the dirty clusters, in the order of a hash map.
WriteCluster(k) ==
  /\ pc = "clusters"
  /\ k \in pending
  /\ disk' = PageWritten(dirty[k].page, dirty[k].edges)
  /\ index' = [index EXCEPT ![k] = dirty[k].page]
  /\ pending' = pending \ {k}
  /\ events' = events \cup If(Len(dirty[k].edges) > PageCap, "spilled")
  /\ IF pending' = {}
     THEN dirty' = Nothing(Absent) /\ pc' = "sidecar"
     ELSE UNCHANGED <<dirty, pc>>
  /\ UNCHANGED <<cache, types, nextPage, sidecar, hdrRoot, lists, given, ever,
                 captured, saved, inserts, opens>>

\* persist_btree_metadata, after which the lock is released.
WriteSidecar ==
  /\ pc = "sidecar"
  /\ sidecar' = "ok"
  /\ pc' = "header"
  /\ UNCHANGED <<cache, types, dirty, index, disk, nextPage, hdrRoot, pending,
                 lists, given, ever, captured, saved, events, inserts, opens>>

HasRoot == \E k \in Keys : index[k] # 0

\* The rest of flush_to_disk puts the root into the header and syncs it.
SyncHeader ==
  /\ pc = "header"
  /\ hdrRoot' = HasRoot
  /\ saved' = captured
  /\ pc' = "idle"
  /\ UNCHANGED <<cache, types, dirty, index, disk, nextPage, sidecar, pending,
                 lists, given, ever, captured, events, inserts, opens>>

-----------------------------------------------------------------------------
(* Closing, crashing, opening *)

\* open starts with empty maps; the root is the sidecar's or else the header's.
Opened(rooted) ==
  /\ cache' = Nothing(Absent)
  /\ types' = Untyped
  /\ dirty' = Nothing(Absent)
  /\ index' = IF rooted THEN index ELSE Nothing(0)
  /\ pc' = "idle"
  /\ pending' = {}
  /\ opens' = opens + 1

\* Drop has run flush_to_disk; nothing is dirty.
CloseAndOpen ==
  /\ opens < MaxOpens
  /\ pc = "idle"
  /\ captured = lists
  /\ \A k \in Keys : dirty[k] = Absent
  /\ Opened(sidecar = "ok" \/ hdrRoot)
  /\ UNCHANGED <<disk, nextPage, sidecar, hdrRoot, lists, given, ever, captured,
                 saved, events, inserts>>

\* The sidecar is rewritten in place: a crash may leave it cut short.
CrashAndOpen ==
  /\ opens < MaxOpens
  /\ sidecar' \in {sidecar} \cup If(pc = "sidecar", "torn")
  /\ Opened(sidecar' = "ok" \/ hdrRoot)
  /\ lists' = saved
  /\ events' = events \cup {"crashed"} \cup If(pc = "clusters", "halved")
  /\ UNCHANGED <<disk, nextPage, hdrRoot, given, ever, captured, saved, inserts>>

Next ==
  \/ \E k \in Keys : Load(k) \/ WriteCluster(k)
  \/ \E a, b \in Nodes, t \in Types \cup {NoType} : Insert(a, b, t)
  \/ FlushStart
  \/ WriteSidecar
  \/ SyncHeader
  \/ CloseAndOpen
  \/ CrashAndOpen

Spec == Init /\ [][Next]_vars

-----------------------------------------------------------------------------
(* Properties *)

Without(excuses) == events \cap excuses = {}

\* neighbors returns every edge inserted and not lost to a crash since the last
\* completed flush, and none that was never inserted, over any number of
\* flushes, loads, crashes and openings.
ReadsComplete ==
  \A k \in Keys : /\ ToSet(lists[k]) \subseteq ToSet(Neighbors(k))
                  /\ ToSet(Neighbors(k)) \subseteq ever[k]

\* The same as long as no key flushed before was inserted under again (its new
\* cluster replaces the flushed one) and no cluster outgrew its page.
ReadsCompleteOnceListed == Without({"relisted", "spilled"}) => ReadsComplete

\* An edge is in the outgoing list of its source exactly when it is in the
\* incoming list of its target, although two clusters hold it.
DirectionsAgree ==
  Without({"relisted", "spilled", "halved"}) =>
    \A a, b \in Nodes : Contains(Neighbors(<<a, "out">>), b)
                          <=> Contains(Neighbors(<<b, "in">>), a)

\* Opening the store again does not change a neighbour list, not even its order,
\* and filtering by type sees the same before and after: the type in memory of
\* an edge whose list is loaded is the one it was last given.
SameListsAfterOpen ==
  Without({"relisted", "spilled", "crashed"}) =>
    /\ Without({"repeated"}) => \A k \in Keys : Neighbors(k) = lists[k]
    /\ Without({"cleared"}) =>
         \A k \in Keys, d \in Nodes : cache[k] # Absent => types[<<k, d>>] = given[<<k, d>>]
=============================================================================
