---------------------------- MODULE V3Graph_proofs ----------------------------
(***************************************************************************)
(* Theorems about V3Graph for any threads, kinds, number of ids, calls and *)
(* crashes, and whatever each thread is used for.                          *)
(***************************************************************************)
EXTENDS V3Graph, TLAPS

-----------------------------------------------------------------------------
(* Calls: each is at a step of its operation, and a file it writes is there *)

Flushing == {"count", "create", "head", "entries", "rename", "sync"}
StepsOf(op) ==
  CASE op = "none"            -> {"none"}
    [] op = "insert_node"     -> {"sync"}
    [] op = "update_node"     -> Flushing
    [] op = "delete_entity"   -> Flushing
    [] op = "flush"           -> Flushing
    [] op = "insert_edge"     -> {"from", "to", "edge", "sync"}
    [] op = "snapshot_export" -> {"pages"}
    [] op = "snapshot_import" -> {"stores", "header", "rebuild", "create", "head", "entries",
                                  "rename"}

Holding(t) == call[t].op \in {"update_node", "delete_entity"}

InCall(t) ==
  /\ call[t].pc \in StepsOf(call[t].op)
  /\ Holding(t) \/ Inserting(t) => call[t].id \in Ids
  /\ Inserting(t) => call[t].kind \in AllKinds
  /\ call[t].op = "insert_edge" => call[t].from \in Ids /\ call[t].to \in Ids
  /\ Importing(t) => snap \in Snapshot
  /\ lock = t <=> Holding(t)

FileThere(t) ==
  At(t, "head") \/ At(t, "entries") =>
    /\ call[t].fd = "temp" => temp \in Sidecar
    /\ call[t].fd = "sidecar" => sidecar \in Sidecar

CallInv == TypeOK /\ \A t \in Threads : InCall(t) /\ FileThere(t)

-----------------------------------------------------------------------------
(* No record and no index entry has a kind its id never had *)

KnownMap(map) == \A id \in Ids : map[id] # None => map[id] \in was[id]
KnownIndex(index) == \A k \in AllKinds, id \in Ids : index[k][id] > 0 => k \in was[id]
KnownInv ==
  /\ KnownMap(nodes) /\ KnownMap(cache) /\ KnownMap(file.nodes) /\ KnownIndex(kinds)
  /\ snap # None => KnownMap(snap.nodes)
  /\ sidecar # None /\ sidecar.kinds # None => KnownIndex(sidecar.kinds)
  /\ temp # None /\ temp.kinds # None => KnownIndex(temp.kinds)
  /\ \A t \in Threads : call[t].kinds # None => KnownIndex(call[t].kinds)

-----------------------------------------------------------------------------
(* While nothing has happened and nobody was in anybody's way *)

Calm == events = {} /\ races = {}
NoImport == \A t \in Threads : ~Importing(t)

Apart ==
  races = {} => \A t, u \in Threads : t # u =>
    /\ Importing(t) => Idle(u)
    /\ ~(Persisting(t) /\ Persisting(u))

\* Nodes: the file has what the store has, and what is deleted is in neither store
\* nor cache.
Absent(id) == nodes[id] = None /\ cache[id] = None
FileAgrees == (\A t \in Threads : ~(Importing(t) /\ At(t, "stores"))) => nodes = file.nodes
GoneAbsent == NoImport => \A id \in gone : Absent(id)
DeletingAbsent(t) == Deleting(t) => Absent(call[t].id)
EndsAbsent(t) ==
  call[t].op = "insert_edge" /\ ~At(t, "sync") =>
    /\ call[t].gone \subseteq {call[t].from, call[t].to}
    /\ \A id \in call[t].gone : Absent(id)
    /\ At(t, "to") /\ call[t].found => call[t].from \notin call[t].gone
    /\ At(t, "edge") /\ call[t].found => call[t].gone = {}
Absence ==
  /\ FileAgrees /\ GoneAbsent /\ ~stray
  /\ \A t \in Threads : DeletingAbsent(t) /\ EndsAbsent(t)
AbsentInv == Calm => Absence

\* The index: a node whose insert has returned, or has made its changes, is listed.
PromisedListed(id) ==
  promised[id] # None =>
    /\ nodes[id] = promised[id] /\ kinds[promised[id]][id] = 1
    /\ header.root /\ file.header.root
InsertedListed(t) == Inserting(t) => kinds[call[t].kind][call[t].id] = 1 /\ header.root

\* The sidecar: what an index with that count lacks was inserted after the count was
\* taken, so the count in the file passes it before the insert returns.
Covers(count, index) ==
  /\ count <= header.nodes
  /\ \A id \in Ids : promised[id] # None /\ index[promised[id]][id] # 1 => count < file.header.nodes
  /\ \A t \in Threads :
       Inserting(t) /\ index[call[t].kind][call[t].id] # 1 => count < header.nodes
Complete(page) == page.count \in Nat /\ page.kinds \in Index
Writing(t) ==
  /\ At(t, "head") => call[t].fd = "temp"
  /\ At(t, "entries") => /\ call[t].fd = "temp" /\ temp # None /\ temp.count = call[t].count
                         /\ call[t].kinds \in Index
  /\ At(t, "rename") => /\ temp = [count |-> call[t].count, kinds |-> call[t].kinds]
                        /\ call[t].kinds \in Index
Counted(t) ==
  /\ Persisting(t) => call[t].count <= header.nodes
  /\ At(t, "entries") \/ At(t, "rename") => Covers(call[t].count, call[t].kinds)

\* A delete takes the count back, so none of this holds until its flush, which no
\* insert can disturb, has written all there is.
Shrinking(t) == Deleting(t) /\ ~(At(t, "sync") /\ call[t].synced)
Steady == NoImport /\ \A t \in Threads : ~Shrinking(t)
Exact(t) ==
  /\ Persisting(t) => call[t].count = header.nodes
  /\ At(t, "entries") \/ At(t, "rename") => call[t].kinds = kinds
Shrinks(t) ==
  Shrinking(t) => Exact(t) /\ (call[t].synced => file.header.nodes <= header.nodes)

Listing ==
  /\ NoImport => /\ \A id \in Ids : PromisedListed(id)
                 /\ \A t \in Threads : InsertedListed(t)
  /\ sidecar # None => Complete(sidecar)
  /\ Steady => /\ file.header.nodes <= header.nodes
               /\ sidecar # None => Covers(sidecar.count, sidecar.kinds)
               /\ \A t \in Threads : Counted(t)
  /\ \A t \in Threads : Writing(t) /\ Shrinks(t)
ListedInv == Calm => Listing

\* Snapshots: an export nobody wrote into has what was promised when it began, and
\* an import rebuilds from it.
Sound(map, promise, root) == \A id \in Ids : promise[id] # None => map[id] = promise[id] /\ root
Exporting(t) ==
  call[t].op = "snapshot_export" =>
    Sound(call[t].file.nodes, call[t].promised, call[t].file.header.root)
SnapFound == IF snap.header.root THEN snap.nodes ELSE Empty
Rebuilding(t) ==
  Importing(t) =>
    /\ At(t, "stores") => file = [header |-> snap.header, nodes |-> snap.nodes]
    /\ ~At(t, "stores") => /\ call[t].header = snap.header /\ nodes = SnapFound
                           /\ file = [header |-> snap.header, nodes |-> SnapFound]
    /\ At(t, "rebuild") \/ Persisting(t) => header = snap.header
    /\ Persisting(t) => /\ snap.quiet
                        /\ \A id \in Ids : snap.promised[id] # None => id <= header.nodes
                        /\ \A id \in Ids : cache[id] # None => cache[id] = nodes[id]
                        /\ kinds = Rebuilt(header.nodes, nodes)
                        /\ Exact(t)
Snapshots ==
  /\ snap # None /\ snap.quiet => Sound(snap.nodes, snap.promised, snap.header.root)
  /\ \A t \in Threads : Exporting(t) /\ Rebuilding(t)
SnapInv == Calm => Snapshots

-----------------------------------------------------------------------------
(* Types *)

LEMMA ConstantTypes ==
  /\ Empty \in NodeMap /\ NoKinds \in Index /\ NoHeader \in Header
  /\ NoCall \in Call /\ Blank \in Sidecar
  /\ \A count, read : Rebuilt(count, read) \in Index
BY V3GraphAssumption DEF Empty, NodeMap, NoKinds, Index, NoHeader, Header, NoCall, Call,
                         Blank, Sidecar, Rebuilt, File, AllKinds

LEMMA InitTypes == Init => TypeOK
<1> SUFFICES ASSUME Init  PROVE TypeOK
  OBVIOUS
<1>1. call \in [Threads -> Call] /\ was \in [Ids -> SUBSET AllKinds] /\ file \in File
  BY ConstantTypes DEF Init, File
<1>2. nextId \in 1..(MaxId + 1)
  BY V3GraphAssumption DEF Init
<1> QED
  BY <1>1, <1>2, ConstantTypes DEF Init, TypeOK

LEMMA CachingType ==
  ASSUME TypeOK, NEW S
  PROVE  /\ Caching(S) \in NodeMap
         /\ \A id \in Ids : Read(id) \in AllKinds \cup {None}
BY DEF TypeOK, Caching, Read, Cached, Lookup, NodeMap

LEMMA FoundType ==
  ASSUME TypeOK
  PROVE  Found \in NodeMap
BY ConstantTypes DEF TypeOK, Found, File

\* What a call that is over leaves has its type.
LEMMA ReleasedTypes ==
  ASSUME CallInv, NEW t \in Threads, Released(t)
  PROVE  lock' \in Threads \cup {None} /\ promised' \in NodeMap /\ gone' \subseteq Ids
<1>1. promised' \in NodeMap
  BY DEF CallInv, InCall, Released, TypeOK, NodeMap, Snapshot, Inserting, Call
<1>2. gone' \subseteq Ids
  BY DEF CallInv, InCall, Released, TypeOK, Deleting, Holding
<1> QED
  BY <1>1, <1>2 DEF Released, CallInv, TypeOK

\* What the steps leave alone keeps its type; races is the watch's.
MemTypes == /\ nodes' \in NodeMap /\ cache' \in NodeMap /\ kinds' \in Index
            /\ header' \in Header /\ nextId' \in 1..(MaxId + 1) /\ lock' \in Threads \cup {None}
FileTypes == /\ file' \in File /\ sidecar' \in Sidecar \cup {None} /\ temp' \in Sidecar \cup {None}
             /\ snap' \in Snapshot \cup {None}
HistTypes == /\ promised' \in NodeMap /\ was' \in [Ids -> SUBSET AllKinds] /\ gone' \subseteq Ids
             /\ stray' \in BOOLEAN /\ events' \subseteq Events /\ calls' \in Nat /\ crashes' \in Nat
CallTypes == call' \in [Threads -> Call]

LEMMA InsertNodeTypes ==
  ASSUME CallInv, NEW t \in Threads, NEW k \in Kinds, InsertNode(t, k)
  PROVE  MemTypes /\ FileTypes /\ HistTypes /\ CallTypes
<1>1. MemTypes
  <2>1. kinds' \in Index
    BY DEF CallInv, TypeOK, InsertNode, AllKinds, Index
  <2>2. header' \in Header
    <3> DEFINE h == [header EXCEPT !.nodes = header.nodes + 1]
    <3>1. header \in Header
      BY DEF CallInv, TypeOK
    <3>2. h \in Header
      BY <3>1 DEF Header
    <3>3. [h EXCEPT !.root = TRUE] \in Header
      BY <3>2 DEF Header
    <3>4. header' = [h EXCEPT !.root = TRUE]
      BY DEF InsertNode
    <3> QED
      BY <3>3, <3>4
  <2>3. nodes' \in NodeMap
    BY DEF CallInv, TypeOK, InsertNode, NodeMap, AllKinds
  <2>4. nextId' \in 1..(MaxId + 1)
    BY V3GraphAssumption DEF InsertNode, Ids
  <2> QED
    BY <2>1, <2>2, <2>3, <2>4 DEF CallInv, TypeOK, InsertNode, MemTypes
<1>2. FileTypes
  BY DEF CallInv, TypeOK, InsertNode, FileTypes, NodeMap, AllKinds, File
<1>3. HistTypes
  BY DEF CallInv, TypeOK, InsertNode, HistTypes, AllKinds, Starts, If, Events
<1>4. CallTypes
  <2>1. [NoCall EXCEPT !.op = "insert_node", !.pc = "sync", !.id = nextId, !.kind = k] \in Call
    BY ConstantTypes DEF InsertNode, Call, AllKinds
  <2>2. \A u \in Threads : [call[u] EXCEPT !.gone = @ \ {nextId}] \in Call
    BY DEF CallInv, TypeOK, Call
  <2> QED
    BY <2>1, <2>2 DEF InsertNode, CallTypes
<1> QED
  BY <1>1, <1>2, <1>3, <1>4

LEMMA StoreTypes ==
  ASSUME CallInv, NEW t \in Threads, NEW id \in Ids,
         GetNode(t, id) \/ UpdateNode(t, id) \/ DeleteEntity(t, id)
  PROVE  MemTypes /\ FileTypes /\ HistTypes /\ CallTypes
<1>1. CASE GetNode(t, id)
  BY <1>1, CachingType DEF CallInv, TypeOK, GetNode, MemTypes, FileTypes, HistTypes, CallTypes,
                           fileVars, histVars
<1>2. CASE UpdateNode(t, id)
  <2>1. MemTypes
    BY <1>2 DEF CallInv, TypeOK, UpdateNode, MemTypes, NodeMap, AllKinds
  <2>2. FileTypes
    BY <1>2 DEF CallInv, TypeOK, UpdateNode, FileTypes, NodeMap, AllKinds, File
  <2>3. HistTypes
    BY <1>2 DEF CallInv, TypeOK, UpdateNode, HistTypes, AllKinds, Starts, NodeMap
  <2>4. [NoCall EXCEPT !.op = "update_node", !.pc = "count", !.id = id] \in Call
    BY ConstantTypes DEF Call
  <2> QED
    BY <1>2, <2>1, <2>2, <2>3, <2>4 DEF CallTypes, UpdateNode, CallInv, TypeOK
<1>3. CASE DeleteEntity(t, id)
  <2>1. MemTypes
    BY <1>3 DEF CallInv, TypeOK, DeleteEntity, MemTypes, NodeMap, AllKinds, Header
  <2>2. FileTypes
    BY <1>3 DEF CallInv, TypeOK, DeleteEntity, FileTypes, NodeMap, AllKinds, File
  <2>3. HistTypes
    BY <1>3 DEF CallInv, TypeOK, DeleteEntity, HistTypes, AllKinds, Starts, NodeMap
  <2>4. [NoCall EXCEPT !.op = "delete_entity", !.pc = "sync", !.id = id] \in Call
    BY ConstantTypes DEF Call
  <2> QED
    BY <1>3, <2>1, <2>2, <2>3, <2>4 DEF CallTypes, DeleteEntity, CallInv, TypeOK
<1> QED
  BY <1>1, <1>2, <1>3

LEMMA CallUpdates ==
  ASSUME NEW c \in Call, NEW b \in BOOLEAN, NEW n \in Nat, NEW i \in Index, NEW h \in Header
  PROVE  /\ [c EXCEPT !.pc = "create", !.count = n] \in Call
         /\ [c EXCEPT !.pc = "head", !.fd = "temp"] \in Call
         /\ [c EXCEPT !.pc = "entries", !.kinds = i] \in Call
         /\ [c EXCEPT !.pc = "header", !.header = h] \in Call
         /\ [c EXCEPT !.pc = "count", !.synced = TRUE] \in Call
         /\ [c EXCEPT !.pc = "to", !.found = b] \in Call
         /\ [c EXCEPT !.pc = "edge", !.found = b] \in Call
<1>1. [c EXCEPT !.pc = "create", !.count = n] \in Call
  BY Zenon DEF Call
<1>2. [c EXCEPT !.pc = "head", !.fd = "temp"] \in Call
  BY Zenon DEF Call
<1>3. [c EXCEPT !.pc = "entries", !.kinds = i] \in Call
  BY Zenon DEF Call
<1>4. [c EXCEPT !.pc = "header", !.header = h] \in Call
  BY Zenon DEF Call
<1>5. [c EXCEPT !.pc = "count", !.synced = TRUE] \in Call
  BY Zenon DEF Call
<1>6. [c EXCEPT !.pc = "to", !.found = b] \in Call
  BY Zenon DEF Call
<1>7. [c EXCEPT !.pc = "edge", !.found = b] \in Call
  BY Zenon DEF Call
<1> QED
  BY <1>1, <1>2, <1>3, <1>4, <1>5, <1>6, <1>7

LEMMA CallStepTypes ==
  ASSUME CallInv, NEW t \in Threads, NEW c \in Call, call' = [call EXCEPT ![t] = c]
  PROVE  CallTypes
BY DEF CallInv, TypeOK, CallTypes

LEMMA CallType ==
  ASSUME CallInv, NEW t \in Threads
  PROVE  call[t] \in Call
BY DEF CallInv, TypeOK

LEMMA EdgeTypes ==
  ASSUME CallInv, NEW t \in Threads,
         CheckEnd(t) \/ InsertEdge(t) \/ \E a, b \in Ids : BeginEdge(t, a, b)
  PROVE  MemTypes /\ FileTypes /\ HistTypes /\ CallTypes
<1>1. CASE CheckEnd(t)
  <2> DEFINE id == IF At(t, "from") THEN call[t].from ELSE call[t].to
             found == call[t].found /\ Read(id) # None
             next == IF call[t].pc = "from" THEN "to" ELSE "edge"
             c == [call[t] EXCEPT !.pc = next, !.found = found]
  <2>1. found \in BOOLEAN
    BY CallType DEF Call
  <2> HIDE DEF found
  <2>2. c \in Call
    <3>1. CASE call[t].pc = "from"
      BY <2>1, <3>1, CallType, CallUpdates, ConstantTypes
    <3>2. CASE call[t].pc # "from"
      BY <2>1, <3>2, CallType, CallUpdates, ConstantTypes
    <3> QED
      BY <3>1, <3>2
  <2>3. call' = [call EXCEPT ![t] = c]
    BY <1>1, Zenon DEF CheckEnd, found
  <2>4. CallTypes
    BY <2>2, <2>3, CallStepTypes
  <2> QED
    BY <1>1, <2>4, CachingType DEF CallInv, TypeOK, CheckEnd, MemTypes, FileTypes, HistTypes,
                                   fileVars, histVars
<1>2. CASE InsertEdge(t)
  <2>1. CallTypes
    BY <1>2, CallType, CallStepTypes, ConstantTypes DEF InsertEdge, Goto, Call
  <2>2. header' \in Header
    BY <1>2 DEF CallInv, TypeOK, InsertEdge, Header
  <2> QED
    BY <1>2, <2>1, <2>2 DEF CallInv, TypeOK, InsertEdge, MemTypes, FileTypes, HistTypes, fileVars
<1>3. ASSUME NEW a \in Ids, NEW b \in Ids, BeginEdge(t, a, b)
      PROVE  MemTypes /\ FileTypes /\ HistTypes /\ CallTypes
  <2>1. [NoCall EXCEPT !.op = "insert_edge", !.pc = "from", !.from = a, !.to = b,
                       !.gone = gone \cap {a, b}] \in Call
    BY ConstantTypes DEF Call
  <2>2. CallTypes
    BY <1>3, <2>1, CallStepTypes DEF BeginEdge
  <2> QED
    <3>1. MemTypes /\ FileTypes
      BY <1>3 DEF CallInv, TypeOK, BeginEdge, MemTypes, FileTypes, memVars, fileVars
    <3>2. UNCHANGED <<promised, was, gone, stray, events, crashes>> /\ calls' = calls + 1
      BY <1>3 DEF BeginEdge, Starts
    <3>3. HistTypes
      BY <3>2 DEF CallInv, TypeOK, HistTypes
    <3> QED
      BY <2>2, <3>1, <3>3
<1> QED
  BY <1>1, <1>2, <1>3

LEMMA FlushTypes ==
  ASSUME CallInv, NEW t \in Threads, Flush(t) \/ TakeCount(t) \/ CreateTemp(t)
  PROVE  MemTypes /\ FileTypes /\ HistTypes /\ CallTypes
<1>1. CallTypes
  <2>1. [NoCall EXCEPT !.op = "flush", !.pc = "count"] \in Call
    BY ConstantTypes DEF Call
  <2>2. header.nodes \in Nat
    BY DEF CallInv, TypeOK, Header
  <2>3. /\ [call[t] EXCEPT !.pc = "create", !.count = header.nodes] \in Call
        /\ [call[t] EXCEPT !.pc = "head", !.fd = "temp"] \in Call
    BY <2>2, CallType, CallUpdates, ConstantTypes
  <2>4. \/ call' = [call EXCEPT ![t] = [NoCall EXCEPT !.op = "flush", !.pc = "count"]]
        \/ call' = [call EXCEPT ![t] = [call[t] EXCEPT !.pc = "create", !.count = header.nodes]]
        \/ call' = [call EXCEPT ![t] = [call[t] EXCEPT !.pc = "head", !.fd = "temp"]]
    BY Zenon DEF Flush, TakeCount, CreateTemp
  <2> QED
    BY <2>1, <2>3, <2>4, CallStepTypes
<1> QED
  BY <1>1, ConstantTypes DEF CallInv, TypeOK, Flush, TakeCount, CreateTemp, MemTypes, FileTypes,
                             HistTypes, memVars, fileVars, histVars, Starts

LEMMA WriteTypes ==
  ASSUME CallInv, NEW t \in Threads, WriteHead(t) \/ WriteEntries(t)
  PROVE  MemTypes /\ FileTypes /\ HistTypes /\ CallTypes
<1>1. CASE WriteHead(t)
  <2>1. [call[t] EXCEPT !.pc = "entries", !.kinds = kinds] \in Call
    BY CallType, CallUpdates, ConstantTypes DEF CallInv, TypeOK
  <2>2. call[t].count \in Nat
    BY CallType DEF Call
  <2>3. \A page \in Sidecar : [page EXCEPT !.count = call[t].count] \in Sidecar
    BY <2>2 DEF Sidecar
  <2>4. sidecar' \in Sidecar \cup {None} /\ temp' \in Sidecar \cup {None}
    BY <1>1, <2>3 DEF WriteHead, Write, Opened, CallInv, TypeOK, FileThere, At
  <2>5. CallTypes
    <3>1. call' = [call EXCEPT ![t] = [call[t] EXCEPT !.pc = "entries", !.kinds = kinds]]
      BY <1>1, Zenon DEF WriteHead
    <3> QED
      BY <2>1, <3>1, CallStepTypes
  <2> QED
    BY <1>1, <2>4, <2>5 DEF CallInv, TypeOK, WriteHead, MemTypes, FileTypes, HistTypes, memVars,
                            histVars
<1>2. CASE WriteEntries(t)
  <2>1. [call[t] EXCEPT !.pc = "rename"] \in Call
    BY CallType DEF Call
  <2>2. call[t].kinds \in Index \cup {None}
    BY CallType DEF Call
  <2>3. \A page \in Sidecar : [page EXCEPT !.kinds = call[t].kinds] \in Sidecar
    BY <2>2 DEF Sidecar
  <2>4. sidecar' \in Sidecar \cup {None} /\ temp' \in Sidecar \cup {None}
    BY <1>2, <2>3 DEF WriteEntries, Write, Opened, CallInv, TypeOK, FileThere, At
  <2> QED
    BY <1>2, <2>1, <2>4, CallStepTypes DEF CallInv, TypeOK, WriteEntries, Goto, MemTypes, FileTypes,
                                           HistTypes, memVars, histVars
<1> QED
  BY <1>1, <1>2

LEMMA SyncTypes ==
  ASSUME CallInv, NEW t \in Threads, SyncHeader(t)
  PROVE  MemTypes /\ FileTypes /\ HistTypes /\ CallTypes
<1>1. FileTypes
  BY DEF SyncHeader, FileTypes, CallInv, TypeOK, File
<1>2. CASE Deleting(t) /\ ~call[t].synced
  <2>1. [call[t] EXCEPT !.pc = "count", !.synced = TRUE] \in Call
    BY CallType, CallUpdates, ConstantTypes
  <2>2. call' = [call EXCEPT ![t] = [call[t] EXCEPT !.pc = "count", !.synced = TRUE]]
    BY <1>2, Zenon DEF SyncHeader
  <2>3. CallTypes
    BY <2>1, <2>2, CallStepTypes
  <2> QED
    BY <1>1, <1>2, <2>3 DEF SyncHeader, MemTypes, HistTypes, CallInv, TypeOK
<1>3. CASE ~(Deleting(t) /\ ~call[t].synced)
  <2>1. call' = [call EXCEPT ![t] = NoCall] /\ Released(t)
    BY <1>3 DEF SyncHeader
  <2>2. CallTypes
    BY <2>1, CallStepTypes, ConstantTypes
  <2>3. lock' \in Threads \cup {None} /\ promised' \in NodeMap /\ gone' \subseteq Ids
    BY <2>1, ReleasedTypes
  <2> QED
    BY <1>1, <2>2, <2>3 DEF SyncHeader, MemTypes, HistTypes, CallInv, TypeOK
<1> QED
  BY <1>2, <1>3

LEMMA RenameTypes ==
  ASSUME CallInv, NEW t \in Threads, RenameTemp(t)
  PROVE  MemTypes /\ FileTypes /\ HistTypes /\ CallTypes
<1>1. FileTypes
  BY DEF RenameTemp, FileTypes, CallInv, TypeOK
<1>2. CallTypes
  <2>1. [call[t] EXCEPT !.pc = "sync"] \in Call
    BY CallType DEF Call
  <2>2. \A fd \in {"none", "temp", "sidecar", "gone"} : Renamed(fd) \in {"none", "temp", "sidecar", "gone"}
    BY DEF Renamed
  <2>3. \A u \in Threads : [call[u] EXCEPT !.fd = Renamed(@)] \in Call
    BY <2>2, CallType DEF Call
  <2> QED
    BY <2>1, <2>3, CallType, ConstantTypes DEF RenameTemp, CallTypes
<1>3. CASE Importing(t)
  BY <1>1, <1>2, <1>3, ReleasedTypes DEF RenameTemp, MemTypes, HistTypes, CallInv, TypeOK
<1>4. CASE ~Importing(t)
  BY <1>1, <1>2, <1>4 DEF RenameTemp, MemTypes, HistTypes, CallInv, TypeOK
<1> QED
  BY <1>3, <1>4

LEMMA ExportTypes ==
  ASSUME CallInv, NEW t \in Threads, ExportHeader(t) \/ ExportPages(t)
  PROVE  MemTypes /\ FileTypes /\ HistTypes /\ CallTypes
<1>1. CASE ExportHeader(t)
  <2>1. [NoCall EXCEPT !.op = "snapshot_export", !.pc = "pages", !.file = file,
                       !.promised = promised] \in Call
    BY ConstantTypes DEF CallInv, TypeOK, Call
  <2>2. call' = [call EXCEPT ![t] = [NoCall EXCEPT !.op = "snapshot_export", !.pc = "pages",
                                       !.file = file, !.promised = promised]]
    BY <1>1, Zenon DEF ExportHeader
  <2>3. CallTypes
    BY <2>1, <2>2, CallStepTypes
  <2>4. UNCHANGED <<memVars, fileVars, promised, was, gone, stray, events, crashes>> /\ calls' = calls + 1
    BY <1>1 DEF ExportHeader, Starts
  <2> QED
    BY <2>3, <2>4 DEF memVars, fileVars, MemTypes, FileTypes, HistTypes, CallInv, TypeOK
<1>2. CASE ExportPages(t)
  <2>1. CallTypes
    BY <1>2, CallStepTypes, ConstantTypes DEF ExportPages
  <2>2. snap' \in Snapshot
    BY <1>2, CallType DEF ExportPages, Snapshot, CallInv, TypeOK, File, Call
  <2> QED
    BY <1>2, <2>1, <2>2 DEF ExportPages, memVars, histVars, MemTypes, FileTypes, HistTypes,
                            CallInv, TypeOK
<1> QED
  BY <1>1, <1>2

LEMMA ImportTypes ==
  ASSUME CallInv, NEW t \in Threads,
         ImportCopy(t) \/ ImportStores(t) \/ ImportHeader(t) \/ ImportRebuild(t)
  PROVE  MemTypes /\ FileTypes /\ HistTypes /\ CallTypes
<1>1. CASE ImportCopy(t)
  <2>1. [NoCall EXCEPT !.op = "snapshot_import", !.pc = "stores"] \in Call
    BY ConstantTypes DEF Call
  <2>2. CallTypes
    BY <1>1, <2>1, CallStepTypes DEF ImportCopy
  <2>3. file' \in File
    BY <1>1 DEF ImportCopy, CallInv, TypeOK, Snapshot, File
  <2>4. UNCHANGED <<memVars, sidecar, temp, snap, promised, was, gone, stray, events, crashes>> /\ calls' = calls + 1
    BY <1>1 DEF ImportCopy, Starts
  <2> QED
    BY <2>2, <2>3, <2>4 DEF memVars, MemTypes, FileTypes, HistTypes, CallInv, TypeOK
<1>2. CASE ImportStores(t)
  <2>1. file.header \in Header
    BY DEF CallInv, TypeOK, File
  <2>2. [call[t] EXCEPT !.pc = "header", !.header = file.header] \in Call
    BY <2>1, CallType, CallUpdates, ConstantTypes
  <2>3. call' = [call EXCEPT ![t] = [call[t] EXCEPT !.pc = "header", !.header = file.header]]
    BY <1>2, Zenon DEF ImportStores
  <2>4. CallTypes
    BY <2>2, <2>3, CallStepTypes
  <2>5. file' \in File
    BY <1>2, FoundType DEF ImportStores, CallInv, TypeOK, File
  <2>6. nextId' \in 1..(MaxId + 1)
    BY <1>2, V3GraphAssumption DEF ImportStores
  <2> QED
    BY <1>2, <2>4, <2>5, <2>6, FoundType DEF ImportStores, histVars, MemTypes, FileTypes,
                                             HistTypes, CallInv, TypeOK
<1>3. CASE ImportHeader(t)
  <2>1. [call[t] EXCEPT !.pc = "rebuild"] \in Call
    BY CallType DEF Call
  <2>2. CallTypes
    BY <1>3, <2>1, CallStepTypes DEF ImportHeader, Goto
  <2>3. header' \in Header
    BY <1>3, CallType DEF ImportHeader, Call
  <2> QED
    BY <1>3, <2>2, <2>3 DEF ImportHeader, fileVars, histVars, MemTypes, FileTypes, HistTypes,
                            CallInv, TypeOK
<1>4. CASE ImportRebuild(t)
  <2>1. call[t].header.nodes \in Nat
    BY CallType DEF Call, Header
  <2>2. [call[t] EXCEPT !.pc = "create", !.count = call[t].header.nodes] \in Call
    BY <2>1, CallType, CallUpdates, ConstantTypes
  <2>3. call' = [call EXCEPT ![t] = [call[t] EXCEPT !.pc = "create", !.count = call[t].header.nodes]]
    BY <1>4, Zenon DEF ImportRebuild
  <2>4. CallTypes
    BY <2>2, <2>3, CallStepTypes
  <2>5. events' \subseteq Events
    BY <1>4 DEF ImportRebuild, If, Events, CallInv, TypeOK
  <2> QED
    BY <1>4, <2>4, <2>5, ConstantTypes, CachingType DEF ImportRebuild, fileVars, histVars,
                                                        MemTypes, FileTypes, HistTypes, CallInv,
                                                        TypeOK
<1> QED
  BY <1>1, <1>2, <1>3, <1>4

LEMMA CrashTypes ==
  ASSUME CallInv, CrashAndOpen
  PROVE  MemTypes /\ FileTypes /\ HistTypes /\ CallTypes
<1>1. CallTypes
  BY ConstantTypes DEF CrashAndOpen, CallTypes
<1>2. kinds' \in Index
  BY ConstantTypes DEF CrashAndOpen, Restores, CallInv, TypeOK, Sidecar
<1>3. cache' \in NodeMap /\ nodes' \in NodeMap
  <2> DEFINE restored == IF Restores(file.header.nodes) THEN sidecar.kinds ELSE NoKinds
             rebuilds == restored = NoKinds /\ file.header.nodes > 0
  <2>1. /\ nodes' = Found
        /\ cache' = [id \in Ids |-> IF rebuilds /\ id \in Scanned(file.header.nodes)
                                    THEN Found[id] ELSE None]
    BY DEF CrashAndOpen
  <2> HIDE DEF rebuilds
  <2>2. Found \in NodeMap
    BY FoundType DEF CallInv
  <2>3. cache' \in NodeMap
    BY <2>1, <2>2 DEF NodeMap
  <2> QED
    BY <2>1, <2>2, <2>3
<1>4. header' \in Header /\ file' \in File
  BY FoundType DEF CrashAndOpen, CallInv, TypeOK, File
<1>5. gone' \subseteq Ids
  BY DEF CrashAndOpen, CallInv, TypeOK, InCall, Deleting, Holding
<1>6. events' \subseteq Events
  BY DEF CrashAndOpen, CallInv, TypeOK, If, Events
<1>7. nextId' \in 1..(MaxId + 1) /\ lock' \in Threads \cup {None}
  BY V3GraphAssumption DEF CrashAndOpen
<1>8. UNCHANGED <<sidecar, temp, snap, promised, was, stray, calls>> /\ crashes' = crashes + 1
  BY DEF CrashAndOpen
<1> QED
  BY <1>1, <1>2, <1>3, <1>4, <1>5, <1>6, <1>7, <1>8 DEF MemTypes, FileTypes, HistTypes, CallInv,
                                                        TypeOK

LEMMA StepTypes == CallInv /\ [Next]_vars => TypeOK'
<1> SUFFICES ASSUME CallInv, [Next]_vars
             PROVE  TypeOK'
  OBVIOUS
<1>1. CASE UNCHANGED vars
  BY <1>1 DEF CallInv, TypeOK, vars
<1>2. CASE Next
  <2>1. races' \subseteq Races
    BY <1>2 DEF Next, Watch, If, Races, CallInv, TypeOK
  <2>2. ASSUME NEW t \in Threads, NodeCalls(t)
        PROVE  MemTypes /\ FileTypes /\ HistTypes /\ CallTypes
    BY <2>2, InsertNodeTypes, StoreTypes, EdgeTypes DEF NodeCalls
  <2>3. ASSUME NEW t \in Threads, FlushCalls(t)
        PROVE  MemTypes /\ FileTypes /\ HistTypes /\ CallTypes
    BY <2>3, FlushTypes, WriteTypes, RenameTypes, SyncTypes DEF FlushCalls
  <2>4. ASSUME NEW t \in Threads, SnapshotCalls(t)
        PROVE  MemTypes /\ FileTypes /\ HistTypes /\ CallTypes
    BY <2>4, ExportTypes, ImportTypes DEF SnapshotCalls
  <2>5. MemTypes /\ FileTypes /\ HistTypes /\ CallTypes
    BY <1>2, <2>2, <2>3, <2>4, CrashTypes DEF Next
  <2> QED
    BY <2>1, <2>5 DEF MemTypes, FileTypes, HistTypes, CallTypes, TypeOK
<1> QED
  BY <1>1, <1>2

-----------------------------------------------------------------------------
(* A step of one thread and the calls of the others *)

ThreadStep(t) == NodeCalls(t) \/ FlushCalls(t) \/ SnapshotCalls(t)

\* An insert takes its id out of what others note as gone, a rename moves the file
\* others have open; all else in their calls stays.
SameCall(u) ==
  /\ call'[u].op = call[u].op /\ call'[u].pc = call[u].pc /\ call'[u].id = call[u].id
  /\ call'[u].kind = call[u].kind /\ call'[u].synced = call[u].synced
  /\ call'[u].from = call[u].from /\ call'[u].to = call[u].to /\ call'[u].found = call[u].found
  /\ call'[u].count = call[u].count /\ call'[u].kinds = call[u].kinds
  /\ call'[u].header = call[u].header /\ call'[u].file = call[u].file
  /\ call'[u].promised = call[u].promised
  /\ call'[u].gone \subseteq call[u].gone

LEMMA OthersKept ==
  ASSUME CallInv, NEW t \in Threads, ThreadStep(t), NEW u \in Threads, u # t
  PROVE  /\ SameCall(u)
         /\ call'[u] = call[u] \/ RenameTemp(t) \/ \E k \in Kinds : InsertNode(t, k)
<1>0. call \in [Threads -> Call]
  BY DEF CallInv, TypeOK
<1>1. CASE call'[u] = call[u]
  BY <1>1 DEF SameCall
<1>2. ASSUME NEW k \in Kinds, InsertNode(t, k)
      PROVE  SameCall(u)
  <2>1. call'[u] = [call[u] EXCEPT !.gone = @ \ {nextId}]
    BY <1>2 DEF InsertNode
  <2> QED
    BY <2>1, <1>0 DEF SameCall, Call
<1>3. ASSUME RenameTemp(t)
      PROVE  SameCall(u)
  <2>1. call'[u] = [call[u] EXCEPT !.fd = Renamed(@)] \/ call'[u] = call[u]
    BY <1>3 DEF RenameTemp
  <2> QED
    BY <2>1, <1>0 DEF SameCall, Call
<1>4. ASSUME NEW id \in Ids, GetNode(t, id) \/ UpdateNode(t, id) \/ DeleteEntity(t, id)
      PROVE  call'[u] = call[u]
  BY <1>0, <1>4 DEF GetNode, UpdateNode, DeleteEntity
<1>5. ASSUME CheckEnd(t) \/ InsertEdge(t) \/ \E a, b \in Ids : BeginEdge(t, a, b)
      PROVE  call'[u] = call[u]
  BY <1>0, <1>5 DEF CheckEnd, InsertEdge, BeginEdge, Goto
<1>6. ASSUME Flush(t) \/ TakeCount(t) \/ CreateTemp(t) \/ WriteHead(t) \/ WriteEntries(t) \/ SyncHeader(t)
      PROVE  call'[u] = call[u]
  BY <1>0, <1>6 DEF Flush, TakeCount, CreateTemp, WriteHead, WriteEntries, SyncHeader, Goto
<1>7. ASSUME SnapshotCalls(t)
      PROVE  call'[u] = call[u]
  BY <1>0, <1>7 DEF SnapshotCalls, ExportHeader, ExportPages, ImportCopy, ImportStores,
                    ImportHeader,
                    ImportRebuild, Goto
<1> QED
  BY <1>1, <1>2, <1>3, <1>4, <1>5, <1>6, <1>7 DEF ThreadStep, NodeCalls, FlushCalls

LEMMA OthersFd ==
  ASSUME CallInv, NEW t \in Threads, ThreadStep(t), ~RenameTemp(t), NEW u \in Threads, u # t
  PROVE  call'[u].fd = call[u].fd
<1>1. CASE call'[u] = call[u]
  BY <1>1
<1>2. ASSUME NEW k \in Kinds, InsertNode(t, k)
      PROVE  call'[u].fd = call[u].fd
  <2>1. call'[u] = [call[u] EXCEPT !.gone = @ \ {nextId}]
    BY <1>2 DEF InsertNode
  <2> QED
    BY <2>1, CallType DEF Call
<1> QED
  BY <1>1, <1>2, OthersKept

-----------------------------------------------------------------------------
(* What a step leaves of the call of its thread *)

Same(c, d) ==
  /\ c.op = d.op /\ c.id = d.id /\ c.kind = d.kind /\ c.from = d.from /\ c.to = d.to
  /\ c.gone = d.gone /\ c.file = d.file /\ c.promised = d.promised

LEMMA ThreadCalls ==
  ASSUME CallInv
  PROVE  call \in [Threads -> Call]
BY DEF CallInv, TypeOK

LEMMA InsertNodeOwn ==
  ASSUME CallInv, NEW t \in Threads, NEW k \in Kinds, InsertNode(t, k)
  PROVE  /\ call'[t].op = "insert_node" /\ call'[t].pc = "sync" /\ call'[t].id = nextId
         /\ call'[t].kind = k /\ call'[t].kinds = None
<1>1. call'[t] = [NoCall EXCEPT !.op = "insert_node", !.pc = "sync", !.id = nextId, !.kind = k]
  BY DEF InsertNode
<1> QED
  BY <1>1 DEF NoCall

LEMMA UpdateNodeOwn ==
  ASSUME CallInv, NEW t \in Threads, NEW id \in Ids, UpdateNode(t, id)
  PROVE  /\ call'[t].op = "update_node" /\ call'[t].pc = "count" /\ call'[t].id = id
         /\ call'[t].kinds = None
<1>1. call'[t] = [NoCall EXCEPT !.op = "update_node", !.pc = "count", !.id = id]
  BY ThreadCalls DEF UpdateNode
<1> QED
  BY <1>1 DEF NoCall

LEMMA DeleteEntityOwn ==
  ASSUME CallInv, NEW t \in Threads, NEW id \in Ids, DeleteEntity(t, id)
  PROVE  /\ call'[t].op = "delete_entity" /\ call'[t].pc = "sync" /\ call'[t].id = id
         /\ call'[t].kinds = None /\ ~call'[t].synced
<1>1. call'[t] = [NoCall EXCEPT !.op = "delete_entity", !.pc = "sync", !.id = id]
  BY ThreadCalls DEF DeleteEntity
<1> QED
  BY <1>1 DEF NoCall

LEMMA BeginEdgeOwn ==
  ASSUME CallInv, NEW t \in Threads, NEW a \in Ids, NEW b \in Ids, BeginEdge(t, a, b)
  PROVE  /\ call'[t].op = "insert_edge" /\ call'[t].pc = "from" /\ call'[t].from = a
         /\ call'[t].to = b /\ call'[t].gone = gone \cap {a, b} /\ call'[t].kinds = None
<1>1. call'[t] = [NoCall EXCEPT !.op = "insert_edge", !.pc = "from", !.from = a, !.to = b,
                                !.gone = gone \cap {a, b}]
  BY ThreadCalls DEF BeginEdge
<1> QED
  BY <1>1 DEF NoCall

LEMMA FlushOwn ==
  ASSUME CallInv, NEW t \in Threads, Flush(t)
  PROVE  call'[t].op = "flush" /\ call'[t].pc = "count" /\ call'[t].kinds = None
<1>1. call'[t] = [NoCall EXCEPT !.op = "flush", !.pc = "count"]
  BY ThreadCalls DEF Flush
<1> QED
  BY <1>1 DEF NoCall

LEMMA ExportHeaderOwn ==
  ASSUME CallInv, NEW t \in Threads, ExportHeader(t)
  PROVE  /\ call'[t].op = "snapshot_export" /\ call'[t].pc = "pages" /\ call'[t].file = file
         /\ call'[t].promised = promised /\ call'[t].kinds = None
<1>1. call'[t] = [NoCall EXCEPT !.op = "snapshot_export", !.pc = "pages", !.file = file,
                                !.promised = promised]
  BY ThreadCalls DEF ExportHeader
<1> QED
  BY <1>1 DEF NoCall

LEMMA ImportCopyOwn ==
  ASSUME CallInv, NEW t \in Threads, ImportCopy(t)
  PROVE  call'[t].op = "snapshot_import" /\ call'[t].pc = "stores" /\ call'[t].kinds = None
<1>1. call'[t] = [NoCall EXCEPT !.op = "snapshot_import", !.pc = "stores"]
  BY ThreadCalls DEF ImportCopy
<1> QED
  BY <1>1 DEF NoCall

LEMMA CheckEndOwn ==
  ASSUME CallInv, NEW t \in Threads, CheckEnd(t)
  PROVE  /\ Same(call[t], call'[t]) /\ call'[t].kinds = call[t].kinds
         /\ call'[t].pc = IF call[t].pc = "from" THEN "to" ELSE "edge"
         /\ call'[t].found = (/\ call[t].found
                              /\ Read(IF At(t, "from") THEN call[t].from ELSE call[t].to) # None)
<1> DEFINE id == IF At(t, "from") THEN call[t].from ELSE call[t].to
           found == call[t].found /\ Read(id) # None
           pc == IF call[t].pc = "from" THEN "to" ELSE "edge"
<1>1. call'[t] = [call[t] EXCEPT !.pc = pc, !.found = found]
  BY ThreadCalls, Zenon DEF CheckEnd
<1> HIDE DEF found, pc
<1>2. Same(call[t], call'[t]) /\ call'[t].kinds = call[t].kinds /\ call'[t].pc = pc /\ call'[t].found = found
  BY <1>1, CallType DEF Same, Call
<1> QED
  BY <1>2 DEF found, pc

LEMMA InsertEdgeOwn ==
  ASSUME CallInv, NEW t \in Threads, InsertEdge(t)
  PROVE  IF call[t].found
         THEN Same(call[t], call'[t]) /\ call'[t].pc = "sync" /\ call'[t].kinds = call[t].kinds
         ELSE call'[t] = NoCall
BY ThreadCalls DEF InsertEdge, Goto, Same, Call

LEMMA TakeCountOwn ==
  ASSUME CallInv, NEW t \in Threads, TakeCount(t)
  PROVE  /\ Same(call[t], call'[t]) /\ call'[t].pc = "create" /\ call'[t].count = header.nodes
         /\ call'[t].synced = call[t].synced /\ call'[t].header = call[t].header
         /\ call'[t].kinds = call[t].kinds
<1>1. call'[t] = [call[t] EXCEPT !.pc = "create", !.count = header.nodes]
  BY ThreadCalls, Zenon DEF TakeCount
<1> QED
  BY <1>1, CallType DEF Same, Call

LEMMA CreateTempOwn ==
  ASSUME CallInv, NEW t \in Threads, CreateTemp(t)
  PROVE  /\ Same(call[t], call'[t]) /\ call'[t].pc = "head" /\ call'[t].fd = "temp"
         /\ call'[t].count = call[t].count
         /\ call'[t].synced = call[t].synced /\ call'[t].header = call[t].header
         /\ call'[t].kinds = call[t].kinds
<1>1. call'[t] = [call[t] EXCEPT !.pc = "head", !.fd = "temp"]
  BY ThreadCalls, Zenon DEF CreateTemp
<1> QED
  BY <1>1, CallType DEF Same, Call

LEMMA WriteHeadOwn ==
  ASSUME CallInv, NEW t \in Threads, WriteHead(t)
  PROVE  /\ Same(call[t], call'[t]) /\ call'[t].pc = "entries" /\ call'[t].kinds = kinds
         /\ call'[t].fd = call[t].fd /\ call'[t].count = call[t].count
         /\ call'[t].synced = call[t].synced /\ call'[t].header = call[t].header
<1>1. call'[t] = [call[t] EXCEPT !.pc = "entries", !.kinds = kinds]
  BY ThreadCalls, Zenon DEF WriteHead
<1> QED
  BY <1>1, CallType DEF Same, Call

LEMMA WriteEntriesOwn ==
  ASSUME CallInv, NEW t \in Threads, WriteEntries(t)
  PROVE  /\ Same(call[t], call'[t]) /\ call'[t].pc = "rename" /\ call'[t].kinds = call[t].kinds
         /\ call'[t].fd = call[t].fd /\ call'[t].count = call[t].count
         /\ call'[t].synced = call[t].synced /\ call'[t].header = call[t].header
BY ThreadCalls DEF WriteEntries, Goto, Same, Call

LEMMA RenameTempOwn ==
  ASSUME CallInv, NEW t \in Threads, RenameTemp(t)
  PROVE  IF Importing(t)
         THEN call'[t] = NoCall
         ELSE /\ Same(call[t], call'[t]) /\ call'[t].pc = "sync" /\ call'[t].kinds = call[t].kinds
              /\ call'[t].synced = call[t].synced
<1>1. call'[t] = IF Importing(t) THEN NoCall ELSE [call[t] EXCEPT !.pc = "sync"]
  BY DEF RenameTemp
<1> QED
  BY <1>1, CallType DEF Same, Call

LEMMA SyncHeaderOwn ==
  ASSUME CallInv, NEW t \in Threads, SyncHeader(t)
  PROVE  IF Deleting(t) /\ ~call[t].synced
         THEN /\ Same(call[t], call'[t]) /\ call'[t].pc = "count" /\ call'[t].synced
              /\ call'[t].kinds = call[t].kinds
         ELSE call'[t] = NoCall
<1>1. CASE Deleting(t) /\ ~call[t].synced
  <2>1. call'[t] = [call[t] EXCEPT !.pc = "count", !.synced = TRUE]
    BY <1>1, ThreadCalls, Zenon DEF SyncHeader
  <2> QED
    BY <1>1, <2>1, CallType DEF Same, Call
<1>2. CASE ~(Deleting(t) /\ ~call[t].synced)
  BY <1>2, ThreadCalls DEF SyncHeader
<1> QED
  BY <1>1, <1>2

LEMMA ExportPagesOwn ==
  ASSUME CallInv, NEW t \in Threads, ExportPages(t)
  PROVE  call'[t] = NoCall
BY ThreadCalls DEF ExportPages

LEMMA ImportStoresOwn ==
  ASSUME CallInv, NEW t \in Threads, ImportStores(t)
  PROVE  /\ Same(call[t], call'[t]) /\ call'[t].pc = "header" /\ call'[t].header = file.header
         /\ call'[t].kinds = call[t].kinds
<1>1. call'[t] = [call[t] EXCEPT !.pc = "header", !.header = file.header]
  BY ThreadCalls, Zenon DEF ImportStores
<1> QED
  BY <1>1, CallType DEF Same, Call

LEMMA ImportHeaderOwn ==
  ASSUME CallInv, NEW t \in Threads, ImportHeader(t)
  PROVE  /\ Same(call[t], call'[t]) /\ call'[t].pc = "rebuild" /\ call'[t].header = call[t].header
         /\ call'[t].kinds = call[t].kinds
BY ThreadCalls DEF ImportHeader, Goto, Same, Call

LEMMA ImportRebuildOwn ==
  ASSUME CallInv, NEW t \in Threads, ImportRebuild(t)
  PROVE  /\ Same(call[t], call'[t]) /\ call'[t].pc = "create"
         /\ call'[t].count = call[t].header.nodes /\ call'[t].header = call[t].header
         /\ call'[t].kinds = call[t].kinds
<1>1. call'[t] = [call[t] EXCEPT !.pc = "create", !.count = call[t].header.nodes]
  BY ThreadCalls, Zenon DEF ImportRebuild
<1> QED
  BY <1>1, CallType DEF Same, Call

\* node_store.write() is taken by a thread that finds it free, and released by its holder.
LEMMA LockStep ==
  ASSUME CallInv, NEW t \in Threads, ThreadStep(t)
  PROVE  \/ lock' = lock
         \/ Unlocked(t) /\ lock' = t /\ Holding(t)'
         \/ lock = t /\ lock' = None /\ Idle(t)'
<1>1. ASSUME NEW k \in Kinds, InsertNode(t, k)
      PROVE  lock' = lock
  BY <1>1 DEF InsertNode
<1>2. ASSUME NEW id \in Ids, GetNode(t, id)
      PROVE  lock' = lock
  BY <1>2 DEF GetNode
<1>3. ASSUME NEW id \in Ids, UpdateNode(t, id) \/ DeleteEntity(t, id)
      PROVE  Unlocked(t) /\ lock' = t /\ Holding(t)'
  <2>2. call'[t].op \in {"update_node", "delete_entity"}
    BY <1>3, UpdateNodeOwn, DeleteEntityOwn
  <2> QED
    BY <1>3, <2>2 DEF UpdateNode, DeleteEntity, Starts, Holding
<1>4. CASE CheckEnd(t) \/ InsertEdge(t) \/ \E a, b \in Ids : BeginEdge(t, a, b)
  BY <1>4 DEF CheckEnd, InsertEdge, BeginEdge, memVars
<1>5. CASE Flush(t) \/ TakeCount(t) \/ CreateTemp(t) \/ WriteHead(t) \/ WriteEntries(t)
  BY <1>5 DEF Flush, TakeCount, CreateTemp, WriteHead, WriteEntries, memVars
<1>6. CASE SyncHeader(t)
  <2>1. CASE Deleting(t) /\ ~call[t].synced
    BY <1>6, <2>1 DEF SyncHeader
  <2>2. CASE ~(Deleting(t) /\ ~call[t].synced)
    <3>1. call'[t] = NoCall
      BY <1>6, <2>2, SyncHeaderOwn
    <3>2. Released(t)
      BY <1>6, <2>2 DEF SyncHeader
    <3> QED
      BY <3>1, <3>2 DEF Released, Idle, NoCall
  <2> QED
    BY <2>1, <2>2
<1>7. CASE RenameTemp(t)
  BY <1>7, RenameTempOwn DEF RenameTemp, Released, Idle, NoCall
<1>8. CASE SnapshotCalls(t)
  BY <1>8 DEF SnapshotCalls, ExportHeader, ExportPages, ImportCopy, ImportStores, ImportHeader,
              ImportRebuild, memVars
<1> QED
  BY <1>1, <1>2, <1>3, <1>4, <1>5, <1>6, <1>7, <1>8 DEF ThreadStep, NodeCalls, FlushCalls

\* A file that is there stays there until the rename.
LEMMA FilesStay ==
  ASSUME CallInv, NEW t \in Threads, ThreadStep(t)
  PROVE  /\ snap \in Snapshot => snap' \in Snapshot
         /\ sidecar \in Sidecar => sidecar' \in Sidecar
         /\ temp \in Sidecar /\ ~RenameTemp(t) => temp' \in Sidecar
<1>1. CASE WriteHead(t) \/ WriteEntries(t)
  <2>1. call[t].count \in Nat /\ call[t].kinds \in Index \cup {None}
    BY CallType DEF Call
  <2>2. \A page \in Sidecar : /\ [page EXCEPT !.count = call[t].count] \in Sidecar
                              /\ [page EXCEPT !.kinds = call[t].kinds] \in Sidecar
    BY <2>1 DEF Sidecar
  <2>3. (sidecar \in Sidecar => sidecar' \in Sidecar) /\ (temp \in Sidecar => temp' \in Sidecar)
    BY <1>1, <2>2 DEF WriteHead, WriteEntries, Write, Opened, CallInv, FileThere, At
  <2> QED
    BY <1>1, <2>3 DEF WriteHead, WriteEntries
<1>2. CASE RenameTemp(t)
  BY <1>2 DEF RenameTemp, CallInv, TypeOK
<1>3. CASE CreateTemp(t)
  BY <1>3, ConstantTypes DEF CreateTemp
<1>4. CASE ExportPages(t)
  <2>1. snap' \in Snapshot
    BY <1>4, CallType DEF ExportPages, Snapshot, CallInv, TypeOK, File, Call
  <2> QED
    BY <1>4, <2>1 DEF ExportPages
<1>5. CASE NodeCalls(t)
  BY <1>5 DEF NodeCalls, InsertNode, GetNode, UpdateNode, DeleteEntity, BeginEdge, CheckEnd,
              InsertEdge, fileVars
<1>6. CASE Flush(t) \/ TakeCount(t) \/ SyncHeader(t)
  BY <1>6 DEF Flush, TakeCount, SyncHeader, fileVars
<1>7. CASE ExportHeader(t) \/ ImportCopy(t) \/ ImportStores(t) \/ ImportHeader(t) \/ ImportRebuild(t)
  BY <1>7 DEF ExportHeader, ImportCopy, ImportStores, ImportHeader, ImportRebuild, fileVars
<1> QED
  BY <1>1, <1>2, <1>3, <1>4, <1>5, <1>6, <1>7 DEF ThreadStep, FlushCalls, SnapshotCalls

-----------------------------------------------------------------------------
(* CallInv is inductive *)

LEMMA OthersInCall ==
  ASSUME CallInv, NEW t \in Threads, ThreadStep(t), NEW u \in Threads, u # t
  PROVE  InCall(u)' /\ FileThere(u)'
<1>1. SameCall(u)
  BY OthersKept
<1>2. lock' = u <=> lock = u
  BY LockStep, V3GraphAssumption DEF Unlocked
<1>3. InCall(u)'
  BY <1>1, <1>2, FilesStay DEF CallInv, InCall, SameCall, Holding, Inserting, Importing
<1>4. FileThere(u)'
  <2>1. CASE RenameTemp(t)
    <3> SUFFICES ASSUME At(u, "head") \/ At(u, "entries")
                 PROVE  /\ call'[u].fd = "temp" => temp' \in Sidecar
                        /\ call'[u].fd = "sidecar" => sidecar' \in Sidecar
      BY <1>1 DEF FileThere, SameCall, At
    <3>1. call'[u].fd = Renamed(call[u].fd)
      BY <2>1, CallType DEF RenameTemp, At, Call
    <3>2. (call[u].fd = "temp" => temp \in Sidecar) /\ (call[u].fd = "sidecar" => sidecar \in Sidecar)
      BY DEF CallInv, FileThere
    <3>3. None \notin Sidecar
      BY V3GraphAssumption
    <3>4. sidecar' = IF temp # None THEN temp ELSE sidecar
      BY <2>1 DEF RenameTemp
    <3> QED
      BY <3>1, <3>2, <3>3, <3>4 DEF Renamed, CallInv, TypeOK
  <2>2. CASE ~RenameTemp(t)
    <3>1. call'[u].fd = call[u].fd
      BY <2>2, OthersFd
    <3> QED
      BY <1>1, <2>2, <3>1, FilesStay DEF CallInv, FileThere, SameCall, At
  <2> QED
    BY <2>1, <2>2
<1> QED
  BY <1>3, <1>4

LEMMA OwnInCall ==
  ASSUME CallInv, NEW t \in Threads, ThreadStep(t)
  PROVE  InCall(t)' /\ FileThere(t)'
<1>0. /\ call[t] \in Call /\ header \in Header /\ file.header \in Header /\ kinds \in Index
      /\ call[t].header.nodes \in Nat /\ header.nodes \in Nat
  BY CallType DEF CallInv, TypeOK, Call, Header, File
<1>n. lock # t => lock' # t \/ Holding(t)'
  BY LockStep, V3GraphAssumption
<1>1. ASSUME NEW k \in Kinds, InsertNode(t, k)
      PROVE  InCall(t)' /\ FileThere(t)'
  <2>1. /\ call'[t].op = "insert_node" /\ call'[t].pc = "sync" /\ call'[t].id = nextId
        /\ call'[t].kind = k /\ lock' = lock /\ Idle(t) /\ nextId \in Ids
    BY <1>1, InsertNodeOwn DEF InsertNode, Starts
  <2> QED
    BY <2>1 DEF CallInv, InCall, FileThere, StepsOf, Holding, Inserting, Importing, Idle, At,
                AllKinds
<1>2. ASSUME NEW id \in Ids, GetNode(t, id)
      PROVE  InCall(t)' /\ FileThere(t)'
  BY <1>2 DEF GetNode, fileVars, CallInv, InCall, FileThere, Holding, Inserting, Importing, At
<1>3. ASSUME NEW id \in Ids, UpdateNode(t, id) \/ DeleteEntity(t, id)
      PROVE  InCall(t)' /\ FileThere(t)'
  <2>2. /\ call'[t].op \in {"update_node", "delete_entity"}
        /\ call'[t].pc \in {"count", "sync"} /\ call'[t].id = id
    BY <1>3, UpdateNodeOwn, DeleteEntityOwn
  <2>3. lock' = t
    BY <1>3 DEF UpdateNode, DeleteEntity
  <2> QED
    BY <2>2, <2>3 DEF InCall, FileThere, StepsOf, Flushing, Holding, Inserting, Importing, At
<1>4. CASE CheckEnd(t)
  <2>1. call[t].op = "insert_edge"
    BY <1>0, <1>4 DEF CheckEnd, CallInv, InCall, StepsOf, At, Call, Flushing
  <2>2. lock' = lock /\ snap' = snap
    BY <1>4 DEF CheckEnd, fileVars
  <2>3. Same(call[t], call'[t]) /\ call'[t].pc \in {"to", "edge"}
    BY <1>4, CheckEndOwn
  <2> QED
    BY <2>1, <2>2, <2>3 DEF Same, CallInv, InCall, FileThere, StepsOf, Holding, Inserting,
                            Importing, At
<1>5. CASE InsertEdge(t)
  <2>1. call[t].op = "insert_edge" /\ lock' = lock
    BY <1>0, <1>5 DEF InsertEdge, CallInv, InCall, StepsOf, At, Call, Flushing
  <2>3. \/ call'[t] = NoCall
        \/ Same(call[t], call'[t]) /\ call'[t].pc = "sync"
    BY <1>5, InsertEdgeOwn
  <2> QED
    BY <2>1, <2>3 DEF Same, CallInv, InCall, FileThere, StepsOf, Holding, Inserting, Importing,
                      At, NoCall
<1>6. ASSUME NEW a \in Ids, NEW b \in Ids, BeginEdge(t, a, b)
      PROVE  InCall(t)' /\ FileThere(t)'
  <2>1. call'[t].op = "insert_edge" /\ call'[t].pc = "from" /\ call'[t].from = a /\ call'[t].to = b
    BY <1>6, BeginEdgeOwn
  <2>2. lock' = lock /\ Idle(t)
    BY <1>6 DEF BeginEdge, memVars, Starts
  <2> QED
    BY <2>1, <2>2 DEF CallInv, InCall, FileThere, StepsOf, Holding, Inserting, Importing, Idle, At
<1>7. CASE Flush(t) \/ ExportHeader(t)
  <2>1. \/ call'[t].op = "flush" /\ call'[t].pc = "count"
        \/ call'[t].op = "snapshot_export" /\ call'[t].pc = "pages"
    BY <1>7, FlushOwn, ExportHeaderOwn
  <2>2. lock' = lock /\ Idle(t)
    BY <1>7 DEF Flush, ExportHeader, memVars, Starts
  <2> QED
    BY <2>1, <2>2 DEF CallInv, InCall, FileThere, StepsOf, Flushing, Holding, Inserting,
                      Importing, Idle, At, NoCall
<1>8. CASE ImportCopy(t)
  <2>1. call'[t].op = "snapshot_import" /\ call'[t].pc = "stores"
    BY <1>8, ImportCopyOwn
  <2>2. lock' = lock /\ Idle(t) /\ snap' = snap /\ snap # None
    BY <1>8 DEF ImportCopy, memVars, Starts
  <2> QED
    BY <2>1, <2>2 DEF CallInv, TypeOK, InCall, FileThere, StepsOf, Holding, Inserting, Importing,
                      Idle, At
<1>9. CASE TakeCount(t) \/ CreateTemp(t) \/ WriteHead(t) \/ WriteEntries(t)
  <2>1. /\ Same(call[t], call'[t])
        /\ \/ call[t].pc = "count" /\ call'[t].pc = "create"
           \/ call[t].pc = "create" /\ call'[t].pc = "head" /\ call'[t].fd = "temp" /\ temp' = Blank
           \/ call[t].pc = "head" /\ call'[t].pc = "entries" /\ call'[t].fd = call[t].fd
           \/ call[t].pc = "entries" /\ call'[t].pc = "rename"
    <3>1. CASE TakeCount(t)
      BY <3>1, TakeCountOwn DEF TakeCount, At
    <3>2. CASE CreateTemp(t)
      BY <3>2, CreateTempOwn DEF CreateTemp, At
    <3>3. CASE WriteHead(t)
      BY <3>3, WriteHeadOwn DEF WriteHead, At
    <3>4. CASE WriteEntries(t)
      BY <3>4, WriteEntriesOwn DEF WriteEntries, At
    <3> QED
      BY <1>9, <3>1, <3>2, <3>3, <3>4
  <2>2. lock' = lock /\ snap' = snap
    BY <1>9 DEF TakeCount, CreateTemp, WriteHead, WriteEntries, memVars, fileVars
  <2>3. InCall(t)'
    BY <1>0, <2>1, <2>2 DEF Same, CallInv, InCall, StepsOf, Flushing, Holding, Inserting,
                            Importing, Call
  <2>4. FileThere(t)'
    <3>1. CASE WriteHead(t)
      BY <2>1, <3>1, FilesStay DEF CallInv, FileThere, At, WriteHead, RenameTemp
    <3>2. CASE ~WriteHead(t)
      BY <1>9, <2>1, <3>2, ConstantTypes DEF FileThere, At, TakeCount, WriteEntries, CreateTemp
    <3> QED
      BY <3>1, <3>2
  <2> QED
    BY <2>3, <2>4
<1>10. CASE RenameTemp(t)
  <2>1. CASE Importing(t)
    <3>1. call'[t] = NoCall /\ Released(t)
      BY <1>10, <2>1, RenameTempOwn DEF RenameTemp
    <3>2. lock' # t
      BY <3>1, V3GraphAssumption DEF Released
    <3> QED
      BY <3>1, <3>2 DEF InCall, FileThere, StepsOf, Holding, Inserting, Importing, At, NoCall
  <2>2. CASE ~Importing(t)
    <3>1. Same(call[t], call'[t]) /\ call'[t].pc = "sync"
      BY <1>10, <2>2, RenameTempOwn
    <3>2. lock' = lock /\ snap' = snap /\ call[t].pc = "rename"
      BY <1>10, <2>2 DEF RenameTemp, At
    <3> QED
      BY <1>0, <2>2, <3>1, <3>2 DEF Same, CallInv, InCall, FileThere, StepsOf, Flushing, Holding,
                                    Inserting,
                                  Importing, At, Call
  <2> QED
    BY <2>1, <2>2
<1>11. CASE SyncHeader(t)
  <2>1. CASE Deleting(t) /\ ~call[t].synced
    <3>1. Same(call[t], call'[t]) /\ call'[t].pc = "count"
      BY <1>11, <2>1, SyncHeaderOwn
    <3>2. lock' = lock /\ snap' = snap
      BY <1>11, <2>1 DEF SyncHeader
    <3> QED
      BY <2>1, <3>1, <3>2 DEF Same, CallInv, InCall, FileThere, StepsOf, Flushing, Holding,
                              Inserting,
                              Importing, Deleting, At
  <2>2. CASE ~(Deleting(t) /\ ~call[t].synced)
    <3>1. call'[t] = NoCall /\ Released(t)
      BY <1>11, <2>2, SyncHeaderOwn DEF SyncHeader
    <3>2. lock' # t
      BY <3>1, V3GraphAssumption DEF Released
    <3> QED
      BY <3>1, <3>2 DEF InCall, FileThere, StepsOf, Holding, Inserting, Importing, At, NoCall
  <2> QED
    BY <2>1, <2>2
<1>12. CASE ExportPages(t)
  <2>1. call'[t] = NoCall /\ lock' = lock /\ call[t].pc = "pages"
    BY <1>12, ExportPagesOwn DEF ExportPages, memVars, At
  <2>2. ~Holding(t)
    BY <2>1 DEF CallInv, InCall, StepsOf, Flushing, Holding
  <2> QED
    BY <2>1, <2>2 DEF CallInv, InCall, FileThere, StepsOf, Holding, Inserting, Importing, At, NoCall
<1>13. CASE ImportStores(t) \/ ImportHeader(t) \/ ImportRebuild(t)
  <2>1. /\ Same(call[t], call'[t]) /\ call[t].pc \in {"stores", "header", "rebuild"}
        /\ call'[t].pc \in {"header", "rebuild", "create"}
    <3>1. CASE ImportStores(t)
      BY <3>1, ImportStoresOwn DEF ImportStores, At
    <3>2. CASE ImportHeader(t)
      BY <3>2, ImportHeaderOwn DEF ImportHeader, At
    <3>3. CASE ImportRebuild(t)
      BY <3>3, ImportRebuildOwn DEF ImportRebuild, At
    <3> QED
      BY <1>13, <3>1, <3>2, <3>3
  <2>2. lock' = lock /\ snap' = snap
    BY <1>13 DEF ImportStores, ImportHeader, ImportRebuild, fileVars
  <2> QED
    BY <1>0, <2>1, <2>2 DEF Same, CallInv, InCall, FileThere, StepsOf, Flushing, Holding, Inserting,
                            Importing, At, Call
<1> QED
  BY <1>1, <1>2, <1>3, <1>4, <1>5, <1>6, <1>7, <1>8, <1>9, <1>10, <1>11, <1>12, <1>13
     DEF ThreadStep, NodeCalls, FlushCalls, SnapshotCalls

LEMMA CallStep == CallInv /\ [Next]_vars => CallInv'
<1> SUFFICES ASSUME CallInv, [Next]_vars
             PROVE  CallInv'
  OBVIOUS
<1>1. TypeOK'
  BY StepTypes
<1>2. CASE UNCHANGED vars
  BY <1>1, <1>2 DEF CallInv, vars, InCall, FileThere, Holding, Inserting, Importing, At
<1>3. ASSUME NEW t \in Threads, ThreadStep(t)
      PROVE  CallInv'
  BY <1>1, <1>3, OwnInCall, OthersInCall DEF CallInv
<1>4. CASE CrashAndOpen
  <2>1. call' = [t \in Threads |-> NoCall] /\ lock' = None
    BY <1>4 DEF CrashAndOpen
  <2>2. \A t \in Threads : InCall(t)' /\ FileThere(t)'
    BY <2>1, V3GraphAssumption DEF InCall, FileThere, StepsOf, Holding, Inserting, Importing, At,
                                   NoCall
  <2> QED
    BY <1>1, <2>2 DEF CallInv
<1> QED
  BY <1>2, <1>3, <1>4 DEF Next, ThreadStep

LEMMA CallInit == Init => CallInv
<1> SUFFICES ASSUME Init
             PROVE  CallInv
  OBVIOUS
<1>1. \A t \in Threads : InCall(t) /\ FileThere(t)
  BY V3GraphAssumption DEF Init, InCall, FileThere, StepsOf, Holding, Inserting, Importing, At,
                           NoCall
<1> QED
  BY <1>1, InitTypes DEF CallInv

\* The state of every run is one the types describe: whatever threads do to each
\* other's calls, what rename moves under a writer included.
THEOREM GraphTypes == Spec => []CallInv
<1>1. Init => CallInv
  BY CallInit
<1>2. CallInv /\ [Next]_vars => CallInv'
  BY CallStep
<1> QED
  BY <1>1, <1>2, PTL DEF Spec

-----------------------------------------------------------------------------
(* Who changes what *)

Inserts(t) == \E k \in Kinds : InsertNode(t, k)
Updates(t) == \E id \in Ids : UpdateNode(t, id)
Deletes(t) == \E id \in Ids : DeleteEntity(t, id)
Gets(t) == \E id \in Ids : GetNode(t, id)
Begins(t) == \E a, b \in Ids : BeginEdge(t, a, b)

LEMMA StoreFrame ==
  ASSUME NEW t \in Threads, ThreadStep(t)
  PROVE  /\ nodes' = nodes \/ Inserts(t) \/ Updates(t) \/ Deletes(t) \/ ImportStores(t)
         /\ cache' = cache \/ Gets(t) \/ Updates(t) \/ Deletes(t) \/ CheckEnd(t) \/ ImportRebuild(t)
         /\ kinds' = kinds \/ Inserts(t) \/ ImportRebuild(t)
         /\ header' = header \/ Inserts(t) \/ Deletes(t) \/ InsertEdge(t) \/ ImportHeader(t)
<1> USE DEF Inserts, Updates, Deletes, Gets, memVars
<1>1. CASE NodeCalls(t)
  <2>1. CASE Inserts(t) \/ Updates(t) \/ Deletes(t)
    BY <2>1 DEF InsertNode, UpdateNode, DeleteEntity
  <2>2. CASE Gets(t) \/ CheckEnd(t)
    BY <2>2 DEF GetNode, CheckEnd
  <2>3. CASE Begins(t) \/ InsertEdge(t)
    BY <2>3 DEF Begins, BeginEdge, InsertEdge
  <2> QED
    BY <1>1, <2>1, <2>2, <2>3 DEF NodeCalls, Begins
<1>2. CASE FlushCalls(t)
  BY <1>2 DEF FlushCalls, Flush, TakeCount, CreateTemp, WriteHead, WriteEntries, RenameTemp,
              SyncHeader
<1>3. CASE SnapshotCalls(t)
  BY <1>3 DEF SnapshotCalls, ExportHeader, ExportPages, ImportCopy, ImportStores, ImportHeader,
              ImportRebuild
<1> QED
  BY <1>1, <1>2, <1>3 DEF ThreadStep

LEMMA FileFrame ==
  ASSUME NEW t \in Threads, ThreadStep(t)
  PROVE  /\ file' = file \/ Inserts(t) \/ Updates(t) \/ Deletes(t) \/ SyncHeader(t) \/ ImportCopy(t)
            \/ ImportStores(t)
         /\ sidecar' = sidecar \/ WriteHead(t) \/ WriteEntries(t) \/ RenameTemp(t)
         /\ temp' = temp \/ CreateTemp(t) \/ WriteHead(t) \/ WriteEntries(t) \/ RenameTemp(t)
         /\ snap' = snap \/ ExportPages(t)
<1> USE DEF Inserts, Updates, Deletes, Gets, fileVars
<1>1. CASE NodeCalls(t)
  <2>1. CASE Inserts(t) \/ Updates(t) \/ Deletes(t)
    BY <2>1 DEF InsertNode, UpdateNode, DeleteEntity
  <2>2. CASE Gets(t) \/ CheckEnd(t)
    BY <2>2 DEF GetNode, CheckEnd
  <2>3. CASE Begins(t) \/ InsertEdge(t)
    BY <2>3 DEF Begins, BeginEdge, InsertEdge
  <2> QED
    BY <1>1, <2>1, <2>2, <2>3 DEF NodeCalls, Begins
<1>2. CASE FlushCalls(t)
  BY <1>2 DEF FlushCalls, Flush, TakeCount, CreateTemp, WriteHead, WriteEntries, RenameTemp,
              SyncHeader
<1>3. CASE SnapshotCalls(t)
  BY <1>3 DEF SnapshotCalls, ExportHeader, ExportPages, ImportCopy, ImportStores, ImportHeader,
              ImportRebuild
<1> QED
  BY <1>1, <1>2, <1>3 DEF ThreadStep

LEMMA HistFrame ==
  ASSUME NEW t \in Threads, ThreadStep(t)
  PROVE  /\ promised' = promised \/ Updates(t) \/ Deletes(t) \/ SyncHeader(t) \/ RenameTemp(t)
         /\ was' = was \/ Inserts(t) \/ Updates(t)
         /\ gone' = gone \/ Inserts(t) \/ SyncHeader(t) \/ RenameTemp(t)
         /\ stray' = stray \/ InsertEdge(t)
         /\ events' = events \/ Inserts(t) \/ ImportRebuild(t)
         /\ crashes' = crashes
<1> USE DEF Inserts, Updates, Deletes, Gets, histVars
<1>1. CASE NodeCalls(t)
  <2>1. CASE Inserts(t) \/ Updates(t) \/ Deletes(t)
    BY <2>1 DEF InsertNode, UpdateNode, DeleteEntity
  <2>2. CASE Gets(t) \/ CheckEnd(t)
    BY <2>2 DEF GetNode, CheckEnd
  <2>3. CASE Begins(t) \/ InsertEdge(t)
    BY <2>3 DEF Begins, BeginEdge, InsertEdge
  <2> QED
    BY <1>1, <2>1, <2>2, <2>3 DEF NodeCalls, Begins
<1>2. CASE FlushCalls(t)
  BY <1>2 DEF FlushCalls, Flush, TakeCount, CreateTemp, WriteHead, WriteEntries, RenameTemp,
              SyncHeader
<1>3. CASE SnapshotCalls(t)
  BY <1>3 DEF SnapshotCalls, ExportHeader, ExportPages, ImportCopy, ImportStores, ImportHeader,
              ImportRebuild
<1> QED
  BY <1>1, <1>2, <1>3 DEF ThreadStep

-----------------------------------------------------------------------------
(* KnownInv is inductive *)

LEMMA FoundKnown ==
  ASSUME CallInv, KnownInv
  PROVE  KnownMap(Found)
BY DEF CallInv, KnownInv, KnownMap, Found, Empty

LEMMA ReadKnown ==
  ASSUME CallInv, KnownInv
  PROVE  \A id \in Ids : Read(id) # None => Read(id) \in was[id]
BY DEF CallInv, KnownInv, KnownMap, Read, Cached, Lookup

LEMMA RebuiltEntries ==
  ASSUME NEW count, NEW read, NEW k \in AllKinds, NEW id \in Ids
  PROVE  Rebuilt(count, read)[k][id] = IF id \in Scanned(count) /\ read[id] = k THEN 1 ELSE 0
BY DEF Rebuilt

LEMMA WasGrows ==
  ASSUME CallInv, NEW t \in Threads, ThreadStep(t)
  PROVE  \A id \in Ids : was[id] \subseteq was'[id]
<1>1. CASE was' = was
  BY <1>1
<1>2. ASSUME NEW k \in Kinds, InsertNode(t, k)
      PROVE  \A id \in Ids : was[id] \subseteq was'[id]
  BY <1>2 DEF InsertNode, CallInv, TypeOK
<1>3. ASSUME NEW i \in Ids, UpdateNode(t, i)
      PROVE  \A id \in Ids : was[id] \subseteq was'[id]
  BY <1>3 DEF UpdateNode, CallInv, TypeOK
<1> QED
  BY <1>1, <1>2, <1>3, HistFrame DEF Inserts, Updates

LEMMA KnownMapsStep ==
  ASSUME CallInv, KnownInv, NEW t \in Threads, ThreadStep(t)
  PROVE  /\ KnownMap(nodes)' /\ KnownMap(cache)' /\ KnownMap(file.nodes)'
         /\ snap' # None => KnownMap(snap.nodes)'
<1>0. \A id \in Ids : was[id] \subseteq was'[id]
  BY WasGrows
<1>1. KnownMap(nodes)' /\ KnownMap(file.nodes)'
  <2>1. ASSUME NEW k \in Kinds, InsertNode(t, k)
        PROVE  KnownMap(nodes)' /\ KnownMap(file.nodes)'
    <3>1. k \in was'[nextId] /\ nextId \in Ids
      BY <2>1 DEF InsertNode, CallInv, TypeOK
    <3>2. nodes' = [nodes EXCEPT ![nextId] = k] /\ file'.nodes = [file.nodes EXCEPT ![nextId] = k]
      BY <2>1 DEF InsertNode, CallInv, TypeOK, File
    <3> QED
      BY <1>0, <3>1, <3>2 DEF KnownInv, KnownMap, CallInv, TypeOK, NodeMap, File
  <2>2. ASSUME NEW i \in Ids, UpdateNode(t, i)
        PROVE  KnownMap(nodes)' /\ KnownMap(file.nodes)'
    <3>1. Plain \in was'[i]
      BY <2>2 DEF UpdateNode, CallInv, TypeOK
    <3>2. nodes' = [nodes EXCEPT ![i] = Plain] /\ file'.nodes = [file.nodes EXCEPT ![i] = Plain]
      BY <2>2 DEF UpdateNode, CallInv, TypeOK, File
    <3> QED
      BY <1>0, <3>1, <3>2 DEF KnownInv, KnownMap, CallInv, TypeOK, NodeMap, File
  <2>3. ASSUME NEW i \in Ids, DeleteEntity(t, i)
        PROVE  KnownMap(nodes)' /\ KnownMap(file.nodes)'
    <3>2. nodes' = [nodes EXCEPT ![i] = None] /\ file'.nodes = [file.nodes EXCEPT ![i] = None]
      BY <2>3 DEF DeleteEntity, CallInv, TypeOK, File
    <3> QED
      BY <1>0, <3>2 DEF KnownInv, KnownMap, CallInv, TypeOK, NodeMap, File
  <2>4. CASE ImportStores(t)
    <3>1. nodes' = Found /\ file'.nodes = Found
      BY <2>4 DEF ImportStores, CallInv, TypeOK, File
    <3> QED
      BY <1>0, <3>1, FoundKnown DEF KnownMap
  <2>5. CASE SyncHeader(t)
    <3>1. nodes' = nodes /\ file'.nodes = file.nodes
      BY <2>5 DEF SyncHeader, CallInv, TypeOK, File
    <3> QED
      BY <1>0, <3>1 DEF KnownInv, KnownMap
  <2>6. CASE ImportCopy(t)
    <3>1. nodes' = nodes /\ file'.nodes = snap.nodes /\ snap # None
      BY <2>6 DEF ImportCopy, memVars
    <3> QED
      BY <1>0, <3>1 DEF KnownInv, KnownMap
  <2>7. CASE nodes' = nodes /\ file' = file
    BY <1>0, <2>7 DEF KnownInv, KnownMap
  <2> QED
    BY <2>1, <2>2, <2>3, <2>4, <2>5, <2>6, <2>7, StoreFrame, FileFrame DEF Inserts, Updates, Deletes
<1>2. KnownMap(cache)'
  <2>1. CASE \E S : cache' = Caching(S)
    <3>1. PICK S : cache' = Caching(S)
      BY <2>1
    <3> QED
      BY <1>0, <3>1, ReadKnown DEF Caching, KnownInv, KnownMap
  <2>2. ASSUME NEW i \in Ids, UpdateNode(t, i) \/ DeleteEntity(t, i)
        PROVE  KnownMap(cache)'
    <3>1. cache' = [cache EXCEPT ![i] = None]
      BY <2>2 DEF UpdateNode, DeleteEntity
    <3> QED
      BY <1>0, <3>1 DEF KnownInv, KnownMap, CallInv, TypeOK, NodeMap
  <2>3. CASE cache' = cache
    BY <1>0, <2>3 DEF KnownInv, KnownMap
  <2>4. CASE Gets(t) \/ CheckEnd(t) \/ ImportRebuild(t)
    BY <2>1, <2>4 DEF Gets, GetNode, CheckEnd, ImportRebuild
  <2> QED
    BY <2>2, <2>3, <2>4, StoreFrame DEF Updates, Deletes
<1>3. snap' # None => KnownMap(snap.nodes)'
  <2>1. CASE ExportPages(t)
    <3>1. snap'.nodes = file.nodes
      BY <2>1 DEF ExportPages
    <3> QED
      BY <1>0, <3>1 DEF KnownInv, KnownMap
  <2>2. CASE snap' = snap
    BY <1>0, <2>2 DEF KnownInv, KnownMap
  <2> QED
    BY <2>1, <2>2, FileFrame
<1> QED
  BY <1>1, <1>2, <1>3

LEMMA KnownIndexStep ==
  ASSUME CallInv, KnownInv, NEW t \in Threads, ThreadStep(t)
  PROVE  /\ KnownIndex(kinds)'
         /\ sidecar' # None /\ sidecar'.kinds # None => KnownIndex(sidecar.kinds)'
         /\ temp' # None /\ temp'.kinds # None => KnownIndex(temp.kinds)'
         /\ \A u \in Threads : call'[u].kinds # None => KnownIndex(call[u].kinds)'
<1>0. \A id \in Ids : was[id] \subseteq was'[id]
  BY WasGrows
<1>1. KnownIndex(kinds)'
  <2>1. ASSUME NEW k \in Kinds, InsertNode(t, k)
        PROVE  KnownIndex(kinds)'
    <3>1. k \in was'[nextId] /\ nextId \in Ids
      BY <2>1 DEF InsertNode, CallInv, TypeOK
    <3>2. \A l \in AllKinds, id \in Ids :
            kinds'[l][id] = IF l = k /\ id = nextId THEN kinds[l][id] + 1 ELSE kinds[l][id]
      BY <2>1, <3>1 DEF InsertNode, CallInv, TypeOK, Index
    <3> QED
      BY <1>0, <3>1, <3>2 DEF KnownInv, KnownIndex
  <2>2. CASE ImportRebuild(t)
    <3> DEFINE read == [id \in Ids |-> Read(id)]
    <3>1. kinds' = Rebuilt(header.nodes, read)
      BY <2>2 DEF ImportRebuild
    <3>2. \A k \in AllKinds, id \in Ids : kinds'[k][id] > 0 => read[id] = k
      BY <3>1, RebuiltEntries
    <3>3. None \notin AllKinds
      BY V3GraphAssumption
    <3>4. \A id \in Ids : read[id] # None => read[id] \in was[id]
      BY ReadKnown
    <3> HIDE DEF read
    <3> QED
      BY <1>0, <3>2, <3>3, <3>4 DEF KnownIndex
  <2>3. CASE kinds' = kinds
    BY <1>0, <2>3 DEF KnownInv, KnownIndex
  <2> QED
    BY <2>1, <2>2, <2>3, StoreFrame DEF Inserts
<1>2. /\ sidecar' # None /\ sidecar'.kinds # None => KnownIndex(sidecar.kinds)'
      /\ temp' # None /\ temp'.kinds # None => KnownIndex(temp.kinds)'
  <2>1. ASSUME NEW page \in {sidecar, temp}, page # None, page.kinds # None
        PROVE  \A k \in AllKinds, id \in Ids : page.kinds[k][id] > 0 => k \in was'[id]
    BY <1>0, <2>1 DEF KnownInv, KnownIndex
  <2>2. CASE WriteHead(t) \/ WriteEntries(t)
    <3> DEFINE fd == call[t].fd
    <3>1. /\ fd = "temp" => temp \in Sidecar
          /\ fd = "sidecar" => sidecar \in Sidecar
      BY <2>2 DEF CallInv, FileThere, WriteHead, WriteEntries, At
    <3>2. ASSUME NEW page \in Sidecar, NEW n
          PROVE  /\ [page EXCEPT !.count = n].kinds = page.kinds
                 /\ [page EXCEPT !.kinds = n].kinds = n
      BY DEF Sidecar
    <3>3. CASE WriteHead(t)
      <4>1. /\ sidecar' # None /\ sidecar'.kinds # None => sidecar # None /\ sidecar'.kinds = sidecar.kinds
            /\ temp' # None /\ temp'.kinds # None => temp # None /\ temp'.kinds = temp.kinds
        BY <3>1, <3>2, <3>3, V3GraphAssumption DEF WriteHead, Write, Opened
      <4> QED
        BY <2>1, <4>1 DEF KnownIndex
    <3>4. CASE WriteEntries(t)
      <4>1. /\ sidecar' # None /\ sidecar'.kinds # None =>
                 sidecar # None /\ sidecar'.kinds \in {sidecar.kinds, call[t].kinds}
            /\ temp' # None /\ temp'.kinds # None =>
                 temp # None /\ temp'.kinds \in {temp.kinds, call[t].kinds}
        BY <3>1, <3>2, <3>4, V3GraphAssumption DEF WriteEntries, Write, Opened
      <4>2. call[t].kinds # None => \A k \in AllKinds, id \in Ids : call[t].kinds[k][id] > 0 => k \in was'[id]
        BY <1>0 DEF KnownInv, KnownIndex
      <4> QED
        BY <2>1, <4>1, <4>2 DEF KnownIndex
    <3> QED
      BY <2>2, <3>3, <3>4
  <2>3. CASE RenameTemp(t)
    BY <2>1, <2>3 DEF RenameTemp, KnownIndex
  <2>4. CASE CreateTemp(t)
    <3>1. temp' = Blank /\ sidecar' = sidecar
      BY <2>4 DEF CreateTemp
    <3> QED
      BY <2>1, <3>1 DEF Blank, KnownIndex
  <2>5. CASE sidecar' = sidecar /\ temp' = temp
    BY <2>1, <2>5 DEF KnownIndex
  <2> QED
    BY <2>2, <2>3, <2>4, <2>5, FileFrame
<1>3. ASSUME NEW u \in Threads, call'[u].kinds # None
      PROVE  KnownIndex(call[u].kinds)'
  <2>1. call'[u].kinds \in {call[u].kinds, kinds, None}
    <3>1. CASE u # t
      BY <3>1, OthersKept DEF SameCall
    <3>2. CASE u = t
      <4>1. CASE NodeCalls(t)
        <5>1. CASE Gets(t)
          BY <5>1 DEF Gets, GetNode
        <5>2. CASE Inserts(t) \/ Updates(t) \/ Deletes(t) \/ Begins(t)
          BY <3>2, <5>2, InsertNodeOwn, UpdateNodeOwn, DeleteEntityOwn, BeginEdgeOwn
             DEF Inserts, Updates, Deletes, Begins
        <5>3. CASE CheckEnd(t)
          BY <3>2, <5>3, CheckEndOwn
        <5>4. CASE InsertEdge(t)
          BY <3>2, <5>4, InsertEdgeOwn DEF NoCall
        <5> QED
          BY <4>1, <5>1, <5>2, <5>3, <5>4 DEF NodeCalls, Gets, Inserts, Updates, Deletes, Begins
      <4>2. CASE FlushCalls(t)
        <5>1. CASE Flush(t)
          BY <3>2, <5>1, FlushOwn
        <5>2. CASE TakeCount(t) \/ CreateTemp(t)
          BY <3>2, <5>2, TakeCountOwn, CreateTempOwn
        <5>3. CASE WriteHead(t) \/ WriteEntries(t)
          BY <3>2, <5>3, WriteHeadOwn, WriteEntriesOwn
        <5>4. CASE RenameTemp(t)
          BY <3>2, <5>4, RenameTempOwn DEF NoCall
        <5>5. CASE SyncHeader(t)
          BY <3>2, <5>5, SyncHeaderOwn DEF NoCall
        <5> QED
          BY <4>2, <5>1, <5>2, <5>3, <5>4, <5>5 DEF FlushCalls
      <4>3. CASE SnapshotCalls(t)
        <5>1. CASE ExportHeader(t) \/ ImportCopy(t)
          BY <3>2, <5>1, ExportHeaderOwn, ImportCopyOwn
        <5>2. CASE ExportPages(t)
          BY <3>2, <5>2, ExportPagesOwn DEF NoCall
        <5>3. CASE ImportStores(t) \/ ImportHeader(t) \/ ImportRebuild(t)
          BY <3>2, <5>3, ImportStoresOwn, ImportHeaderOwn, ImportRebuildOwn
        <5> QED
          BY <4>3, <5>1, <5>2, <5>3 DEF SnapshotCalls
      <4> QED
        BY <4>1, <4>2, <4>3 DEF ThreadStep
    <3> QED
      BY <3>1, <3>2
  <2> QED
    BY <1>0, <1>3, <2>1 DEF KnownInv, KnownIndex
<1> QED
  BY <1>1, <1>2, <1>3

LEMMA KnownCrash ==
  ASSUME CallInv, KnownInv, CrashAndOpen
  PROVE  KnownInv'
<1>1. was' = was /\ snap' = snap /\ sidecar' = sidecar /\ temp' = temp /\ call' = [t \in Threads |-> NoCall]
  BY DEF CrashAndOpen
<1>2. KnownMap(nodes)' /\ KnownMap(file.nodes)'
  <2>1. nodes' = Found /\ file'.nodes = Found
    BY DEF CrashAndOpen, CallInv, TypeOK, File
  <2> QED
    BY <1>1, <2>1, FoundKnown DEF KnownMap
<1>3. KnownMap(cache)'
  <2>1. \A id \in Ids : cache'[id] \in {Found[id], None}
    BY DEF CrashAndOpen
  <2> QED
    BY <1>1, <2>1, FoundKnown DEF KnownMap
<1>4. KnownIndex(kinds)'
  <2> DEFINE count == file.header.nodes
             restored == IF Restores(count) THEN sidecar.kinds ELSE NoKinds
  <2>1. kinds' = Rebuilt(count, Found) \/ kinds' = restored
    BY DEF CrashAndOpen
  <2>2. CASE kinds' = Rebuilt(count, Found)
    BY <1>1, <2>2, RebuiltEntries, FoundKnown, V3GraphAssumption DEF KnownMap, KnownIndex
  <2>3. CASE kinds' = restored
    <3>1. \A k \in AllKinds, id \in Ids : NoKinds[k][id] = 0
      BY DEF NoKinds
    <3> QED
      BY <1>1, <2>3, <3>1 DEF Restores, KnownInv, KnownIndex
  <2> QED
    BY <2>1, <2>2, <2>3
<1>5. KnownMap(snap.nodes)' \/ snap' = None
  BY <1>1 DEF KnownInv, KnownMap
<1>6. \A t \in Threads : call'[t].kinds = None
  BY <1>1 DEF NoCall
<1> QED
  BY <1>1, <1>2, <1>3, <1>4, <1>5, <1>6 DEF KnownInv, KnownIndex

LEMMA KnownStep == CallInv /\ KnownInv /\ [Next]_vars => KnownInv'
<1> SUFFICES ASSUME CallInv, KnownInv, [Next]_vars
             PROVE  KnownInv'
  OBVIOUS
<1>1. CASE UNCHANGED vars
  BY <1>1 DEF vars, KnownInv, KnownMap, KnownIndex
<1>2. ASSUME NEW t \in Threads, ThreadStep(t)
      PROVE  KnownInv'
  BY <1>2, KnownMapsStep, KnownIndexStep DEF KnownInv
<1> QED
  BY <1>1, <1>2, KnownCrash DEF Next, ThreadStep

LEMMA KnownInit == Init => KnownInv
BY DEF Init, KnownInv, KnownMap, KnownIndex, Empty, NoKinds, NoCall

\* Half of what query_nodes_by_kind promises needs no excuse: whatever sidecar a
\* flush wrote and an open accepted, whatever snapshot was imported, no id is
\* listed under a kind that no insert and no update ever gave it.
THEOREM KindsAreKnown == Spec => [](\A k \in AllKinds, id \in Ids : kinds[k][id] > 0 => k \in was[id])
<1>1. Init => CallInv /\ KnownInv
  BY CallInit, KnownInit
<1>2. CallInv /\ KnownInv /\ [Next]_vars => CallInv' /\ KnownInv'
  BY CallStep, KnownStep
<1>3. CallInv /\ KnownInv => \A k \in AllKinds, id \in Ids : kinds[k][id] > 0 => k \in was[id]
  BY DEF KnownInv, KnownIndex
<1> QED
  BY <1>1, <1>2, <1>3, PTL DEF Spec

-----------------------------------------------------------------------------
(* Apart: nobody is in anybody's way *)

LEMMA ApartStep == Apart /\ [Next]_vars => Apart'
<1> SUFFICES ASSUME Apart, [Next]_vars
             PROVE  Apart'
  OBVIOUS
<1>1. CASE UNCHANGED vars
  BY <1>1 DEF vars, Apart, Importing, Idle, Persisting
<1>2. CASE Next
  <2> SUFFICES ASSUME races' = {}, NEW t \in Threads, NEW u \in Threads, t # u
               PROVE  /\ Importing(t)' => Idle(u)'
                      /\ ~(Persisting(t)' /\ Persisting(u)')
    BY DEF Apart
  <2>1. Watch
    BY <1>2 DEF Next
  <2> QED
    BY <2>1 DEF Watch, If
<1> QED
  BY <1>1, <1>2

LEMMA CalmBefore ==
  ASSUME CallInv, Next, Calm'
  PROVE  Calm
<1>1. races \subseteq races'
  BY DEF Next, Watch
<1>2. events \subseteq events'
  <2>1. CASE CrashAndOpen
    BY <2>1 DEF CrashAndOpen
  <2>2. ASSUME NEW t \in Threads, ThreadStep(t)
        PROVE  events \subseteq events'
    BY <2>2, HistFrame DEF Inserts, InsertNode, ImportRebuild
  <2> QED
    BY <2>1, <2>2 DEF Next, ThreadStep
<1> QED
  BY <1>1, <1>2 DEF Calm

\* A thread that is in another call keeps imports away.
LEMMA NoImports ==
  ASSUME CallInv, Apart', Calm', NEW t \in Threads, ThreadStep(t), ~Idle(t)', ~Importing(t)'
  PROVE  /\ NoImport'
         /\ ~Importing(t) => NoImport
<1>1. \A u \in Threads : ~Importing(u)'
  BY DEF Apart, Calm
<1>2. ASSUME ~Importing(t)
      PROVE  \A u \in Threads : ~Importing(u)
  BY <1>1, <1>2, OthersKept DEF SameCall, Importing
<1> QED
  BY <1>1, <1>2 DEF NoImport

-----------------------------------------------------------------------------
(* AbsentInv is inductive *)

LEMMA AbsentKept ==
  ASSUME CallInv, nodes' = nodes, cache' = cache \/ \E S : cache' = Caching(S)
  PROVE  \A id \in Ids : Absent(id) => Absent(id)'
BY DEF Absent, Caching, Read, Cached, Lookup

LEMMA OthersAbsent ==
  ASSUME CallInv, NEW t \in Threads, ThreadStep(t), NEW u \in Threads, u # t,
         DeletingAbsent(u), EndsAbsent(u), \A id \in Ids : Absent(id) => Absent(id)'
  PROVE  DeletingAbsent(u)' /\ EndsAbsent(u)'
<1>1. SameCall(u)
  BY OthersKept
<1>2. InCall(u)
  BY DEF CallInv
<1>3. DeletingAbsent(u)'
  <2> SUFFICES ASSUME Deleting(u)'
               PROVE  Absent(call[u].id)'
    BY DEF DeletingAbsent
  <2>1. Deleting(u) /\ call'[u].id = call[u].id
    BY <1>1 DEF Deleting, SameCall
  <2>2. Absent(call[u].id) /\ call[u].id \in Ids
    BY <1>2, <2>1 DEF DeletingAbsent, InCall, Deleting, Holding
  <2>3. \A id \in Ids : Absent(id) => nodes'[id] = None /\ cache'[id] = None
    BY DEF Absent
  <2> QED
    BY <2>1, <2>2, <2>3 DEF Absent
<1>4. EndsAbsent(u)'
  <2>1. \A id \in Ids : Absent(id) => nodes'[id] = None /\ cache'[id] = None
    BY DEF Absent
  <2> QED
    BY <1>1, <1>2, <2>1 DEF EndsAbsent, SameCall, InCall, At, Absent
<1> QED
  BY <1>3, <1>4

\* What makes Absence of the next state, for the steps that make nothing appear.
LEMMA AbsenceKept ==
  ASSUME CallInv, Absence, NEW t \in Threads, ThreadStep(t),
         \A id \in Ids : Absent(id) => Absent(id)',
         FileAgrees', GoneAbsent', stray' = stray, DeletingAbsent(t)', EndsAbsent(t)'
  PROVE  Absence'
BY OthersAbsent DEF Absence

LEMMA AbsentNodes ==
  ASSUME CallInv, Apart, Apart', Calm, Calm', Absence, NEW t \in Threads, NodeCalls(t)
  PROVE  Absence'
<1>0. ThreadStep(t)
  BY DEF ThreadStep
<1>1. ASSUME NEW k \in Kinds, InsertNode(t, k)
      PROVE  Absence'
  <2>1. /\ call'[t].op = "insert_node" /\ Idle(t) /\ Unlocked(t) /\ nextId \in Ids
        /\ nodes' = [nodes EXCEPT ![nextId] = k] /\ file' = [file EXCEPT !.nodes[nextId] = k]
        /\ gone' = gone \ {nextId} /\ cache' = cache /\ stray' = stray
    BY <1>1, InsertNodeOwn DEF InsertNode, Starts
  <2>2. NoImport /\ NoImport'
    BY <1>0, <2>1, NoImports DEF Idle, Importing
  <2>3. \A id \in Ids \ {nextId} : Absent(id) => Absent(id)'
    BY <2>1 DEF Absent, CallInv, TypeOK, NodeMap
  <2>4. FileAgrees'
    BY <2>1, <2>2 DEF FileAgrees, Absence, NoImport, CallInv, TypeOK, File
  <2>5. GoneAbsent'
    BY <2>1, <2>2, <2>3 DEF GoneAbsent, Absence, CallInv, TypeOK, Absent
  <2>6. \A u \in Threads : ~Deleting(u)'
    <3>1. \A u \in Threads : ~Deleting(u)
      BY <2>1, V3GraphAssumption DEF CallInv, InCall, Unlocked, Holding, Deleting, Idle
    <3> QED
      BY <1>0, <2>1, <3>1, OthersKept DEF Deleting, SameCall
  <2>7. ASSUME NEW u \in Threads
        PROVE  EndsAbsent(u)'
    <3>1. CASE u = t
      BY <2>1, <3>1 DEF EndsAbsent
    <3>2. CASE u # t
      <4>1. call'[u] = [call[u] EXCEPT !.gone = @ \ {nextId}]
        BY <1>1, <3>2 DEF InsertNode
      <4>2. call'[u].gone = call[u].gone \ {nextId} /\ call'[u].pc = call[u].pc
        BY <4>1, CallType DEF Call
      <4>3. EndsAbsent(u) /\ InCall(u) /\ SameCall(u)
        BY <1>0, <3>2, OthersKept DEF CallInv, Absence
      <4>4. \A id \in Ids \ {nextId} : Absent(id) => nodes'[id] = None /\ cache'[id] = None
        BY <2>3 DEF Absent
      <4> QED
        BY <4>2, <4>3, <4>4 DEF EndsAbsent, SameCall, InCall, At, Absent
    <3> QED
      BY <3>1, <3>2
  <2> QED
    BY <2>1, <2>4, <2>5, <2>6, <2>7 DEF Absence, DeletingAbsent
<1>2. ASSUME NEW id \in Ids, GetNode(t, id)
      PROVE  Absence'
  <2>1. \A i \in Ids : Absent(i) => Absent(i)'
    BY <1>2, AbsentKept DEF GetNode
  <2>2. UNCHANGED <<call, gone, stray, nodes, file>> /\ Idle(t)
    BY <1>2 DEF GetNode, fileVars, histVars
  <2>3. FileAgrees'
    BY <2>2 DEF FileAgrees, Absence, Importing, At
  <2>4. GoneAbsent'
    <3>1. \A i \in Ids : Absent(i) => nodes'[i] = None /\ cache'[i] = None
      BY <2>1 DEF Absent
    <3> QED
      BY <2>2, <3>1 DEF GoneAbsent, Absence, NoImport, Importing, Absent, CallInv, TypeOK
  <2>5. DeletingAbsent(t)' /\ EndsAbsent(t)'
    BY <2>2 DEF DeletingAbsent, EndsAbsent, Deleting, Idle
  <2> QED
    BY <1>0, <2>1, <2>2, <2>3, <2>4, <2>5, AbsenceKept
<1>3. ASSUME NEW id \in Ids, UpdateNode(t, id) \/ DeleteEntity(t, id)
      PROVE  Absence'
  <2>1. /\ call'[t].op \in {"update_node", "delete_entity"} /\ call'[t].id = id /\ Idle(t)
        /\ gone' = gone /\ stray' = stray
    BY <1>3, UpdateNodeOwn, DeleteEntityOwn DEF UpdateNode, DeleteEntity, Starts
  <2>2. NoImport /\ NoImport'
    BY <1>0, <2>1, NoImports DEF Idle, Importing
  <2>3. \E kind : /\ (nodes[id] # None /\ call'[t].op = "update_node") \/ kind = None
                  /\ nodes' = [nodes EXCEPT ![id] = kind] /\ cache' = [cache EXCEPT ![id] = None]
                  /\ file' = [file EXCEPT !.nodes[id] = kind]
    <3>1. CASE UpdateNode(t, id)
      BY <3>1, UpdateNodeOwn DEF UpdateNode, Lookup
    <3>2. CASE DeleteEntity(t, id)
      BY <3>2 DEF DeleteEntity
    <3> QED
      BY <1>3, <3>1, <3>2
  <2>4. \A i \in Ids : Absent(i) => Absent(i)'
    BY <2>3 DEF Absent, CallInv, TypeOK, NodeMap
  <2>5. FileAgrees'
    BY <2>2, <2>3 DEF FileAgrees, Absence, NoImport, CallInv, TypeOK, File
  <2>6. GoneAbsent'
    <3>1. \A i \in Ids : Absent(i) => nodes'[i] = None /\ cache'[i] = None
      BY <2>4 DEF Absent
    <3> QED
      BY <2>1, <2>2, <3>1 DEF GoneAbsent, Absence, Absent, CallInv, TypeOK
  <2>7. DeletingAbsent(t)' /\ EndsAbsent(t)'
    BY <2>1, <2>3 DEF DeletingAbsent, EndsAbsent, Deleting, Absent, CallInv, TypeOK, NodeMap
  <2> QED
    BY <1>0, <2>1, <2>4, <2>5, <2>6, <2>7, AbsenceKept
<1>4. ASSUME NEW a \in Ids, NEW b \in Ids, BeginEdge(t, a, b)
      PROVE  Absence'
  <2>1. /\ call'[t].op = "insert_edge" /\ call'[t].pc = "from" /\ call'[t].from = a
        /\ call'[t].to = b /\ call'[t].gone = gone \cap {a, b}
    BY <1>4, BeginEdgeOwn
  <2>2. UNCHANGED <<nodes, cache, file, gone, stray>> /\ Idle(t)
    BY <1>4 DEF BeginEdge, memVars, fileVars, Starts
  <2>3. NoImport /\ NoImport'
    BY <1>0, <2>1, <2>2, NoImports DEF Idle, Importing
  <2>4. \A i \in Ids : Absent(i) => Absent(i)'
    BY <2>2 DEF Absent
  <2>5. FileAgrees' /\ GoneAbsent'
    BY <2>2, <2>3 DEF FileAgrees, GoneAbsent, Absence, NoImport, Absent
  <2>6. DeletingAbsent(t)' /\ EndsAbsent(t)'
    BY <2>1, <2>2, <2>3 DEF DeletingAbsent, EndsAbsent, Deleting, At, GoneAbsent, Absence, Absent
  <2> QED
    BY <1>0, <2>2, <2>4, <2>5, <2>6, AbsenceKept
<1>5. CASE CheckEnd(t)
  <2> DEFINE id == IF At(t, "from") THEN call[t].from ELSE call[t].to
  <2>1. /\ Same(call[t], call'[t])
        /\ call'[t].pc = IF call[t].pc = "from" THEN "to" ELSE "edge"
        /\ call'[t].found = (call[t].found /\ Read(id) # None)
    BY <1>5, CheckEndOwn
  <2>2. UNCHANGED <<nodes, file, gone, stray>> /\ call[t].pc \in {"from", "to"}
    BY <1>5 DEF CheckEnd, fileVars, histVars, At
  <2>3. call[t].op = "insert_edge"
    BY <2>2, CallType DEF CallInv, InCall, StepsOf, Call, Flushing
  <2>4. \A i \in Ids : Absent(i) => Absent(i)'
    BY <1>5, <2>2, AbsentKept DEF CheckEnd
  <2>5. \A i \in Ids : Absent(i) => nodes'[i] = None /\ cache'[i] = None
    BY <2>4 DEF Absent
  <2>6. \A u \in Threads : call'[u].op = call[u].op /\ (Importing(u) => call'[u].pc = call[u].pc)
    BY <1>0, <2>1, <2>3, OthersKept DEF SameCall, Same, Importing
  <2>7. FileAgrees'
    BY <2>2, <2>6 DEF FileAgrees, Absence, Importing, At
  <2>8. GoneAbsent'
    BY <2>2, <2>5, <2>6 DEF GoneAbsent, Absence, NoImport, Importing, Absent, CallInv, TypeOK
  <2>9. EndsAbsent(t)'
    <3>1. /\ call[t].gone \subseteq {call[t].from, call[t].to}
          /\ \A i \in call[t].gone : Absent(i)
          /\ call[t].pc = "to" /\ call[t].found => call[t].from \notin call[t].gone
          /\ call[t].from \in Ids /\ call[t].to \in Ids
      BY <2>2, <2>3 DEF EndsAbsent, Absence, At, CallInv, InCall
    <3>2. call'[t].found => id \notin call[t].gone
      BY <2>1, <3>1 DEF Absent, Read, Cached, Lookup
    <3>3. \A i \in call[t].gone : Absent(i)'
      BY <2>5, <3>1 DEF Absent
    <3>4. CASE call[t].pc = "from"
      BY <2>1, <3>1, <3>2, <3>3, <3>4 DEF EndsAbsent, Same, At, Absent
    <3>5. CASE call[t].pc = "to"
      <4>1. call'[t].found => call[t].found
        BY <2>1
      <4>2. id = call[t].to
        BY <3>5 DEF At
      <4>3. call'[t].found => call[t].gone = {}
        BY <3>1, <3>2, <3>5, <4>1, <4>2
      <4> QED
        BY <2>1, <3>1, <3>3, <3>5, <4>3 DEF EndsAbsent, Same, At, Absent
    <3> QED
      BY <2>2, <3>4, <3>5
  <2>10. DeletingAbsent(t)'
    BY <2>1, <2>3 DEF DeletingAbsent, Deleting, Same
  <2> QED
    BY <1>0, <2>2, <2>4, <2>7, <2>8, <2>9, <2>10, AbsenceKept
<1>6. CASE InsertEdge(t)
  <2>1. UNCHANGED <<nodes, cache, file, gone>> /\ call[t].pc = "edge"
    BY <1>6 DEF InsertEdge, fileVars, At
  <2>2. call[t].op = "insert_edge"
    BY <2>1, CallType DEF CallInv, InCall, StepsOf, Call, Flushing
  <2>3. \/ call'[t] = NoCall
        \/ Same(call[t], call'[t]) /\ call'[t].pc = "sync"
    BY <1>6, InsertEdgeOwn
  <2>4. stray' = stray
    BY <1>6, <2>1, <2>2 DEF InsertEdge, EndsAbsent, Absence, At, CallInv, TypeOK
  <2>5. \A i \in Ids : Absent(i) => Absent(i)'
    BY <2>1 DEF Absent
  <2>6. /\ ~Importing(t)'
        /\ \A u \in Threads : u # t => call'[u].op = call[u].op /\ call'[u].pc = call[u].pc
    BY <1>0, <2>2, <2>3, OthersKept DEF SameCall, Same, Importing, NoCall
  <2>7. FileAgrees' /\ GoneAbsent'
    <3>1. NoImport' => NoImport
      BY <2>2, <2>6 DEF NoImport, Importing
    <3> QED
      BY <2>1, <2>2, <2>6, <3>1 DEF FileAgrees, GoneAbsent, Absence, Importing, At, Absent
  <2>8. DeletingAbsent(t)' /\ EndsAbsent(t)'
    BY <2>2, <2>3 DEF DeletingAbsent, EndsAbsent, Deleting, At, Same, NoCall
  <2> QED
    BY <1>0, <2>4, <2>5, <2>7, <2>8, AbsenceKept
<1> QED
  BY <1>1, <1>2, <1>3, <1>4, <1>5, <1>6 DEF NodeCalls

LEMMA AbsentFlush ==
  ASSUME CallInv, Apart, Apart', Calm, Calm', Absence, NEW t \in Threads, FlushCalls(t)
  PROVE  Absence'
<1>0. ThreadStep(t)
  BY DEF ThreadStep
<1>1. UNCHANGED <<nodes, cache, stray>> /\ file'.nodes = file.nodes
  BY DEF FlushCalls, Flush, TakeCount, CreateTemp, WriteHead, WriteEntries, RenameTemp, SyncHeader,
         memVars, fileVars, histVars, CallInv, TypeOK, File
<1>2. \A i \in Ids : Absent(i) => Absent(i)'
  BY <1>1 DEF Absent
<1>3. \A i \in Ids : Absent(i) => nodes'[i] = None /\ cache'[i] = None
  BY <1>1 DEF Absent
<1>4. CASE Flush(t)
  <2>1. call'[t].op = "flush" /\ gone' = gone /\ Idle(t)
    BY <1>4, FlushOwn DEF Flush, Starts
  <2>2. NoImport /\ NoImport'
    BY <1>0, <2>1, NoImports DEF Idle, Importing
  <2>3. FileAgrees' /\ GoneAbsent'
    BY <1>1, <2>1, <2>2 DEF FileAgrees, GoneAbsent, Absence, NoImport, Absent
  <2>4. DeletingAbsent(t)' /\ EndsAbsent(t)'
    BY <2>1 DEF DeletingAbsent, EndsAbsent, Deleting
  <2> QED
    BY <1>0, <1>1, <1>2, <2>3, <2>4, AbsenceKept
<1>5. CASE TakeCount(t) \/ CreateTemp(t) \/ WriteHead(t) \/ WriteEntries(t)
  <2>1. /\ Same(call[t], call'[t])
        /\ call[t].pc \in {"count", "create", "head", "entries"} /\ call'[t].pc \notin {"stores", "sync"}
    BY <1>5, TakeCountOwn, CreateTempOwn, WriteHeadOwn, WriteEntriesOwn
       DEF TakeCount, CreateTemp, WriteHead, WriteEntries, At
  <2>2. gone' = gone
    BY <1>5 DEF TakeCount, CreateTemp, WriteHead, WriteEntries, histVars
  <2>3. call[t].op # "insert_edge"
    BY <2>1 DEF CallInv, InCall, StepsOf
  <2>4. \A u \in Threads : call'[u].op = call[u].op /\ (call[u].pc = "stores" => call'[u].pc = "stores")
    BY <1>0, <2>1, OthersKept DEF SameCall, Same
  <2>5. \A u \in Threads : call'[u].pc = "stores" => call[u].pc = "stores"
    BY <1>0, <2>1, OthersKept DEF SameCall
  <2>6. FileAgrees' /\ GoneAbsent'
    BY <1>1, <2>2, <2>4, <2>5 DEF FileAgrees, GoneAbsent, Absence, NoImport, Importing, At, Absent
  <2>7. DeletingAbsent(t)' /\ EndsAbsent(t)'
    BY <1>1, <2>1, <2>3 DEF DeletingAbsent, EndsAbsent, Deleting, Absence, Same, Absent
  <2> QED
    BY <1>0, <1>1, <1>2, <2>6, <2>7, AbsenceKept
<1>6. CASE RenameTemp(t) \/ SyncHeader(t)
  <2>0. call[t].pc \in {"rename", "sync"}
    BY <1>6 DEF RenameTemp, SyncHeader, At
  <2>1. \/ call'[t] = NoCall /\ Released(t)
        \/ Same(call[t], call'[t]) /\ call'[t].pc \in {"sync", "count"} /\ gone' = gone
           /\ ~Importing(t)
    <3>1. CASE RenameTemp(t)
      BY <3>1, RenameTempOwn DEF RenameTemp
    <3>2. CASE SyncHeader(t)
      <4>1. CASE Deleting(t) /\ ~call[t].synced
        BY <3>2, <4>1, SyncHeaderOwn DEF SyncHeader, Deleting, Importing
      <4>2. CASE ~(Deleting(t) /\ ~call[t].synced)
        BY <3>2, <4>2, SyncHeaderOwn DEF SyncHeader
      <4> QED
        BY <4>1, <4>2
    <3> QED
      BY <1>6, <3>1, <3>2
  <2>2. \A u \in Threads : u # t => call'[u].op = call[u].op /\ call'[u].pc = call[u].pc
    BY <1>0, OthersKept DEF SameCall
  <2>3. call'[t].pc # "stores"
    BY <2>1 DEF NoCall
  <2>4. FileAgrees'
    <3>1. \A u \in Threads : Importing(u) /\ At(u, "stores") => Importing(u)' /\ At(u, "stores")'
      BY <2>0, <2>2 DEF Importing, At
    <3> QED
      BY <1>1, <3>1 DEF FileAgrees, Absence
  <2>5. GoneAbsent'
    <3> SUFFICES ASSUME NoImport', NEW id \in gone'
                 PROVE  Absent(id)'
      BY DEF GoneAbsent
    <3>1. CASE Importing(t)
      BY <2>1, <3>1 DEF Released, Importing, Deleting
    <3>2. CASE ~Importing(t)
      <4>1. NoImport
        BY <2>2, <3>2 DEF NoImport, Importing
      <4>2. gone' = gone \/ (Deleting(t) /\ gone' = gone \cup {call[t].id})
        BY <2>1, <3>2 DEF Released
      <4>3. Absent(id)
        BY <4>1, <4>2 DEF Absence, GoneAbsent, DeletingAbsent
      <4> QED
        BY <1>1, <4>3 DEF Absent
    <3> QED
      BY <3>1, <3>2
  <2>6. DeletingAbsent(t)'
    BY <1>1, <2>1 DEF DeletingAbsent, Deleting, Absence, Same, Absent, NoCall
  <2>7. EndsAbsent(t)'
    <3>1. CASE call'[t] = NoCall
      BY <3>1 DEF EndsAbsent, NoCall
    <3>2. CASE Same(call[t], call'[t]) /\ call'[t].pc = "sync"
      BY <3>2 DEF EndsAbsent, At
    <3>3. CASE Same(call[t], call'[t]) /\ call'[t].pc = "count"
      <4>1. InCall(t)'
        BY <1>0, OwnInCall
      <4>2. call'[t].op # "insert_edge"
        BY <3>3, <4>1 DEF InCall, StepsOf
      <4> QED
        BY <4>2 DEF EndsAbsent
    <3> QED
      BY <2>1, <3>1, <3>2, <3>3
  <2> QED
    BY <1>0, <1>1, <1>2, <2>4, <2>5, <2>6, <2>7, AbsenceKept
<1> QED
  BY <1>4, <1>5, <1>6 DEF FlushCalls

LEMMA AbsentSnapshots ==
  ASSUME CallInv, Apart, Apart', Calm, Calm', Absence, NEW t \in Threads, SnapshotCalls(t)
  PROVE  Absence'
<1>0. ThreadStep(t)
  BY DEF ThreadStep
<1>1. UNCHANGED <<gone, stray>>
  BY DEF SnapshotCalls, ExportHeader, ExportPages, ImportCopy, ImportStores, ImportHeader,
         ImportRebuild, histVars
<1>2. CASE ExportHeader(t) \/ ExportPages(t)
  <2>1. UNCHANGED <<nodes, cache, file>> /\ (Idle(t) \/ call[t].pc = "pages")
    BY <1>2 DEF ExportHeader, ExportPages, memVars, fileVars, Starts, At
  <2>2. call'[t].op \in {"snapshot_export", "none"} /\ call'[t].pc \in {"pages", "none"}
    BY <1>2, ExportHeaderOwn, ExportPagesOwn DEF NoCall
  <2>3. call[t].op \in {"snapshot_export", "none"}
    BY <2>1, CallType DEF CallInv, InCall, StepsOf, Flushing, Idle, Call
  <2>4. \A u \in Threads : Importing(u)' = Importing(u) /\ (Importing(u) => call'[u].pc = call[u].pc)
    BY <1>0, <2>2, <2>3, OthersKept DEF SameCall, Importing
  <2>5. FileAgrees' /\ GoneAbsent'
    BY <1>1, <2>1, <2>4 DEF FileAgrees, GoneAbsent, Absence, NoImport, At, Absent
  <2>6. DeletingAbsent(t)' /\ EndsAbsent(t)'
    BY <2>2 DEF DeletingAbsent, EndsAbsent, Deleting
  <2>7. \A i \in Ids : Absent(i) => Absent(i)'
    BY <2>1 DEF Absent
  <2> QED
    BY <1>0, <1>1, <2>5, <2>6, <2>7, AbsenceKept
<1>3. CASE ImportCopy(t) \/ ImportStores(t) \/ ImportHeader(t) \/ ImportRebuild(t)
  <2>1. /\ call'[t].op = "snapshot_import"
        /\ call'[t].pc = "stores" <=> ImportCopy(t)
        /\ call[t].pc = "stores" => ImportStores(t)
    <3>1. CASE ImportCopy(t)
      BY <3>1, ImportCopyOwn DEF ImportCopy, Starts, Idle, CallInv, InCall, StepsOf
    <3>2. CASE ~ImportCopy(t)
      <4>1. call[t].pc \in {"stores", "header", "rebuild"} /\ Same(call[t], call'[t])
            /\ call'[t].pc \in {"header", "rebuild", "create"} /\ (call[t].pc = "stores" => ImportStores(t))
        BY <1>3, <3>2, ImportStoresOwn, ImportHeaderOwn, ImportRebuildOwn
           DEF ImportStores, ImportHeader, ImportRebuild, At
      <4>2. call[t].op = "snapshot_import"
        BY <4>1, CallType DEF CallInv, InCall, StepsOf, Flushing, Call
      <4> QED
        BY <3>2, <4>1, <4>2 DEF Same
    <3> QED
      BY <3>1, <3>2
  <2>2. \A u \in Threads : u # t => Idle(u)'
    BY <2>1 DEF Apart, Calm, Importing
  <2>3. GoneAbsent'
    BY <2>1 DEF GoneAbsent, NoImport, Importing
  <2>4. \A u \in Threads : DeletingAbsent(u)' /\ EndsAbsent(u)'
    BY <2>1, <2>2 DEF DeletingAbsent, EndsAbsent, Deleting, Idle
  <2>5. FileAgrees'
    <3>1. CASE ImportCopy(t)
      BY <2>1, <3>1 DEF FileAgrees, Importing, At
    <3>2. CASE ImportStores(t)
      BY <3>2 DEF FileAgrees, ImportStores, CallInv, TypeOK, File
    <3>3. CASE ImportHeader(t) \/ ImportRebuild(t)
      <4>1. nodes' = nodes /\ file' = file /\ call[t].pc # "stores"
        BY <3>3 DEF ImportHeader, ImportRebuild, fileVars, At
      <4>2. \A u \in Threads : u # t => ~Importing(u)
        BY <1>0, <2>2, OthersKept DEF SameCall, Importing, Idle
      <4> QED
        BY <4>1, <4>2 DEF FileAgrees, Absence, At
    <3> QED
      BY <1>3, <3>1, <3>2, <3>3
  <2> QED
    BY <1>1, <2>3, <2>4, <2>5 DEF Absence
<1> QED
  BY <1>2, <1>3 DEF SnapshotCalls

LEMMA AbsentCrash ==
  ASSUME CallInv, Calm, Calm', Absence, CrashAndOpen
  PROVE  Absence'
<1>1. call' = [t \in Threads |-> NoCall] /\ stray' = stray
  BY DEF CrashAndOpen
<1>2. \A t \in Threads : ~Importing(t) /\ ~Deleting(t)
  BY DEF CrashAndOpen, Calm, If
<1>3. gone' = gone
  BY <1>2 DEF CrashAndOpen
<1>4. nodes' = Found /\ file'.nodes = Found /\ \A id \in Ids : cache'[id] \in {Found[id], None}
  BY DEF CrashAndOpen, CallInv, TypeOK, File
<1>5. nodes = file.nodes /\ \A id \in gone : Absent(id)
  BY <1>2 DEF Absence, FileAgrees, GoneAbsent, NoImport
<1>6. \A id \in Ids : Absent(id) => Found[id] = None
  BY <1>5 DEF Absent, Found, Empty
<1>7. GoneAbsent'
  BY <1>3, <1>4, <1>5, <1>6 DEF GoneAbsent, Absent, CallInv, TypeOK
<1>8. \A t \in Threads : DeletingAbsent(t)' /\ EndsAbsent(t)'
  BY <1>1 DEF DeletingAbsent, EndsAbsent, Deleting, NoCall
<1> QED
  BY <1>1, <1>4, <1>7, <1>8 DEF Absence, FileAgrees

LEMMA AbsentStep == CallInv /\ Apart /\ Apart' /\ AbsentInv /\ [Next]_vars => AbsentInv'
<1> SUFFICES ASSUME CallInv, Apart, Apart', AbsentInv, [Next]_vars, Calm'
             PROVE  Absence'
  BY DEF AbsentInv
<1>1. CASE UNCHANGED vars
  BY <1>1 DEF vars, Calm, AbsentInv, Absence, FileAgrees, GoneAbsent, NoImport, DeletingAbsent,
              EndsAbsent,
              Absent, Importing, Deleting, At
<1>2. CASE Next
  <2>1. Calm /\ Absence
    BY <1>2, CalmBefore DEF AbsentInv
  <2>2. ASSUME NEW t \in Threads, NodeCalls(t) \/ FlushCalls(t) \/ SnapshotCalls(t)
        PROVE  Absence'
    BY <2>1, <2>2, AbsentNodes, AbsentFlush, AbsentSnapshots
  <2> QED
    BY <1>2, <2>1, <2>2, AbsentCrash DEF Next
<1> QED
  BY <1>1, <1>2

LEMMA AbsentInit == Init => Apart /\ AbsentInv
<1> SUFFICES ASSUME Init
             PROVE  Apart /\ Absence
  BY DEF AbsentInv
<1>1. \A t \in Threads : call[t].op = "none" /\ call[t].pc = "none"
  BY DEF Init, NoCall
<1>2. Apart
  BY <1>1 DEF Apart, Importing, Persisting
<1>3. FileAgrees /\ GoneAbsent /\ ~stray
  BY DEF Init, FileAgrees, GoneAbsent
<1>4. \A t \in Threads : DeletingAbsent(t) /\ EndsAbsent(t)
  BY <1>1 DEF DeletingAbsent, EndsAbsent, Deleting
<1> QED
  BY <1>2, <1>3, <1>4 DEF Absence

\* insert_edge reads both ends, through the cache and with no lock held between
\* the reads and the insert; still no edge reaches a node whose delete_entity had
\* returned before the call began, unless an event or a race that Events and Races
\* list has happened.
THEOREM EdgesEndAtNodes == Spec => []NoEdgeToDeletedNode
<1>1. Init => CallInv /\ Apart /\ AbsentInv
  BY CallInit, AbsentInit
<1>2. CallInv /\ Apart /\ AbsentInv /\ [Next]_vars => CallInv' /\ Apart' /\ AbsentInv'
  BY CallStep, ApartStep, AbsentStep
<1>3. AbsentInv => NoEdgeToDeletedNode
  BY DEF AbsentInv, Absence, Calm, NoEdgeToDeletedNode
<1> QED
  BY <1>1, <1>2, <1>3, PTL DEF Spec

-----------------------------------------------------------------------------
(* ListedInv is inductive, together with SnapInv *)

\* Only get_node is called while another thread imports.
LEMMA Alone ==
  ASSUME CallInv, Apart, Apart', Calm, Calm', NEW t \in Threads, ThreadStep(t), ~Gets(t),
         NEW u \in Threads, u # t
  PROVE  ~Importing(u) /\ ~Importing(u)'
<1>1. Importing(u) <=> Importing(u)'
  BY OthersKept DEF SameCall, Importing
<1> SUFFICES ASSUME Importing(u)
             PROVE  FALSE
  BY <1>1
<1>2. Idle(t) /\ Idle(t)'
  BY <1>1 DEF Apart, Calm
<1>3. call[t].pc = "none"
  BY <1>2 DEF Idle, CallInv, InCall, StepsOf
<1>4. CASE NodeCalls(t)
  <2>1. ~(Inserts(t) \/ Updates(t) \/ Deletes(t) \/ Begins(t))
    BY <1>2, InsertNodeOwn, UpdateNodeOwn, DeleteEntityOwn, BeginEdgeOwn
       DEF Idle, Inserts, Updates, Deletes, Begins
  <2> QED
    BY <1>3, <1>4, <2>1 DEF NodeCalls, Gets, Inserts, Updates, Deletes, Begins, CheckEnd,
                            InsertEdge, At
<1>5. CASE FlushCalls(t)
  <2>1. ~Flush(t)
    BY <1>2, FlushOwn DEF Idle
  <2> QED
    BY <1>3, <1>5, <2>1 DEF FlushCalls, TakeCount, CreateTemp, WriteHead, WriteEntries, RenameTemp,
                            SyncHeader, At
<1>6. CASE SnapshotCalls(t)
  <2>1. ~ExportHeader(t) /\ ~ImportCopy(t)
    BY <1>2, ExportHeaderOwn, ImportCopyOwn DEF Idle
  <2> QED
    BY <1>3, <1>6, <2>1 DEF SnapshotCalls, ExportPages, ImportStores, ImportHeader,
                            ImportRebuild, At
<1> QED
  BY <1>4, <1>5, <1>6 DEF ThreadStep

LEMMA OthersWriting ==
  ASSUME CallInv, NEW t \in Threads, ThreadStep(t), NEW u \in Threads, u # t, Writing(u),
         temp' = temp, ~RenameTemp(t)
  PROVE  Writing(u)'
BY OthersKept, OthersFd DEF Writing, SameCall, At

LEMMA NotWriting ==
  ASSUME NEW t \in Threads, ~Persisting(t)'
  PROVE  Writing(t)'
BY DEF Writing, Persisting, At

\* What a larger count does not uncover.
LEMMA CoversKept ==
  ASSUME CallInv, header'.nodes \in Nat,
         header.nodes <= header'.nodes, file.header.nodes <= file'.header.nodes,
         file'.header.nodes \in Nat,
         \A id \in Ids : promised'[id] # None => promised'[id] = promised[id]
  PROVE  \A count \in Nat, index \in Index :
           /\ Covers(count, index)
           /\ \A u \in Threads : Inserting(u)' =>
                \/ Inserting(u) /\ call'[u].id = call[u].id /\ call'[u].kind = call[u].kind
                \/ count < header'.nodes
           => Covers(count, index)'
<1>1. header.nodes \in Nat /\ file.header.nodes \in Nat
  BY DEF CallInv, TypeOK, Header, File
<1> SUFFICES ASSUME NEW count \in Nat, NEW index \in Index, Covers(count, index),
                    \A u \in Threads : Inserting(u)' =>
                      \/ Inserting(u) /\ call'[u].id = call[u].id /\ call'[u].kind = call[u].kind
                      \/ count < header'.nodes
             PROVE  Covers(count, index)'
  OBVIOUS
<1>2. count <= header'.nodes
  BY <1>1 DEF Covers
<1>3. \A id \in Ids : promised'[id] # None /\ index[promised'[id]][id] # 1 => count < file'.header.nodes
  BY <1>1 DEF Covers
<1>4. \A u \in Threads : Inserting(u)' /\ index[call'[u].kind][call'[u].id] # 1 => count < header'.nodes
  BY <1>1 DEF Covers
<1> QED
  BY <1>2, <1>3, <1>4 DEF Covers

\* The count is a number, and the index is one, wherever they are covered.
LEMMA CoveredTypes ==
  ASSUME CallInv, Listing
  PROVE  /\ sidecar # None => sidecar.count \in Nat /\ sidecar.kinds \in Index
         /\ \A u \in Threads : /\ call[u].count \in Nat
                               /\ At(u, "entries") \/ At(u, "rename") => call[u].kinds \in Index
<1>1. \A u \in Threads : call[u].count \in Nat
  BY CallType DEF Call
<1> QED
  BY <1>1 DEF Listing, Complete, Writing

LEMMA ListedInsert ==
  ASSUME CallInv, Apart, Apart', Calm, Calm', Listing, NEW t \in Threads, NEW k \in Kinds,
         InsertNode(t, k)
  PROVE  Listing'
<1>0. ThreadStep(t)
  BY DEF ThreadStep, NodeCalls
<1>1. /\ call'[t].op = "insert_node" /\ call'[t].pc = "sync" /\ call'[t].id = nextId
      /\ call'[t].kind = k
  BY InsertNodeOwn
<1>2. /\ Idle(t) /\ Unlocked(t) /\ nextId \in Ids /\ UNCHANGED <<sidecar, temp, promised>>
      /\ nodes' = [nodes EXCEPT ![nextId] = k] /\ kinds' = [kinds EXCEPT ![k][nextId] = @ + 1]
  BY DEF InsertNode, Starts
<1>3. /\ header'.nodes = header.nodes + 1 /\ header'.root /\ header.nodes \in Nat
      /\ file'.header = file.header /\ file.header.nodes \in Nat
  <2>1. header \in Header /\ file \in File
    BY DEF CallInv, TypeOK
  <2>2. header' = [header EXCEPT !.nodes = header.nodes + 1, !.root = TRUE]
    BY Zenon DEF InsertNode
  <2>3. header'.nodes = header.nodes + 1 /\ header'.root
    BY <2>1, <2>2 DEF Header
  <2>4. file'.header = file.header
    BY <2>1 DEF InsertNode, File
  <2> QED
    BY <2>1, <2>3, <2>4 DEF Header, File
<1>4. NoImport /\ NoImport'
  BY <1>0, <1>1, <1>2, NoImports DEF Idle, Importing
<1>5. nodes[nextId] = None /\ ~Listed(nextId)
  BY DEF InsertNode, If, Calm
<1>6. /\ \A l \in AllKinds : kinds[l][nextId] = 0
      /\ \A l \in AllKinds, id \in Ids : id # nextId => kinds'[l][id] = kinds[l][id]
      /\ kinds'[k][nextId] = 1
  BY <1>2, <1>5 DEF Listed, CallInv, TypeOK, Index, AllKinds
<1>7. \A u \in Threads : ~Deleting(u) /\ ~Deleting(u)'
  <2>1. \A u \in Threads : ~Deleting(u)
    BY <1>2, V3GraphAssumption DEF CallInv, InCall, Unlocked, Holding, Deleting, Idle
  <2> QED
    BY <1>0, <1>1, <2>1, OthersKept DEF Deleting, SameCall
<1>8. ASSUME NEW id \in Ids
      PROVE  PromisedListed(id)'
  <2>1. PromisedListed(id) /\ promised[id] \in AllKinds \cup {None}
    BY <1>4 DEF Listing, CallInv, TypeOK, NodeMap
  <2>2. promised[id] # None => id # nextId
    BY <1>5, <2>1 DEF PromisedListed
  <2> QED
    BY <1>2, <1>3, <1>6, <2>1, <2>2 DEF PromisedListed, CallInv, TypeOK, NodeMap
<1>9. ASSUME NEW u \in Threads
      PROVE  InsertedListed(u)'
  <2>1. CASE u = t
    BY <1>1, <1>3, <1>6, <2>1 DEF InsertedListed
  <2>2. CASE u # t
    <3>1. SameCall(u) /\ InsertedListed(u) /\ InCall(u)
      BY <1>0, <1>4, <2>2, OthersKept DEF Listing, CallInv
    <3>2. Inserting(u) => call[u].id # nextId /\ call[u].id \in Ids /\ call[u].kind \in AllKinds
      BY <1>6, <3>1 DEF InsertedListed, InCall
    <3> QED
      BY <1>3, <1>6, <3>1, <3>2 DEF InsertedListed, SameCall, Inserting
  <2> QED
    BY <2>1, <2>2
<1>10. /\ sidecar # None => Complete(sidecar)
       /\ file.header.nodes <= header.nodes
       /\ sidecar # None => Covers(sidecar.count, sidecar.kinds)
       /\ \A u \in Threads : Counted(u)
  BY <1>4, <1>7 DEF Listing, Steady, Shrinking
<1>11. \A count \in Nat, index \in Index : Covers(count, index) => Covers(count, index)'
  <2>1. \A count \in Nat, index \in Index : Covers(count, index) => count < header'.nodes
    BY <1>3 DEF Covers
  <2> QED
    BY <1>2, <1>3, <2>1, CoversKept
<1>12. sidecar' # None => Covers(sidecar.count, sidecar.kinds)'
  BY <1>2, <1>10, <1>11 DEF Complete, Covers
<1>13. ASSUME NEW u \in Threads
       PROVE  Counted(u)'
  <2>1. CASE u = t
    BY <1>1, <2>1 DEF Counted, Persisting, At
  <2>2. CASE u # t
    <3>1. SameCall(u) /\ call[u].count \in Nat
          /\ (At(u, "entries") \/ At(u, "rename") => call[u].kinds \in Index)
      BY <1>0, <2>2, OthersKept, CoveredTypes
    <3>2. Persisting(u)' => call'[u].count <= header'.nodes
      BY <1>3, <1>10, <3>1 DEF Counted, SameCall, Persisting
    <3>3. ASSUME At(u, "entries")' \/ At(u, "rename")'
          PROVE  Covers(call[u].count, call[u].kinds)'
      <4>1. At(u, "entries") \/ At(u, "rename")
        BY <3>1, <3>3 DEF SameCall, At
      <4>2. PICK count \in Nat, index \in Index : count = call[u].count /\ index = call[u].kinds
        BY <3>1, <4>1
      <4>3. Covers(count, index)
        BY <1>10, <4>1, <4>2 DEF Counted
      <4>4. Covers(count, index)'
        BY <1>11, <4>3
      <4>5. count = call'[u].count /\ index = call'[u].kinds
        BY <3>1, <4>2 DEF SameCall
      <4> QED
        BY <4>4, <4>5 DEF Covers
    <3> QED
      BY <3>2, <3>3 DEF Counted
  <2> QED
    BY <2>1, <2>2
<1>14. ASSUME NEW u \in Threads
       PROVE  Writing(u)'
  BY <1>0, <1>1, <1>2, OthersWriting DEF Listing, Writing, At, InsertNode, RenameTemp, Idle
<1>15. \A u \in Threads : Shrinks(u)'
  BY <1>7 DEF Shrinks, Shrinking
<1> QED
  BY <1>2, <1>3, <1>8, <1>9, <1>10, <1>12, <1>13, <1>14, <1>15 DEF Listing, Complete

\* Steps that leave index, sidecar and the header of the file: what is left to show
\* is what they do to the call of their thread.
LEMMA ListedBy ==
  ASSUME CallInv, Listing, NEW t \in Threads, ThreadStep(t), ~RenameTemp(t),
         kinds' = kinds, sidecar' = sidecar, file'.header = file.header,
         header'.root = header.root,
         \A id \in Ids : promised'[id] # None =>
           promised'[id] = promised[id] /\ nodes'[id] = nodes[id],
         temp' = temp \/ \A u \in Threads : u # t => ~Persisting(u)',
         \/ header'.nodes = header.nodes
         \/ (~Steady' /\ \A u \in Threads : u # t => ~Deleting(u)'),
         NoImport' => NoImport, Steady' => Steady,
         ~Inserting(t)', Steady' => Counted(t)', Writing(t)', Shrinks(t)'
  PROVE  Listing'
<1>1. header.nodes \in Nat /\ file.header.nodes \in Nat
  BY DEF CallInv, TypeOK, Header, File
<1>2. \A u \in Threads : u # t => SameCall(u)
  BY OthersKept
<1>3. ASSUME NoImport', NEW id \in Ids
      PROVE  PromisedListed(id)'
  <2>1. PromisedListed(id)
    BY <1>3 DEF Listing
  <2> QED
    BY <2>1 DEF PromisedListed
<1>4. ASSUME NoImport', NEW u \in Threads
      PROVE  InsertedListed(u)'
  <2>1. InsertedListed(u)
    BY <1>4 DEF Listing
  <2> QED
    BY <1>2, <2>1 DEF InsertedListed, SameCall, Inserting
<1>5. ASSUME Steady'
      PROVE  /\ file'.header.nodes <= header'.nodes
             /\ sidecar' # None => Covers(sidecar.count, sidecar.kinds)'
             /\ \A u \in Threads : Counted(u)'
  <2>1. /\ header'.nodes = header.nodes /\ file.header.nodes <= header.nodes
        /\ sidecar # None => Covers(sidecar.count, sidecar.kinds)
        /\ \A u \in Threads : Counted(u)
    BY <1>5 DEF Listing
  <2>2. \A count \in Nat, index \in Index : Covers(count, index) => Covers(count, index)'
    <3>1. \A u \in Threads : Inserting(u)' =>
            Inserting(u) /\ call'[u].id = call[u].id /\ call'[u].kind = call[u].kind
      BY <1>2 DEF SameCall, Inserting
    <3> QED
      BY <1>1, <2>1, <3>1, CoversKept
  <2>3. sidecar' # None => Covers(sidecar.count, sidecar.kinds)'
    BY <2>1, <2>2 DEF Listing, Complete, Covers
  <2>4. ASSUME NEW u \in Threads, u # t
        PROVE  Counted(u)'
    <3>1. SameCall(u) /\ call[u].count \in Nat
          /\ (At(u, "entries") \/ At(u, "rename") => call[u].kinds \in Index)
      BY <1>2, <2>4, CoveredTypes
    <3>2. Persisting(u)' => call'[u].count <= header'.nodes
      BY <2>1, <3>1 DEF Counted, SameCall, Persisting
    <3>3. ASSUME At(u, "entries")' \/ At(u, "rename")'
          PROVE  Covers(call[u].count, call[u].kinds)'
      <4>1. At(u, "entries") \/ At(u, "rename")
        BY <3>1, <3>3 DEF SameCall, At
      <4>2. PICK count \in Nat, index \in Index : count = call[u].count /\ index = call[u].kinds
        BY <3>1, <4>1
      <4>3. Covers(count, index)
        BY <2>1, <4>1, <4>2 DEF Counted
      <4>4. Covers(count, index)'
        BY <2>2, <4>3
      <4>5. count = call'[u].count /\ index = call'[u].kinds
        BY <3>1, <4>2 DEF SameCall
      <4> QED
        BY <4>4, <4>5 DEF Covers
    <3> QED
      BY <3>2, <3>3 DEF Counted
  <2> QED
    BY <1>5, <2>1, <2>3, <2>4
<1>6. ASSUME NEW u \in Threads, u # t
      PROVE  Writing(u)' /\ Shrinks(u)'
  <2>1. Writing(u)'
    BY <1>6, OthersWriting, NotWriting DEF Listing
  <2>2. Shrinks(u)'
    <3>1. SameCall(u) /\ Shrinks(u)
      BY <1>2, <1>6 DEF Listing
    <3>2. CASE header'.nodes = header.nodes
      BY <3>1, <3>2 DEF Shrinks, Shrinking, Exact, Deleting, SameCall, Persisting, At
    <3>3. CASE ~Deleting(u)'
      BY <3>3 DEF Shrinks, Shrinking
    <3> QED
      BY <1>6, <3>2, <3>3
  <2> QED
    BY <2>1, <2>2
<1>7. sidecar' # None => Complete(sidecar)'
  BY DEF Listing, Complete
<1> QED
  BY <1>3, <1>4, <1>5, <1>6, <1>7 DEF Listing

LEMMA ListedNodes ==
  ASSUME CallInv, Apart, Apart', Calm, Calm', Listing, NEW t \in Threads, NodeCalls(t)
  PROVE  Listing'
<1>0. ThreadStep(t)
  BY DEF ThreadStep
<1>t. header \in Header /\ header.nodes \in Nat /\ file \in File /\ nodes \in NodeMap /\ promised \in NodeMap
  BY DEF CallInv, TypeOK, Header
<1>1. ASSUME NEW k \in Kinds, InsertNode(t, k)
      PROVE  Listing'
  BY <1>1, ListedInsert
<1>2. ASSUME NEW id \in Ids, GetNode(t, id)
      PROVE  Listing'
  BY <1>2 DEF GetNode, fileVars, histVars, Listing, NoImport, Steady, Shrinking, PromisedListed,
              InsertedListed, Counted, Covers, Complete, Writing, Shrinks, Exact, Importing, Inserting,
              Deleting, Persisting, At
<1>3. ASSUME NEW id \in Ids, UpdateNode(t, id) \/ DeleteEntity(t, id)
      PROVE  Listing'
  <2>1. /\ call'[t].op \in {"update_node", "delete_entity"} /\ call'[t].id = id
        /\ call'[t].pc \in {"count", "sync"}
        /\ call'[t].op = "delete_entity" => DeleteEntity(t, id) /\ call'[t].pc = "sync" /\ ~call'[t].synced
        /\ Idle(t) /\ Unlocked(t)
    <3>1. CASE UpdateNode(t, id)
      BY <3>1, UpdateNodeOwn DEF UpdateNode, Starts
    <3>2. CASE DeleteEntity(t, id)
      BY <3>2, DeleteEntityOwn DEF DeleteEntity, Starts
    <3> QED
      BY <1>3, <3>1, <3>2
  <2>2. NoImport /\ NoImport'
    BY <1>0, <2>1, NoImports DEF Idle, Importing
  <2>3. \A u \in Threads : ~Deleting(u) /\ (u # t => ~Deleting(u)')
    <3>1. \A u \in Threads : ~Deleting(u)
      BY <2>1, V3GraphAssumption DEF CallInv, InCall, Unlocked, Holding, Deleting, Idle
    <3> QED
      BY <1>0, <3>1, OthersKept DEF Deleting, SameCall
  <2>4. /\ kinds' = kinds /\ sidecar' = sidecar /\ temp' = temp
        /\ promised' = [promised EXCEPT ![id] = None]
        /\ \A i \in Ids : i # id => nodes'[i] = nodes[i]
    BY <1>3, <1>t DEF UpdateNode, DeleteEntity, NodeMap
  <2>5. \A i \in Ids : promised'[i] # None => promised'[i] = promised[i] /\ nodes'[i] = nodes[i]
    BY <1>t, <2>4 DEF NodeMap
  <2>6. file'.header = file.header /\ header'.root = header.root
    BY <1>3, <1>t DEF UpdateNode, DeleteEntity, File, Header
  <2>7. header' = header \/ Shrinking(t)'
    BY <1>3, <2>1, UpdateNodeOwn, DeleteEntityOwn DEF UpdateNode, DeleteEntity, Shrinking, Deleting
  <2>8. ~RenameTemp(t)
    BY <2>1 DEF RenameTemp, CallInv, InCall, StepsOf, Idle, At
  <2>9. Steady /\ (Steady' => header' = header)
    BY <2>2, <2>3, <2>7 DEF Steady, Shrinking
  <2>10. header'.nodes = header.nodes \/ (~Steady' /\ \A u \in Threads : u # t => ~Deleting(u)')
    BY <2>3, <2>9
  <2>11. ~Inserting(t)' /\ Counted(t)' /\ Writing(t)' /\ Shrinks(t)'
    BY <2>1 DEF Inserting, Counted, Writing, Shrinks, Shrinking, Exact, Persisting, Deleting, At
  <2> QED
    BY <1>0, <2>2, <2>4, <2>5, <2>6, <2>8, <2>9, <2>10, <2>11, ListedBy
<1>4. ASSUME Begins(t) \/ CheckEnd(t) \/ InsertEdge(t)
      PROVE  Listing'
  <2>1. /\ call[t].op \in {"none", "insert_edge"} /\ call'[t].op \in {"none", "insert_edge"}
        /\ call[t].pc \in {"none", "from", "to", "edge"}
        /\ call'[t].pc \in {"none", "from", "to", "edge", "sync"}
    <3>1. CASE Begins(t)
      <4>1. PICK a, b \in Ids : BeginEdge(t, a, b)
        BY <3>1 DEF Begins
      <4>2. Idle(t)
        BY <4>1 DEF BeginEdge, Starts
      <4>3. call'[t].op = "insert_edge" /\ call'[t].pc = "from"
        BY <4>1, BeginEdgeOwn
      <4>4. call[t].pc = "none"
        BY <4>2 DEF Idle, CallInv, InCall, StepsOf
      <4> QED
        BY <4>2, <4>3, <4>4 DEF Idle
    <3>2. CASE CheckEnd(t) \/ InsertEdge(t)
      <4>1. call[t].pc \in {"from", "to", "edge"}
        BY <3>2 DEF CheckEnd, InsertEdge, At
      <4>2. call[t].op = "insert_edge"
        BY <4>1, CallType DEF CallInv, InCall, StepsOf, Flushing, Call
      <4> QED
        <5>1. CASE CheckEnd(t)
          BY <4>1, <4>2, <5>1, CheckEndOwn DEF Same
        <5>2. CASE InsertEdge(t)
          BY <4>1, <4>2, <5>2, InsertEdgeOwn DEF Same, NoCall
        <5> QED
          BY <3>2, <5>1, <5>2
    <3> QED
      BY <1>4, <3>1, <3>2
  <2>2. UNCHANGED <<nodes, kinds, file, sidecar, temp, promised>>
    BY <1>4 DEF Begins, BeginEdge, CheckEnd, InsertEdge, memVars, fileVars, histVars
  <2>3. header'.nodes = header.nodes /\ header'.root = header.root
    BY <1>4, <1>t DEF Begins, BeginEdge, CheckEnd, InsertEdge, memVars, Header
  <2>4. (NoImport' => NoImport) /\ (Steady' => Steady)
    BY <1>0, <2>1, OthersKept DEF NoImport, Importing, Steady, Shrinking, Deleting, SameCall, At
  <2>5. ~RenameTemp(t)
    BY <2>1 DEF RenameTemp, At
  <2>6. ~Inserting(t)' /\ Counted(t)' /\ Writing(t)' /\ Shrinks(t)'
    BY <2>1 DEF Inserting, Counted, Writing, Shrinks, Shrinking, Persisting, Deleting, At
  <2> QED
    BY <1>0, <2>2, <2>3, <2>4, <2>5, <2>6, ListedBy
<1> QED
  BY <1>1, <1>2, <1>3, <1>4 DEF NodeCalls, Begins

\* A flush up to the rename.
LEMMA ListedWrites ==
  ASSUME CallInv, Apart, Apart', Calm, Calm', Listing, NEW t \in Threads,
         Flush(t) \/ TakeCount(t) \/ CreateTemp(t) \/ WriteHead(t) \/ WriteEntries(t)
  PROVE  Listing'
<1>0. ThreadStep(t)
  BY DEF ThreadStep, FlushCalls
<1>1. /\ UNCHANGED <<nodes, kinds, header, file, promised>>
      /\ header.nodes \in Nat /\ call[t].count \in Nat /\ kinds \in Index
  BY CallType DEF Flush, TakeCount, CreateTemp, WriteHead, WriteEntries, memVars, fileVars,
                  histVars,
                  CallInv, TypeOK, Header, Call
<1>2. CASE Flush(t)
  <2>1. Idle(t) /\ call'[t].op = "flush" /\ call'[t].pc = "count" /\ UNCHANGED <<sidecar, temp>>
    BY <1>2, FlushOwn DEF Flush, Starts, fileVars
  <2>2. (NoImport' => NoImport) /\ (Steady' => Steady)
    BY <1>0, <2>1, OthersKept DEF NoImport, Importing, Steady, Shrinking, Deleting, SameCall, At,
                                  Idle
  <2>3. ~RenameTemp(t)
    BY <2>1 DEF RenameTemp, At, Idle, CallInv, InCall, StepsOf
  <2>4. ~Inserting(t)' /\ Counted(t)' /\ Writing(t)' /\ Shrinks(t)'
    BY <2>1 DEF Inserting, Counted, Writing, Shrinks, Shrinking, Persisting, Deleting, At
  <2> QED
    BY <1>0, <1>1, <2>1, <2>2, <2>3, <2>4, ListedBy
<1>3. CASE ~Flush(t)
  <2>1. /\ Same(call[t], call'[t]) /\ call'[t].synced = call[t].synced
        /\ call[t].pc \in {"count", "create", "head", "entries"}
        /\ call'[t].pc \in {"create", "head", "entries", "rename"}
    BY <1>2, <1>3, TakeCountOwn, CreateTempOwn, WriteHeadOwn, WriteEntriesOwn
       DEF TakeCount, CreateTemp, WriteHead, WriteEntries, At
  <2>2. (NoImport' => NoImport) /\ (Steady' => Steady)
    <3>1. \A u \in Threads : call'[u].op = call[u].op
      BY <1>0, <2>1, OthersKept DEF SameCall, Same
    <3>2. \A u \in Threads : Shrinking(u) => Shrinking(u)'
      BY <1>0, <2>1, OthersKept DEF Shrinking, Deleting, SameCall, Same, At
    <3> QED
      BY <3>1, <3>2 DEF NoImport, Steady, Importing
  <2>3. ~RenameTemp(t)
    BY <2>1 DEF RenameTemp, At
  <2>4. ~Inserting(t)'
    BY <2>1 DEF Inserting, Same, CallInv, InCall, StepsOf
  <2>5. \A u \in Threads : u # t => ~Persisting(u)'
    BY <2>1 DEF Apart, Calm, Persisting
  <2>6. /\ Shrinking(t) <=> Shrinking(t)'
        /\ Writing(t) /\ Shrinks(t) /\ (Steady => Counted(t))
    BY <2>1 DEF Listing, Shrinking, Deleting, Same, At
  <2>7. CASE TakeCount(t)
    <3>1. call'[t].pc = "create" /\ call'[t].count = header.nodes /\ UNCHANGED <<sidecar, temp>>
      BY <2>7, TakeCountOwn DEF TakeCount, fileVars
    <3>2. Counted(t)' /\ Writing(t)'
      BY <1>1, <3>1 DEF Counted, Writing, Persisting, At
    <3>3. Shrinks(t)'
      BY <1>1, <2>1, <2>6, <3>1 DEF Shrinks, Exact, Persisting, At
    <3> QED
      BY <1>0, <1>1, <2>2, <2>3, <2>4, <3>1, <3>2, <3>3, ListedBy
  <2>8. CASE CreateTemp(t)
    <3>1. /\ call[t].pc = "create" /\ call'[t].pc = "head" /\ call'[t].fd = "temp"
          /\ call'[t].count = call[t].count /\ UNCHANGED sidecar
      BY <2>8, CreateTempOwn DEF CreateTemp, At
    <3>2. (Steady' => Counted(t)') /\ Writing(t)'
      BY <1>1, <2>2, <2>6, <3>1 DEF Counted, Writing, Persisting, At
    <3>3. Shrinks(t)'
      BY <1>1, <2>1, <2>6, <3>1 DEF Shrinks, Exact, Persisting, At
    <3> QED
      BY <1>0, <1>1, <2>2, <2>3, <2>4, <2>5, <3>1, <3>2, <3>3, ListedBy
  <2>9. CASE WriteHead(t)
    <3>1. /\ call[t].pc = "head" /\ call'[t].pc = "entries" /\ call'[t].fd = call[t].fd
          /\ call'[t].count = call[t].count /\ call'[t].kinds = kinds /\ call[t].fd = "temp"
          /\ temp \in Sidecar
      BY <2>6, <2>9, WriteHeadOwn DEF WriteHead, At, Writing, CallInv, FileThere
    <3>2. temp' = [temp EXCEPT !.count = call[t].count] /\ sidecar' = sidecar
      BY <2>9, <3>1 DEF WriteHead, Write, Opened
    <3>3. temp' # None /\ temp'.count = call[t].count
      BY <1>1, <3>1, <3>2, V3GraphAssumption DEF Sidecar
    <3>4. Writing(t)'
      BY <1>1, <3>1, <3>3 DEF Writing, At
    <3>5. Steady' => Counted(t)'
      <4> SUFFICES ASSUME Steady'
                   PROVE  Counted(t)'
        OBVIOUS
      <4>1. /\ call[t].count <= header.nodes
            /\ \A id \in Ids : PromisedListed(id)
            /\ \A u \in Threads : InsertedListed(u)
        BY <2>2, <2>6, <3>1 DEF Counted, Persisting, Steady, Listing, At
      <4>2. \A u \in Threads : Inserting(u)' =>
              Inserting(u) /\ call'[u].id = call[u].id /\ call'[u].kind = call[u].kind
        BY <1>0, <2>1, OthersKept DEF SameCall, Same, Inserting
      <4>3. Covers(call[t].count, call[t].kinds)'
        BY <1>1, <3>1, <4>1, <4>2 DEF Covers, PromisedListed, InsertedListed
      <4> QED
        BY <1>1, <3>1, <4>1, <4>3 DEF Counted
    <3>6. Shrinks(t)'
      BY <1>1, <2>1, <2>6, <3>1 DEF Shrinks, Exact, Persisting, At
    <3> QED
      BY <1>0, <1>1, <2>2, <2>3, <2>4, <2>5, <3>2, <3>4, <3>5, <3>6, ListedBy
  <2>10. CASE WriteEntries(t)
    <3>1. /\ call[t].pc = "entries" /\ call'[t].pc = "rename" /\ call'[t].kinds = call[t].kinds
          /\ call'[t].count = call[t].count /\ call[t].fd = "temp"
          /\ temp \in Sidecar /\ temp.count = call[t].count /\ call[t].kinds \in Index
      BY <2>6, <2>10, WriteEntriesOwn DEF WriteEntries, At, Writing, CallInv, FileThere
    <3>2. temp' = [temp EXCEPT !.kinds = call[t].kinds] /\ sidecar' = sidecar
      BY <2>10, <3>1 DEF WriteEntries, Write, Opened
    <3>3. temp' = [count |-> call[t].count, kinds |-> call[t].kinds]
      BY <3>1, <3>2 DEF Sidecar
    <3>4. Writing(t)'
      BY <3>1, <3>3 DEF Writing, At
    <3>5. Steady' => Counted(t)'
      <4> SUFFICES ASSUME Steady'
                   PROVE  Counted(t)'
        OBVIOUS
      <4>1. call[t].count <= header.nodes /\ Covers(call[t].count, call[t].kinds)
        BY <2>2, <2>6, <3>1 DEF Counted, Persisting, At
      <4>2. \A u \in Threads : Inserting(u)' =>
              Inserting(u) /\ call'[u].id = call[u].id /\ call'[u].kind = call[u].kind
        BY <1>0, <2>1, OthersKept DEF SameCall, Same, Inserting
      <4>3. Covers(call[t].count, call[t].kinds)'
        BY <1>1, <3>1, <4>1, <4>2 DEF Covers
      <4> QED
        BY <1>1, <3>1, <4>1, <4>3 DEF Counted
    <3>6. Shrinks(t)'
      BY <1>1, <2>1, <2>6, <3>1 DEF Shrinks, Exact, Persisting, At
    <3> QED
      BY <1>0, <1>1, <2>2, <2>3, <2>4, <2>5, <3>2, <3>4, <3>5, <3>6, ListedBy
  <2> QED
    BY <1>2, <1>3, <2>7, <2>8, <2>9, <2>10
<1> QED
  BY <1>2, <1>3

LEMMA ListedRename ==
  ASSUME CallInv, Apart, Apart', Calm, Calm', Listing, Snapshots, NEW t \in Threads, RenameTemp(t)
  PROVE  Listing'
<1>0. ThreadStep(t)
  BY DEF ThreadStep, FlushCalls
<1>1. /\ call[t].pc = "rename" /\ UNCHANGED <<nodes, cache, kinds, header, file, snap>>
      /\ header.nodes \in Nat /\ call[t].count \in Nat
  BY CallType DEF RenameTemp, At, CallInv, TypeOK, Header, Call
<1>2. \A u \in Threads : u # t => /\ ~Persisting(u) /\ ~Persisting(u)'
                                  /\ SameCall(u) /\ ~Importing(u) /\ ~Importing(u)'
  <2>1. Persisting(t) /\ ~Idle(t)
    BY <1>1 DEF Persisting, Idle, CallInv, InCall, StepsOf
  <2> QED
    BY <1>0, <2>1, OthersKept DEF Apart, Calm, Persisting, SameCall, Importing
<1>3. /\ temp = [count |-> call[t].count, kinds |-> call[t].kinds] /\ call[t].kinds \in Index
      /\ temp # None
  <2>1. Writing(t)
    BY DEF Listing
  <2>2. temp \in Sidecar
    BY <1>1, <2>1 DEF Writing, Sidecar, At
  <2> QED
    BY <1>1, <2>1, <2>2, V3GraphAssumption DEF Writing, At
<1>4. sidecar' = temp /\ temp' = None
  BY <1>3 DEF RenameTemp
<1>5. /\ sidecar'.count = call[t].count /\ sidecar'.kinds = call[t].kinds
  BY <1>3, <1>4
<1>6. sidecar' # None => Complete(sidecar)'
  BY <1>1, <1>3, <1>5 DEF Complete
<1>7. \A u \in Threads : Writing(u)' /\ Counted(u)'
  <2>1. call'[t].pc \notin {"create", "head", "entries", "rename"}
    BY RenameTempOwn DEF NoCall
  <2> QED
    BY <1>2, <2>1 DEF Writing, Counted, Persisting, At
<1>8. CASE Importing(t)
  <2>1. call'[t].op = "none" /\ promised' = snap.promised
    BY <1>8, RenameTempOwn DEF RenameTemp, Released, NoCall, Importing, Inserting
  <2>2. /\ call[t].header = snap.header /\ nodes = SnapFound
        /\ file = [header |-> snap.header, nodes |-> SnapFound] /\ header = snap.header
        /\ snap.quiet /\ \A id \in Ids : snap.promised[id] # None => id <= header.nodes
        /\ kinds = Rebuilt(header.nodes, nodes) /\ Exact(t)
    BY <1>1, <1>8 DEF Snapshots, Rebuilding, At, Persisting
  <2>3. Sound(snap.nodes, snap.promised, snap.header.root) /\ snap.promised \in NodeMap
    BY <1>8, <2>2, V3GraphAssumption DEF Snapshots, CallInv, InCall, Snapshot
  <2>4. ASSUME NEW id \in Ids
        PROVE  PromisedListed(id)'
    <3> SUFFICES ASSUME snap.promised[id] # None
                 PROVE  /\ nodes'[id] = snap.promised[id] /\ kinds'[snap.promised[id]][id] = 1
                        /\ header'.root /\ file'.header.root
      BY <2>1 DEF PromisedListed
    <3>1. snap.nodes[id] = snap.promised[id] /\ snap.header.root /\ snap.promised[id] \in AllKinds
      BY <2>3 DEF Sound, NodeMap
    <3>2. nodes[id] = snap.promised[id]
      BY <2>2, <3>1 DEF SnapFound
    <3>3. kinds[snap.promised[id]][id] = 1
      BY <2>2, <3>1, <3>2, RebuiltEntries DEF Scanned
    <3> QED
      BY <1>1, <2>2, <3>1, <3>2, <3>3
  <2>5. \A u \in Threads : u # t => Idle(u)'
    BY <1>0, <1>2, <1>8, OthersKept DEF Apart, Calm, SameCall, Idle
  <2>6. \A u \in Threads : InsertedListed(u)' /\ Shrinks(u)'
    BY <2>1, <2>5 DEF InsertedListed, Shrinks, Shrinking, Inserting, Deleting, Idle
  <2>7. file'.header.nodes <= header'.nodes
    BY <1>1, <2>2
  <2>8. Covers(sidecar.count, sidecar.kinds)'
    <3>1. sidecar'.count = header'.nodes /\ sidecar'.kinds = kinds'
      BY <1>1, <1>5, <2>2 DEF Exact, Persisting, At
    <3>2. \A u \in Threads : ~Inserting(u)'
      BY <2>1, <2>5 DEF Inserting, Idle
    <3> QED
      BY <1>1, <2>4, <3>1, <3>2 DEF Covers, PromisedListed
  <2> QED
    BY <1>6, <1>7, <2>4, <2>6, <2>7, <2>8 DEF Listing
<1>9. CASE ~Importing(t)
  <2>1. /\ Same(call[t], call'[t]) /\ call'[t].pc = "sync" /\ call'[t].synced = call[t].synced
        /\ promised' = promised
    BY <1>9, RenameTempOwn DEF RenameTemp
  <2>2. \A u \in Threads : /\ call'[u].op = call[u].op /\ call'[u].id = call[u].id
                           /\ call'[u].kind = call[u].kind /\ call'[u].synced = call[u].synced
    BY <1>2, <2>1 DEF SameCall, Same
  <2>3. NoImport
    BY <1>2, <1>9 DEF NoImport
  <2>4. \A id \in Ids : PromisedListed(id) /\ PromisedListed(id)'
    BY <1>1, <2>1, <2>3 DEF Listing, PromisedListed
  <2>5. \A u \in Threads : InsertedListed(u) /\ InsertedListed(u)'
    BY <1>1, <2>2, <2>3 DEF Listing, InsertedListed, Inserting
  <2>6. ASSUME Steady'
        PROVE  file.header.nodes <= header.nodes /\ Covers(call[t].count, call[t].kinds)
    <3>1. \A u \in Threads : u # t => ~Shrinking(u)
      BY <1>2, <2>6 DEF Steady, Shrinking, Deleting, SameCall, At
    <3>2. CASE Shrinking(t)
      <4>1. call[t].synced
        BY <2>1, <2>6, <3>2 DEF Steady, Shrinking, Deleting, Same, At
      <4>2. /\ file.header.nodes <= header.nodes /\ call[t].count = header.nodes
            /\ call[t].kinds = kinds
        BY <1>1, <3>2, <4>1 DEF Listing, Shrinks, Exact, Persisting, At
      <4> QED
        BY <1>1, <2>4, <2>5, <4>2 DEF Covers, PromisedListed, InsertedListed
    <3>3. CASE ~Shrinking(t)
      <4>1. Steady
        BY <2>3, <3>1, <3>3 DEF Steady
      <4> QED
        BY <1>1, <4>1 DEF Listing, Counted, At
    <3> QED
      BY <3>2, <3>3
  <2>7. ASSUME Steady'
        PROVE  file'.header.nodes <= header'.nodes /\ Covers(sidecar.count, sidecar.kinds)'
    <3>1. Covers(call[t].count, call[t].kinds) /\ file'.header.nodes <= header'.nodes
      BY <1>1, <2>6, <2>7
    <3> QED
      BY <1>1, <1>5, <2>1, <2>2, <3>1 DEF Covers, Inserting
  <2>8. ASSUME NEW u \in Threads
        PROVE  Shrinks(u)'
    <3>1. Shrinks(u) /\ (Shrinking(u)' => Shrinking(u))
      BY <1>1, <1>2, <2>2 DEF Listing, Shrinking, Deleting, At, SameCall
    <3>2. ~Persisting(u)' /\ ~At(u, "entries")' /\ ~At(u, "rename")'
      BY <1>2, <2>1 DEF Persisting, At
    <3> QED
      BY <1>1, <2>2, <3>1, <3>2 DEF Shrinks, Exact
  <2> QED
    BY <1>6, <1>7, <2>4, <2>5, <2>7, <2>8 DEF Listing
<1> QED
  BY <1>8, <1>9

LEMMA ListedSync ==
  ASSUME CallInv, Apart, Apart', Calm, Calm', Listing, NEW t \in Threads, SyncHeader(t)
  PROVE  Listing'
<1>0. ThreadStep(t)
  BY DEF ThreadStep, FlushCalls
<1>1. /\ call[t].pc = "sync" /\ UNCHANGED <<nodes, kinds, header, sidecar, temp>>
      /\ file'.header = header /\ header.nodes \in Nat /\ file.header.nodes \in Nat
      /\ promised \in NodeMap
  BY DEF SyncHeader, At, CallInv, TypeOK, Header, File
<1>2. ~Importing(t) /\ InCall(t)
  BY <1>1 DEF Importing, CallInv, InCall, StepsOf
<1>3. \A u \in Threads : u # t => SameCall(u)
  BY <1>0, OthersKept
<1>4. /\ call'[t].pc \in {"none", "count"} /\ ~Importing(t)' /\ ~Inserting(t)'
      /\ Shrinking(t)' => Shrinking(t)
      /\ Shrinking(t) => Shrinking(t)'
  <2>1. CASE Deleting(t) /\ ~call[t].synced
    BY <1>1, <2>1, SyncHeaderOwn DEF Same, Shrinking, Deleting, Importing, Inserting, At
  <2>2. CASE ~(Deleting(t) /\ ~call[t].synced)
    BY <1>1, <2>2, SyncHeaderOwn DEF NoCall, Shrinking, Deleting, Importing, Inserting, At
  <2> QED
    BY <2>1, <2>2
<1>5. NoImport' => NoImport
  BY <1>2, <1>3 DEF NoImport, Importing, SameCall
<1>6. Steady' => Steady
  BY <1>3, <1>4, <1>5 DEF Steady, Shrinking, Deleting, SameCall, At
<1>7. ASSUME NEW id \in Ids, promised'[id] # None
      PROVE  \/ promised'[id] = promised[id]
             \/ Inserting(t) /\ id = call[t].id /\ promised'[id] = call[t].kind /\ nodes[id] = call[t].kind
  <2>1. CASE Deleting(t) /\ ~call[t].synced
    BY <2>1 DEF SyncHeader
  <2>2. CASE ~(Deleting(t) /\ ~call[t].synced)
    BY <1>1, <1>2, <2>2 DEF SyncHeader, Released, NodeMap
  <2> QED
    BY <2>1, <2>2
<1>8. ASSUME NoImport', NEW id \in Ids
      PROVE  PromisedListed(id)'
  <2>1. PromisedListed(id) /\ InsertedListed(t)
    BY <1>5, <1>8 DEF Listing
  <2> QED
    BY <1>1, <1>7, <2>1 DEF PromisedListed, InsertedListed
<1>9. ASSUME NoImport', NEW u \in Threads
      PROVE  InsertedListed(u)'
  <2>1. InsertedListed(u)
    BY <1>5, <1>9 DEF Listing
  <2> QED
    BY <1>1, <1>3, <1>4, <2>1 DEF InsertedListed, SameCall, Inserting
<1>10. \A count \in Nat, index \in Index : Covers(count, index) /\ file.header.nodes <= header.nodes => Covers(count, index)'
  <2> SUFFICES ASSUME NEW count \in Nat, NEW index \in Index, Covers(count, index),
                      file.header.nodes <= header.nodes
               PROVE  Covers(count, index)'
    OBVIOUS
  <2>1. count <= header'.nodes
    BY <1>1 DEF Covers
  <2>2. \A id \in Ids : promised'[id] # None /\ index[promised'[id]][id] # 1 => count < file'.header.nodes
    BY <1>1, <1>7 DEF Covers
  <2>3. \A u \in Threads : Inserting(u)' /\ index[call'[u].kind][call'[u].id] # 1 => count < header'.nodes
    BY <1>1, <1>3, <1>4 DEF Covers, SameCall, Inserting
  <2> QED
    BY <2>1, <2>2, <2>3 DEF Covers
<1>11. ASSUME Steady'
       PROVE  /\ file'.header.nodes <= header'.nodes
              /\ sidecar' # None => Covers(sidecar.count, sidecar.kinds)'
              /\ \A u \in Threads : Counted(u)'
  <2>1. /\ file.header.nodes <= header.nodes
        /\ sidecar # None => Covers(sidecar.count, sidecar.kinds)
        /\ \A u \in Threads : Counted(u)
    BY <1>6, <1>11 DEF Listing
  <2>2. sidecar' # None => Covers(sidecar.count, sidecar.kinds)'
    BY <1>1, <1>10, <2>1 DEF Listing, Complete, Covers
  <2>3. ASSUME NEW u \in Threads
        PROVE  Counted(u)'
    <3>1. CASE u = t
      BY <1>4, <3>1 DEF Counted, Persisting, At
    <3>2. CASE u # t
      <4>1. SameCall(u) /\ call[u].count \in Nat
            /\ (At(u, "entries") \/ At(u, "rename") => call[u].kinds \in Index)
        BY <1>3, <3>2, CoveredTypes
      <4>2. Persisting(u)' => call'[u].count <= header'.nodes
        BY <1>1, <2>1, <4>1 DEF Counted, SameCall, Persisting
      <4>3. ASSUME At(u, "entries")' \/ At(u, "rename")'
            PROVE  Covers(call[u].count, call[u].kinds)'
        <5>1. At(u, "entries") \/ At(u, "rename")
          BY <4>1, <4>3 DEF SameCall, At
        <5>2. PICK count \in Nat, index \in Index : count = call[u].count /\ index = call[u].kinds
          BY <4>1, <5>1
        <5>3. Covers(count, index)
          BY <2>1, <5>1, <5>2 DEF Counted
        <5>4. Covers(count, index)'
          BY <1>10, <2>1, <5>3
        <5>5. count = call'[u].count /\ index = call'[u].kinds
          BY <4>1, <5>2 DEF SameCall
        <5> QED
          BY <5>4, <5>5 DEF Covers
      <4> QED
        BY <4>2, <4>3 DEF Counted
    <3> QED
      BY <3>1, <3>2
  <2> QED
    BY <1>1, <2>2, <2>3
<1>12. ASSUME NEW u \in Threads
       PROVE  Writing(u)' /\ Shrinks(u)'
  <2>1. CASE u = t
    <3>1. Writing(t)'
      BY <1>4 DEF Writing, At
    <3>2. Shrinks(t)'
      BY <1>1, <1>4 DEF Shrinks, Exact, Persisting, At
    <3> QED
      BY <2>1, <3>1, <3>2
  <2>2. CASE u # t
    <3>1. ~RenameTemp(t)
      BY <1>1 DEF RenameTemp, At
    <3>2. Writing(u)'
      BY <1>0, <1>1, <2>2, <3>1, OthersWriting DEF Listing
    <3>3. Shrinks(u) /\ SameCall(u)
      BY <1>3, <2>2 DEF Listing
    <3>4. Shrinks(u)'
      BY <1>1, <3>3 DEF Shrinks, Shrinking, Exact, Deleting, SameCall, Persisting, At
    <3> QED
      BY <3>2, <3>4
  <2> QED
    BY <2>1, <2>2
<1> QED
  BY <1>1, <1>8, <1>9, <1>11, <1>12 DEF Listing, Complete

LEMMA ListedSnapshots ==
  ASSUME CallInv, CallInv', Apart, Apart', Calm, Calm', Listing, NEW t \in Threads,
         SnapshotCalls(t)
  PROVE  Listing'
<1>0. ThreadStep(t)
  BY DEF ThreadStep
<1>1. UNCHANGED <<sidecar, temp>>
  BY DEF SnapshotCalls, ExportHeader, ExportPages, ImportCopy, ImportStores, ImportHeader,
         ImportRebuild, fileVars
<1>2. CASE ExportHeader(t) \/ ExportPages(t)
  <2>1. UNCHANGED <<nodes, kinds, header, file, promised>> /\ (Idle(t) \/ call[t].pc = "pages")
    BY <1>2 DEF ExportHeader, ExportPages, memVars, fileVars, histVars, Starts, At
  <2>2. call'[t].op \in {"snapshot_export", "none"} /\ call'[t].pc \in {"pages", "none"}
    BY <1>2, ExportHeaderOwn, ExportPagesOwn DEF NoCall
  <2>3. call[t].op \in {"snapshot_export", "none"} /\ call[t].pc \in {"pages", "none"}
    BY <2>1, CallType DEF CallInv, InCall, StepsOf, Flushing, Idle, Call
  <2>4. (NoImport' => NoImport) /\ (Steady' => Steady)
    BY <1>0, <2>2, <2>3, OthersKept DEF NoImport, Importing, Steady, Shrinking, Deleting,
                                        SameCall, At
  <2>5. ~RenameTemp(t)
    BY <2>3 DEF RenameTemp, At
  <2>6. ~Inserting(t)' /\ Counted(t)' /\ Writing(t)' /\ Shrinks(t)'
    BY <2>2 DEF Inserting, Counted, Writing, Shrinks, Shrinking, Persisting, Deleting, At
  <2> QED
    BY <1>0, <1>1, <2>1, <2>4, <2>5, <2>6, ListedBy
<1>3. CASE ImportCopy(t) \/ ImportStores(t) \/ ImportHeader(t) \/ ImportRebuild(t)
  <2>1. call'[t].op = "snapshot_import" /\ call'[t].pc \in {"stores", "header", "rebuild", "create"}
    <3>1. CASE ImportCopy(t)
      BY <3>1, ImportCopyOwn
    <3>2. CASE ImportStores(t) \/ ImportHeader(t) \/ ImportRebuild(t)
      <4>1. call[t].pc \in {"stores", "header", "rebuild"} /\ Same(call[t], call'[t])
            /\ call'[t].pc \in {"header", "rebuild", "create"}
        BY <3>2, ImportStoresOwn, ImportHeaderOwn, ImportRebuildOwn
           DEF ImportStores, ImportHeader, ImportRebuild, At
      <4>2. call[t].op = "snapshot_import"
        BY <4>1, CallType DEF CallInv, InCall, StepsOf, Flushing, Call
      <4> QED
        BY <4>1, <4>2 DEF Same
    <3> QED
      BY <1>3, <3>1, <3>2
  <2>2. ~NoImport' /\ ~Steady'
    BY <2>1 DEF NoImport, Steady, Importing
  <2>3. ASSUME NEW u \in Threads
        PROVE  call'[u].pc \notin {"head", "entries", "rename"} /\ ~Deleting(u)'
    <3>1. CASE u = t
      BY <2>1, <3>1 DEF Deleting
    <3>2. CASE u # t
      <4>1. Idle(u)'
        BY <2>1, <3>2 DEF Apart, Calm, Importing
      <4>2. InCall(u)'
        BY DEF CallInv
      <4> QED
        BY <4>1, <4>2 DEF InCall, StepsOf, Deleting, Idle
    <3> QED
      BY <3>1, <3>2
  <2>4. \A u \in Threads : Writing(u)' /\ Shrinks(u)'
    BY <2>3 DEF Writing, Shrinks, Shrinking, At
  <2> QED
    BY <1>1, <2>2, <2>4 DEF Listing, Complete
<1> QED
  BY <1>2, <1>3 DEF SnapshotCalls

LEMMA ListedCrash ==
  ASSUME CallInv, Calm, Calm', Absence, Listing, CrashAndOpen
  PROVE  Listing'
<1> DEFINE count == file.header.nodes
           restored == IF Restores(count) THEN sidecar.kinds ELSE NoKinds
           rebuilds == restored = NoKinds /\ count > 0
<1>1. \A t \in Threads : call'[t].op = "none" /\ call'[t].pc = "none"
  BY DEF CrashAndOpen, NoCall
<1>2. UNCHANGED <<sidecar, temp, promised>>
  BY DEF CrashAndOpen
<1>3. /\ nodes' = Found /\ header' = file.header /\ file'.header = file.header
      /\ kinds' = IF rebuilds THEN Rebuilt(count, Found) ELSE restored
  BY DEF CrashAndOpen, CallInv, TypeOK, File
<1>4. /\ restored = NoKinds => \A id \in Ids : promised[id] # None => id <= count
      /\ sidecar # None /\ sidecar.count # None => ~(sidecar.count > count)
      /\ \A t \in Threads : ~Importing(t) /\ ~Deleting(t)
  <2>1. /\ ~(restored = NoKinds /\ \E id \in Ids : promised[id] # None /\ id > count)
        /\ ~(sidecar # None /\ sidecar.count # None /\ sidecar.count > count)
        /\ ~(\E t \in Threads : Importing(t) \/ Deleting(t))
    BY DEF CrashAndOpen, Calm, If
  <2>2. count \in Nat /\ Ids \subseteq Nat
    BY DEF CallInv, TypeOK, File, Header, Ids
  <2> QED
    BY <2>1, <2>2
<1>5. Steady /\ nodes = file.nodes
  BY <1>4 DEF Steady, NoImport, Shrinking, Absence, FileAgrees
<1>6. /\ \A id \in Ids : PromisedListed(id)
      /\ sidecar # None => Complete(sidecar) /\ Covers(sidecar.count, sidecar.kinds)
  BY <1>5 DEF Listing, Steady
<1>7. count \in Nat /\ Ids \subseteq Nat \ {0} /\ header'.nodes = count /\ file'.header.nodes = count
  BY <1>3 DEF CallInv, TypeOK, File, Header, Ids
<1>8. ASSUME NEW id \in Ids
      PROVE  PromisedListed(id)'
  <2> SUFFICES ASSUME promised[id] # None
               PROVE  /\ nodes'[id] = promised[id] /\ kinds'[promised[id]][id] = 1
                      /\ header'.root /\ file'.header.root
    BY <1>2 DEF PromisedListed
  <2>1. /\ nodes[id] = promised[id] /\ file.header.root /\ promised[id] \in AllKinds
    BY <1>6 DEF PromisedListed, CallInv, TypeOK, NodeMap
  <2>2. Found[id] = promised[id]
    BY <1>5, <2>1 DEF Found
  <2>3. CASE restored = NoKinds
    <3>1. id <= count /\ count > 0
      BY <1>4, <1>7, <2>3
    <3>2. kinds' = Rebuilt(count, Found)
      BY <1>3, <2>3, <3>1
    <3>3. kinds'[promised[id]][id] = 1
      BY <2>1, <2>2, <3>1, <3>2, RebuiltEntries DEF Scanned
    <3> QED
      BY <1>3, <2>1, <2>2, <3>3
  <2>4. CASE restored # NoKinds
    <3>1. Restores(count) /\ kinds' = sidecar.kinds
      BY <1>3, <2>4
    <3>2. sidecar # None /\ sidecar.count = count
      BY <3>1 DEF Restores
    <3>3. kinds'[promised[id]][id] = 1
      BY <1>6, <1>7, <3>1, <3>2 DEF Covers
    <3> QED
      BY <1>3, <2>1, <2>2, <3>3
  <2> QED
    BY <2>3, <2>4
<1>9. sidecar' # None => Covers(sidecar.count, sidecar.kinds)'
  <2> SUFFICES ASSUME sidecar # None
               PROVE  Covers(sidecar.count, sidecar.kinds)'
    BY <1>2
  <2>1. sidecar.count \in Nat /\ sidecar.count <= count
    BY <1>4, <1>6, <1>7, V3GraphAssumption DEF Complete
  <2>2. \A t \in Threads : ~Inserting(t)'
    BY <1>1 DEF Inserting
  <2> QED
    BY <1>2, <1>3, <1>6, <1>7, <2>1, <2>2 DEF Covers
<1>10. \A t \in Threads : InsertedListed(t)' /\ Counted(t)' /\ Writing(t)' /\ Shrinks(t)'
  BY <1>1 DEF InsertedListed, Counted, Writing, Shrinks, Shrinking, Inserting, Deleting,
              Persisting, At
<1>11. file'.header.nodes <= header'.nodes
  BY <1>7
<1> QED
  BY <1>2, <1>6, <1>8, <1>9, <1>10, <1>11 DEF Listing, Complete

-----------------------------------------------------------------------------
(* ... and SnapInv *)

LEMMA StepOf ==
  ASSUME CallInv, NEW t \in Threads
  PROVE  /\ call[t].pc = "pages" => call[t].op = "snapshot_export"
         /\ call[t].pc \in {"from", "to", "edge", "count", "sync"} =>
              call[t].op \notin {"snapshot_export", "snapshot_import"}
         /\ call[t].pc \in {"stores", "header", "rebuild"} => call[t].op = "snapshot_import"
BY CallType DEF CallInv, InCall, StepsOf, Flushing, Call

LEMMA SnapshotsStep ==
  ASSUME CallInv, CallInv', Apart, Apart', Calm, Calm', Absence, Listing, Listing', Snapshots,
         NEW t \in Threads, ThreadStep(t)
  PROVE  Snapshots'
<1>1. \A u \in Threads : u # t => SameCall(u)
  BY OthersKept
<1>2. CASE Gets(t)
  <2>1. PICK id \in Ids : GetNode(t, id)
    BY <1>2 DEF Gets
  <2>2. UNCHANGED <<nodes, kinds, header, file, snap, call>> /\ cache' = Caching({id})
    BY <2>1 DEF GetNode, fileVars
  <2>3. \A i \in Ids : cache'[i] \in {cache[i], nodes[i]}
    BY <2>2 DEF Caching, Read, Cached, Lookup
  <2>4. ASSUME NEW u \in Threads
        PROVE  Exporting(u)' /\ Rebuilding(u)'
    BY <2>2, <2>3 DEF Snapshots, Exporting, Rebuilding, Sound, SnapFound, Exact, Importing,
                      Persisting, At
  <2> QED
    BY <2>2, <2>4 DEF Snapshots, Sound
<1>3. CASE ~Gets(t)
  <2>1. \A u \in Threads : u # t => ~Importing(u) /\ ~Importing(u)'
    BY <1>3, Alone
  <2>2. \A u \in Threads : u # t => Exporting(u)' /\ Rebuilding(u)'
    <3>1. ASSUME NEW u \in Threads, u # t
          PROVE  Exporting(u)'
      <4>1. Exporting(u) /\ SameCall(u)
        BY <1>1, <3>1 DEF Snapshots
      <4> QED
        BY <4>1 DEF Exporting, Sound, SameCall
    <3> QED
      BY <2>1, <3>1 DEF Rebuilding
  <2>3. CASE ExportHeader(t)
    <3>1. /\ call'[t].op = "snapshot_export" /\ call'[t].file = file /\ call'[t].promised = promised
          /\ snap' = snap
      BY <2>3, ExportHeaderOwn DEF ExportHeader, fileVars
    <3>2. ~Importing(t)
      BY <2>3 DEF ExportHeader, Starts, Idle, Importing
    <3>3. nodes = file.nodes /\ \A id \in Ids : PromisedListed(id)
      BY <2>1, <3>2 DEF Absence, FileAgrees, Listing, NoImport
    <3>4. Sound(file.nodes, promised, file.header.root)
      BY <3>3 DEF Sound, PromisedListed
    <3>5. Exporting(t)' /\ Rebuilding(t)'
      BY <3>1, <3>4 DEF Exporting, Rebuilding, Importing, Sound
    <3> QED
      BY <2>2, <3>1, <3>5 DEF Snapshots, Sound
  <2>4. CASE ExportPages(t)
    <3>1. /\ call[t].op = "snapshot_export" /\ call'[t].op = "none"
          /\ snap' = [header |-> call[t].file.header, nodes |-> file.nodes,
                      promised |-> call[t].promised, quiet |-> file = call[t].file]
      <4>1. call[t].pc = "pages"
        BY <2>4 DEF ExportPages, At
      <4>2. call'[t] = NoCall
        BY <2>4, ExportPagesOwn
      <4>3. snap' = [header |-> call[t].file.header, nodes |-> file.nodes,
                     promised |-> call[t].promised, quiet |-> file = call[t].file]
        BY <2>4 DEF ExportPages
      <4> QED
        BY <4>1, <4>2, <4>3, StepOf DEF NoCall
    <3>2. Exporting(t)' /\ Rebuilding(t)'
      BY <3>1 DEF Exporting, Rebuilding, Importing
    <3>3. snap'.quiet => Sound(snap.nodes, snap.promised, snap.header.root)'
      BY <3>1 DEF Snapshots, Exporting, Sound
    <3> QED
      BY <2>2, <3>2, <3>3 DEF Snapshots
  <2>5. CASE ~ExportHeader(t) /\ ~ExportPages(t)
    <3>1. snap' = snap
      BY <2>5, FileFrame
    <3>2. call'[t].op # "snapshot_export"
      <4>1. call[t].pc = "pages" => call[t].op = "snapshot_export"
        BY CallType DEF CallInv, InCall, StepsOf, Flushing, Call
      <4>2. CASE NodeCalls(t)
        <5>1. CASE Inserts(t) \/ Updates(t) \/ Deletes(t) \/ Begins(t)
          BY <5>1, InsertNodeOwn, UpdateNodeOwn, DeleteEntityOwn, BeginEdgeOwn
             DEF Inserts, Updates, Deletes, Begins
        <5>2. CASE CheckEnd(t)
          BY <5>2, CheckEndOwn DEF CheckEnd, Same, At, CallInv, InCall, StepsOf
        <5>3. CASE InsertEdge(t)
          <6>1. call[t].pc = "edge"
            BY <5>3 DEF InsertEdge, At
          <6> QED
            BY <5>3, <6>1, InsertEdgeOwn, StepOf DEF Same, NoCall
        <5> QED
          BY <1>3, <4>2, <5>1, <5>2, <5>3 DEF NodeCalls, Gets, Inserts, Updates, Deletes, Begins
      <4>3. CASE FlushCalls(t)
        <5>1. CASE Flush(t)
          BY <5>1, FlushOwn
        <5>2. CASE TakeCount(t) \/ CreateTemp(t) \/ WriteHead(t) \/ WriteEntries(t)
          <6>1. Same(call[t], call'[t]) /\ call[t].pc \in {"count", "create", "head", "entries"}
            BY <5>2, TakeCountOwn, CreateTempOwn, WriteHeadOwn, WriteEntriesOwn
               DEF TakeCount, CreateTemp, WriteHead, WriteEntries, At
          <6> QED
            BY <6>1 DEF Same, CallInv, InCall, StepsOf
        <5>3. CASE RenameTemp(t)
          BY <5>3, RenameTempOwn DEF RenameTemp, Same, NoCall, At, CallInv, InCall, StepsOf
        <5>4. CASE SyncHeader(t)
          <6>1. call[t].pc = "sync"
            BY <5>4 DEF SyncHeader, At
          <6> QED
            BY <5>4, <6>1, SyncHeaderOwn, StepOf DEF Same, NoCall
        <5> QED
          BY <4>3, <5>1, <5>2, <5>3, <5>4 DEF FlushCalls
      <4>4. CASE SnapshotCalls(t)
        <5>1. CASE ImportCopy(t)
          BY <5>1, ImportCopyOwn
        <5>2. CASE ImportStores(t) \/ ImportHeader(t) \/ ImportRebuild(t)
          <6>1. Same(call[t], call'[t]) /\ call[t].pc \in {"stores", "header", "rebuild"}
            BY <5>2, ImportStoresOwn, ImportHeaderOwn, ImportRebuildOwn
               DEF ImportStores, ImportHeader, ImportRebuild, At
          <6> QED
            BY <6>1 DEF Same, CallInv, InCall, StepsOf
        <5> QED
          BY <2>5, <4>4, <5>1, <5>2 DEF SnapshotCalls
      <4> QED
        BY <4>2, <4>3, <4>4 DEF ThreadStep
    <3>3. Rebuilding(t)'
      <4> SUFFICES ASSUME Importing(t)'
                   PROVE  Rebuilding(t)'
        BY DEF Rebuilding
      <4>1. CASE ImportCopy(t)
        BY <3>1, <4>1, ImportCopyOwn DEF ImportCopy, Rebuilding, Persisting, At
      <4>2. CASE ImportStores(t)
        <5>1. /\ call'[t].pc = "header" /\ call'[t].header = file.header /\ nodes' = Found
              /\ file' = [file EXCEPT !.nodes = Found] /\ call[t].pc = "stores" /\ Importing(t)
          BY <4>2, ImportStoresOwn DEF ImportStores, Same, Importing, At
        <5>2. file = [header |-> snap.header, nodes |-> snap.nodes]
          BY <5>1 DEF Snapshots, Rebuilding, At
        <5>3. Found = SnapFound
          BY <5>2 DEF Found, SnapFound
        <5>4. file' = [header |-> snap.header, nodes |-> SnapFound] /\ SnapFound' = SnapFound
          BY <3>1, <5>1, <5>2, <5>3 DEF SnapFound
        <5> QED
          BY <3>1, <5>1, <5>2, <5>3, <5>4 DEF Rebuilding, Persisting, At
      <4>3. CASE ImportHeader(t)
        <5>1. /\ call'[t].pc = "rebuild" /\ call'[t].header = call[t].header
              /\ UNCHANGED <<nodes, file>> /\ header' = call[t].header
              /\ call[t].pc = "header" /\ Importing(t)
          BY <4>3, ImportHeaderOwn DEF ImportHeader, Same, Importing, At, fileVars
        <5>2. /\ call[t].header = snap.header /\ nodes = SnapFound
              /\ file = [header |-> snap.header, nodes |-> SnapFound]
          BY <5>1 DEF Snapshots, Rebuilding, At
        <5>3. SnapFound' = SnapFound
          BY <3>1 DEF SnapFound
        <5> QED
          BY <3>1, <5>1, <5>2, <5>3 DEF Rebuilding, Persisting, At
      <4>4. CASE ImportRebuild(t)
        <5>1. /\ call'[t].pc = "create" /\ call'[t].header = call[t].header
              /\ call'[t].count = call[t].header.nodes
              /\ UNCHANGED <<nodes, file, header>> /\ call[t].pc = "rebuild" /\ Importing(t)
          BY <4>4, ImportRebuildOwn DEF ImportRebuild, Same, Importing, At, fileVars
        <5>2. /\ call[t].header = snap.header /\ nodes = SnapFound /\ header = snap.header
              /\ file = [header |-> snap.header, nodes |-> SnapFound]
          BY <5>1 DEF Snapshots, Rebuilding, At
        <5>3. /\ ~(\E id \in Ids : snap.promised[id] # None /\ id > call[t].header.nodes)
              /\ ~(\E id \in Ids : Cached(id) /\ Read(id) # Lookup(id))
              /\ snap.quiet \in BOOLEAN => snap.quiet
          BY <4>4 DEF ImportRebuild, Calm, If
        <5>4. snap.quiet
          BY <5>1, <5>3 DEF CallInv, InCall, Snapshot
        <5>5. \A id \in Ids : snap.promised[id] # None => id <= header.nodes
          BY <5>2, <5>3 DEF CallInv, TypeOK, Header, Ids
        <5>6. \A id \in Ids : Read(id) = nodes[id]
          BY <5>3 DEF Read, Cached, Lookup
        <5>7. \A id \in Ids : cache'[id] # None => cache'[id] = nodes[id]
          BY <4>4, <5>3, <5>6 DEF ImportRebuild, Caching, Cached, Read, Lookup
        <5>8. kinds' = Rebuilt(header.nodes, nodes)
          <6>1. nodes = [id \in Ids |-> Read(id)]
            BY <5>6 DEF CallInv, TypeOK, NodeMap
          <6> QED
            BY <4>4, <6>1 DEF ImportRebuild
        <5>9. SnapFound' = SnapFound
          BY <3>1 DEF SnapFound
        <5> QED
          BY <3>1, <5>1, <5>2, <5>4, <5>5, <5>7, <5>8, <5>9 DEF Rebuilding, Exact, Persisting, At
      <4>5. CASE CreateTemp(t) \/ WriteHead(t) \/ WriteEntries(t)
        <5>1. /\ Same(call[t], call'[t]) /\ call'[t].header = call[t].header
              /\ call'[t].count = call[t].count /\ call[t].pc \in {"create", "head", "entries"}
              /\ call'[t].pc \in {"head", "entries", "rename"}
              /\ call'[t].pc = "entries" => call'[t].kinds = kinds
              /\ call'[t].pc = "rename" => call'[t].kinds = call[t].kinds /\ call[t].pc = "entries"
          BY <4>5, CreateTempOwn, WriteHeadOwn, WriteEntriesOwn DEF CreateTemp, WriteHead,
                                                                    WriteEntries, At
        <5>2. UNCHANGED <<nodes, cache, kinds, header, file>>
          BY <4>5 DEF CreateTemp, WriteHead, WriteEntries, memVars
        <5>3. /\ call[t].header = snap.header /\ nodes = SnapFound /\ header = snap.header
              /\ file = [header |-> snap.header, nodes |-> SnapFound] /\ snap.quiet
              /\ \A id \in Ids : snap.promised[id] # None => id <= header.nodes
              /\ \A id \in Ids : cache[id] # None => cache[id] = nodes[id]
              /\ kinds = Rebuilt(header.nodes, nodes) /\ Exact(t)
          BY <5>1 DEF Snapshots, Rebuilding, Importing, Persisting, Same, At
        <5>4. SnapFound' = SnapFound
          BY <3>1 DEF SnapFound
        <5>5. Exact(t)'
          BY <5>1, <5>2, <5>3 DEF Exact, Persisting, At
        <5> QED
          BY <3>1, <5>1, <5>2, <5>3, <5>4, <5>5 DEF Rebuilding, Persisting, At
      <4>6. CASE ~(\/ ImportCopy(t) \/ ImportStores(t) \/ ImportHeader(t) \/ ImportRebuild(t)
                   \/ CreateTemp(t) \/ WriteHead(t) \/ WriteEntries(t))
        <5>1. CASE NodeCalls(t)
          <6>1. CASE Inserts(t) \/ Updates(t) \/ Deletes(t) \/ Begins(t)
            BY <6>1, InsertNodeOwn, UpdateNodeOwn, DeleteEntityOwn, BeginEdgeOwn
               DEF Inserts, Updates, Deletes, Begins, Importing
          <6>2. CASE CheckEnd(t)
            BY <6>2, CheckEndOwn DEF CheckEnd, Same, Importing, At, CallInv, InCall, StepsOf
          <6>3. CASE InsertEdge(t)
            <7>1. call[t].pc = "edge"
              BY <6>3 DEF InsertEdge, At
            <7> QED
              BY <6>3, <7>1, InsertEdgeOwn, StepOf DEF Same, NoCall, Importing
          <6> QED
            BY <1>3, <5>1, <6>1, <6>2, <6>3 DEF NodeCalls, Gets, Inserts, Updates, Deletes, Begins
        <5>2. CASE FlushCalls(t)
          <6>1. CASE Flush(t)
            BY <6>1, FlushOwn DEF Importing
          <6>2. CASE TakeCount(t)
            <7>1. call[t].pc = "count"
              BY <6>2 DEF TakeCount, At
            <7> QED
              BY <6>2, <7>1, TakeCountOwn, StepOf DEF Same, Importing
          <6>3. CASE RenameTemp(t)
            BY <6>3, RenameTempOwn DEF Same, NoCall, Importing
          <6>4. CASE SyncHeader(t)
            <7>1. call[t].pc = "sync"
              BY <6>4 DEF SyncHeader, At
            <7> QED
              BY <6>4, <7>1, SyncHeaderOwn, StepOf DEF Same, NoCall, Importing
          <6> QED
            BY <4>6, <5>2, <6>1, <6>2, <6>3, <6>4 DEF FlushCalls
        <5> QED
          BY <2>5, <4>6, <5>1, <5>2 DEF ThreadStep, SnapshotCalls
      <4> QED
        BY <4>1, <4>2, <4>3, <4>4, <4>5, <4>6
    <3>4. snap' # None /\ snap'.quiet => Sound(snap.nodes, snap.promised, snap.header.root)'
      BY <3>1 DEF Snapshots, Sound
    <3> QED
      BY <2>2, <3>2, <3>3, <3>4 DEF Snapshots, Exporting
  <2> QED
    BY <2>3, <2>4, <2>5
<1> QED
  BY <1>2, <1>3

LEMMA SnapshotsCrash ==
  ASSUME Snapshots, CrashAndOpen
  PROVE  Snapshots'
<1>1. snap' = snap /\ \A t \in Threads : call'[t].op = "none"
  BY DEF CrashAndOpen, NoCall
<1> QED
  BY <1>1 DEF Snapshots, Sound, Exporting, Rebuilding, Importing

GraphInv == CallInv /\ KnownInv /\ Apart /\ AbsentInv /\ ListedInv /\ SnapInv

LEMMA ListedStep ==
  ASSUME CallInv, CallInv', Apart, Apart', AbsentInv, ListedInv, SnapInv, [Next]_vars
  PROVE  ListedInv' /\ SnapInv'
<1> SUFFICES ASSUME Calm'
             PROVE  Listing' /\ Snapshots'
  BY DEF ListedInv, SnapInv
<1>1. CASE UNCHANGED vars
  <2>1. Listing /\ Snapshots
    BY <1>1 DEF vars, Calm, ListedInv, SnapInv
  <2>2. Listing'
    BY <1>1, <2>1 DEF vars, Listing, NoImport, Steady, Shrinking, PromisedListed, InsertedListed,
                      Counted,
                      Covers, Complete, Writing, Shrinks, Exact, Importing, Inserting, Deleting, Persisting, At
  <2>3. Snapshots'
    BY <1>1, <2>1 DEF vars, Snapshots, Sound, Exporting, Rebuilding, SnapFound, Exact, Importing,
                      Persisting, At
  <2> QED
    BY <2>2, <2>3
<1>2. CASE Next
  <2>1. Calm /\ Absence /\ Listing /\ Snapshots
    BY <1>2, CalmBefore DEF AbsentInv, ListedInv, SnapInv
  <2>2. ASSUME NEW t \in Threads, ThreadStep(t)
        PROVE  Listing' /\ Snapshots'
    <3>1. Listing'
      BY <2>1, <2>2, ListedNodes, ListedWrites, ListedRename, ListedSync, ListedSnapshots
         DEF ThreadStep, FlushCalls
    <3> QED
      BY <2>1, <2>2, <3>1, SnapshotsStep
  <2>3. CASE CrashAndOpen
    BY <2>1, <2>3, ListedCrash, SnapshotsCrash
  <2> QED
    BY <1>2, <2>2, <2>3 DEF Next, ThreadStep
<1> QED
  BY <1>1, <1>2

LEMMA ListedInit == Init => ListedInv /\ SnapInv
<1> SUFFICES ASSUME Init
             PROVE  Listing /\ Snapshots
  BY DEF ListedInv, SnapInv
<1>1. \A t \in Threads : call[t].op = "none" /\ call[t].pc = "none"
  BY DEF Init, NoCall
<1>2. /\ sidecar = None /\ snap = None /\ \A id \in Ids : promised[id] = None
      /\ file.header.nodes = 0 /\ header.nodes = 0
  BY DEF Init, Empty, NoHeader
<1>3. \A t \in Threads : InsertedListed(t) /\ Counted(t) /\ Writing(t) /\ Shrinks(t)
  BY <1>1 DEF InsertedListed, Counted, Writing, Shrinks, Shrinking, Inserting, Deleting,
              Persisting, At
<1>4. Listing
  BY <1>2, <1>3 DEF Listing, PromisedListed
<1>5. Snapshots
  BY <1>1, <1>2 DEF Snapshots, Exporting, Rebuilding, Importing
<1> QED
  BY <1>4, <1>5

LEMMA GraphStep == GraphInv /\ [Next]_vars => GraphInv'
BY CallStep, KnownStep, ApartStep, AbsentStep, ListedStep DEF GraphInv

LEMMA GraphInit == Init => GraphInv
BY CallInit, KnownInit, AbsentInit, ListedInit DEF GraphInv

\* query_nodes_by_kind has every node whose insert_node returned, once and under its
\* kind, and nothing else, across flushes that race with inserts, deletes, crashes in
\* any step, a sidecar that is accepted or not, and imports.
THEOREM KindsAreRight == Spec => []KindIndexRight
<1>1. Init => GraphInv
  BY GraphInit
<1>2. GraphInv /\ [Next]_vars => GraphInv'
  BY GraphStep
<1>3. GraphInv => KindIndexRight
  BY DEF GraphInv, ListedInv, Listing, PromisedListed, KnownInv, KnownIndex, KindIndexRight,
         Calm, NoImport
<1> QED
  BY <1>1, <1>2, <1>3, PTL DEF Spec

LEMMA ImportEnds ==
  ASSUME GraphInv, Next, NEW t \in Threads, Importing(t), Idle(t)', crashes' = crashes, Calm,
         Apart'
  PROVE  RenameTemp(t)
<1>0. CallInv
  BY DEF GraphInv
<1>1. PICK u \in Threads : ThreadStep(u)
  <2>1. ~CrashAndOpen
    <3>1. CrashAndOpen => crashes' = crashes + 1
      BY DEF CrashAndOpen
    <3>2. crashes \in Nat
      BY <1>0 DEF CallInv, TypeOK
    <3> QED
      BY <3>1, <3>2
  <2> QED
    BY <2>1 DEF Next, ThreadStep
<1>2. u = t
  BY <1>0, <1>1, OthersKept DEF SameCall, Importing, Idle
<1>3. call[t].pc \in StepsOf("snapshot_import") /\ call[t].op = "snapshot_import"
  BY <1>0 DEF Importing, CallInv, InCall
<1>4. CASE NodeCalls(t)
  BY <1>3, <1>4 DEF NodeCalls, InsertNode, GetNode, UpdateNode, DeleteEntity, BeginEdge,
                    CheckEnd, InsertEdge,
                    Starts, Idle, At, StepsOf
<1>5. CASE FlushCalls(t)
  <2>1. CASE CreateTemp(t) \/ WriteHead(t) \/ WriteEntries(t)
    <3>1. Same(call[t], call'[t])
      BY <1>0, <2>1, CreateTempOwn, WriteHeadOwn, WriteEntriesOwn
    <3> QED
      BY <1>3, <3>1 DEF Same, Idle
  <2> QED
    BY <1>3, <1>5, <2>1 DEF FlushCalls, Flush, TakeCount, SyncHeader, Starts, Idle, At, StepsOf
<1>6. CASE SnapshotCalls(t)
  <2>1. CASE ImportStores(t) \/ ImportHeader(t) \/ ImportRebuild(t)
    <3>1. Same(call[t], call'[t])
      BY <1>0, <2>1, ImportStoresOwn, ImportHeaderOwn, ImportRebuildOwn
    <3> QED
      BY <1>3, <3>1 DEF Same, Idle
  <2> QED
    BY <1>3, <1>6, <2>1 DEF SnapshotCalls, ExportHeader, ExportPages, ImportCopy, Starts, Idle,
                            At, StepsOf
<1> QED
  BY <1>1, <1>2, <1>4, <1>5, <1>6 DEF ThreadStep

\* snapshot_import returns with the nodes of the snapshot, through a cache that is
\* never cleared, if nobody wrote into the export and nothing else was going on.
THEOREM ImportsRestore == Spec => ImportRestores
<1> DEFINE Restored(t) ==
      Importing(t) /\ Idle(t)' /\ crashes' = crashes /\ events = {} /\ races' = {} =>
        /\ \A id \in Present(snap.promised) : Read(id)' = snap.promised[id]
        /\ EntityIds' \subseteq Present(snap.nodes)
        /\ Present(snap.promised) \subseteq EntityIds'
<1>1. Init => GraphInv
  BY GraphInit
<1>2. GraphInv /\ [Next]_vars => GraphInv'
  BY GraphStep
<1>3. ASSUME GraphInv, [Next]_vars
      PROVE  [\A t \in Threads : Restored(t)]_vars
  <2> SUFFICES ASSUME Next, NEW t \in Threads,
                      Importing(t) /\ Idle(t)' /\ crashes' = crashes /\ events = {} /\ races' = {}
               PROVE  /\ \A id \in Present(snap.promised) : Read(id)' = snap.promised[id]
                      /\ EntityIds' \subseteq Present(snap.nodes)
                      /\ Present(snap.promised) \subseteq EntityIds'
    BY <1>3
  <2>1. Calm /\ CallInv /\ Apart'
    BY <1>2, <1>3 DEF Calm, Next, Watch, GraphInv
  <2>2. RenameTemp(t)
    BY <1>3, <2>1, ImportEnds
  <2>3. call[t].pc = "rename" /\ UNCHANGED <<nodes, cache, header>>
    BY <2>2 DEF RenameTemp, At
  <2>4. /\ nodes = SnapFound /\ snap.quiet /\ header = snap.header /\ snap # None
        /\ \A id \in Ids : snap.promised[id] # None => id <= header.nodes
        /\ \A id \in Ids : cache[id] # None => cache[id] = nodes[id]
        /\ Sound(snap.nodes, snap.promised, snap.header.root)
    BY <1>3, <2>1, <2>3, V3GraphAssumption
       DEF GraphInv, SnapInv, Snapshots, Rebuilding, Persisting, At, CallInv, InCall
  <2>5. \A id \in Ids : Read(id)' = nodes[id]
    BY <2>3, <2>4 DEF Read, Cached, Lookup
  <2>6. \A id \in Present(snap.promised) : id \in Ids /\ nodes[id] = snap.promised[id] /\ id <= header.nodes
                                           /\ snap.promised[id] # None
    BY <2>4 DEF Present, Sound, SnapFound
  <2>7. EntityIds' = {id \in Ids : id <= header.nodes /\ nodes[id] # None}
    BY <2>3, <2>5 DEF EntityIds, Scanned
  <2>8. \A id \in Ids : nodes[id] # None => snap.nodes[id] # None
    BY <2>4 DEF SnapFound, Empty
  <2>9. EntityIds' \subseteq Present(snap.nodes)
    BY <2>7, <2>8 DEF Present
  <2>10. Present(snap.promised) \subseteq EntityIds'
    BY <2>6, <2>7
  <2> QED
    BY <2>5, <2>6, <2>9, <2>10
<1> QED
  BY <1>1, <1>2, <1>3, PTL DEF Spec, ImportRestores
=============================================================================
