-------------------------- MODULE SqliteGraph_proofs --------------------------
(***************************************************************************)
(* Theorems about SqliteGraph, for any number of instances, ids and calls, *)
(* and about the vector index of HnswIndex, for any configuration.         *)
(***************************************************************************)
EXTENDS SqliteGraph, HnswIndex, WellFoundedInduction, FiniteSetTheorems, TLAPS

\* A non-empty set of naturals has a least element.
LEMMA LeastNatural ==
  ASSUME NEW T, T \subseteq Nat, T # {}
  PROVE  \E x \in T : \A y \in T : x <= y
<1> DEFINE LT == OpToRel(<, Nat)
<1>1. \A x, y \in Nat : y < x => <<y, x>> \in LT
  BY DEF OpToRel
<1>2. IsWellFoundedOn(LT, Nat)
  BY NatLessThanWellFounded
<1> HIDE DEF LT
<1>3. PICK x \in T : \A y \in T : ~(<<y, x>> \in LT)
  BY <1>2, WFMin, Zenon
<1>4. \A y \in T : ~(y < x)
  BY <1>1, <1>3, Zenon
<1> QED
  BY <1>4

-----------------------------------------------------------------------------
(* The inductive invariant *)

UniqueIds(es) == \A e, f \in es : e.id = f.id => e = f

\* What a call and the dump file are.
CallTypes ==
  /\ call \in [Inst -> Calls \cup {None}]
  /\ \A i \in Inst : In(i, "insert_entity") => call[i].id <= lastEntity
  /\ raced \subseteq Ids /\ cut \subseteq Ids
  /\ file \in Files \cup {None}

\* Edge ids are not used again: a dump that runs among other writes never has
\* two edges with one id.
DumpTypes ==
  /\ file \in Files => UniqueIds(file.edges)
  /\ \A i, j \in Inst : In(i, "dump") /\ In(j, "dump") => i = j
  /\ \A i \in Inst : In(i, "dump") =>
       /\ file \in Files
       /\ \A e \in file.edges : /\ e.id <= lastEdge
                                /\ \A f \in edges : e.id = f.id => e = f

GraphTypes == TypeOK /\ CallTypes /\ DumpTypes

\* Caches are kept for every instance, under ids.
CacheTypes ==
  /\ DOMAIN outgoing = Inst /\ DOMAIN incoming = Inst
  /\ DOMAIN answers = Inst /\ DOMAIN held = Inst
  /\ \A i \in Inst : DOMAIN outgoing[i] \subseteq Ids /\ DOMAIN incoming[i] \subseteq Ids

\* Labels of ids to come are there only in a loaded graph.
LabelsOfRows ==
  /\ LabelsTellKinds
  /\ \A g \in labels : g[1] > lastEntity => g[1] \in recycled

\* What the dump has written so far, and what it still has to.
DumpFollowsRows ==
  \A i \in Inst : In(i, "dump") =>
    /\ ~file.ok
    /\ i \notin disturbed =>
         entities = file.src.entities /\ edges = file.src.edges /\ labels = file.src.labels
    /\ call[i].part = "entities" =>
         /\ DOMAIN file.src.entities = DOMAIN file.entities \cup call[i].left
         /\ file.edges = {}
         /\ file.quiet => \A x \in DOMAIN file.entities : file.entities[x] = file.src.entities[x]
    /\ call[i].part = "edges" /\ file.quiet =>
         /\ file.entities = file.src.entities
         /\ file.edges \subseteq file.src.edges
         /\ i \notin disturbed =>
              {e.id : e \in file.src.edges} = {e.id : e \in file.edges} \cup call[i].left

\* What a file that no write came into holds of the graph it was made of.
FileFollowsSource ==
  file \in Files =>
    /\ UniqueIds(file.src.edges)
    /\ \A e \in file.src.edges : \A x \in {e.from, e.to} :
         x \in DOMAIN file.src.entities \cup file.src.cut \/ e.id \in file.src.raced
    /\ file.quiet /\ file.edges # {} =>
         file.entities = file.src.entities /\ file.edges \subseteq file.src.edges
    /\ file.ok /\ file.quiet /\ file.whole =>
         /\ file.entities = file.src.entities
         /\ file.edges = file.src.edges
         /\ file.labels = file.src.labels

DumpRight == DumpFollowsRows /\ FileFollowsSource

-----------------------------------------------------------------------------
(* Rows *)

LEMMA LeastOfSet ==
  ASSUME NEW S, S \subseteq Nat, S # {}
  PROVE  Least(S) \in S /\ \A y \in S : Least(S) <= y
BY LeastNatural DEF Least

\* Rows for new edges have ids of their own after those used so far.
LEMMA NewRows ==
  ASSUME NEW es \in Seq(NewEdge), NEW at, at \subseteq DOMAIN es, lastEdge \in 0..MaxId,
         FitsEdges(Cardinality(at))
  PROVE  /\ Rows(es, at) \subseteq Edge
         /\ UniqueIds(Rows(es, at))
         /\ lastEdge + Cardinality(at) \in 0..MaxId
         /\ Cardinality(at) \in Nat
         /\ \A e \in Rows(es, at) : lastEdge < e.id /\ e.id <= lastEdge + Cardinality(at)
<1> DEFINE upto(n) == {m \in at : m <= n}
<1>1. IsFiniteSet(at) /\ at \subseteq Nat
  <2>1. IsFiniteSet(1..Len(es)) /\ DOMAIN es = 1..Len(es) /\ Len(es) \in Nat
    BY FS_Interval
  <2> QED
    BY <2>1, FS_Subset
<1>2. ASSUME NEW n \in at
      PROVE  /\ IsFiniteSet(upto(n))
             /\ Cardinality(upto(n)) \in 1..Cardinality(at)
  <2>1. upto(n) \in SUBSET at /\ n \in upto(n)
    BY <1>1
  <2>2. IsFiniteSet(upto(n)) /\ Cardinality(upto(n)) <= Cardinality(at)
    BY <1>1, <2>1, FS_Subset
  <2>3. Cardinality(upto(n)) \in Nat /\ Cardinality(upto(n)) # 0
    BY <2>1, <2>2, FS_CardinalityType, FS_EmptySet
  <2>4. Cardinality(at) \in Nat
    BY <1>1, FS_CardinalityType
  <2> QED
    BY <2>2, <2>3, <2>4
<1>3. ASSUME NEW m \in at, NEW n \in at, m < n
      PROVE  Cardinality(upto(m)) # Cardinality(upto(n))
  <2>1. upto(m) \in SUBSET upto(n) /\ n \in upto(n) /\ n \notin upto(m)
    BY <1>1, <1>3
  <2> HIDE DEF upto
  <2>2. IsFiniteSet(upto(n))
    BY <1>2
  <2> QED
    BY <2>1, <2>2, FS_Subset
<1>4. ASSUME NEW n \in at
      PROVE  es[n].from \in Ids /\ es[n].to \in Ids /\ es[n].type \in Types
  <2>1. es[n] \in NewEdge
    OBVIOUS
  <2> QED
    BY <2>1 DEF NewEdge
<1>5. Cardinality(at) \in Nat
  BY <1>1, FS_CardinalityType
<1>6. lastEdge + Cardinality(at) \in 0..MaxId
  BY <1>5, SqliteAssumption DEF FitsEdges
<1> DEFINE row(n) == [id |-> lastEdge + Cardinality(upto(n)), from |-> es[n].from,
                      to |-> es[n].to, type |-> es[n].type]
<1>7. Rows(es, at) = {row(n) : n \in at}
  BY DEF Rows
<1> HIDE DEF upto
<1>8. ASSUME NEW n \in at
      PROVE  row(n) \in Edge /\ lastEdge < row(n).id
             /\ row(n).id <= lastEdge + Cardinality(at)
  <2>1. lastEdge + Cardinality(upto(n)) \in Ids /\ lastEdge < lastEdge + Cardinality(upto(n))
        /\ lastEdge + Cardinality(upto(n)) <= lastEdge + Cardinality(at)
    BY <1>2, <1>5, <1>6, SqliteAssumption DEF Ids
  <2> QED
    BY <1>4, <2>1 DEF Edge
<1>9. ASSUME NEW m \in at, NEW n \in at, row(m).id = row(n).id
      PROVE  m = n
  <2>1. Cardinality(upto(m)) = Cardinality(upto(n))
    BY <1>2, <1>5, <1>9, SqliteAssumption
  <2> QED
    BY <1>1, <1>3, <2>1
<1> HIDE DEF row
<1> QED
  BY <1>5, <1>6, <1>7, <1>8, <1>9 DEF UniqueIds

LEMMA RowsEnds ==
  ASSUME NEW es, NEW at, NEW e \in Rows(es, at)
  PROVE  \E n \in at : e.from = es[n].from /\ e.to = es[n].to
<1>1. PICK n \in at : e = [id |-> lastEdge + Cardinality({m \in at : m <= n}),
                          from |-> es[n].from, to |-> es[n].to, type |-> es[n].type]
  BY Zenon DEF Rows
<1> QED
  BY <1>1

\* Rows of graph_entities under their ids.
LEMMA EntityRows ==
  ASSUME NEW n \in Nat, NEW f
  PROVE  f \in RowsUpTo(n) <=>
           /\ f = [x \in DOMAIN f |-> f[x]]
           /\ DOMAIN f \subseteq 1..n
           /\ \A x \in DOMAIN f : f[x] \in Kinds
BY DEF RowsUpTo

-----------------------------------------------------------------------------
(* Types *)

\* A step of an instance in none of the dump's calls leaves the file alone and
\* its call, if it is in one then, is an insert or a delete.
CallOf(i, c) ==
  /\ c \in Calls \cup {None}
  /\ file' = file
  /\ call' = [call EXCEPT ![i] = c]
  /\ c # None => c.op # "dump"
  /\ c # None /\ c.op = "insert_entity" => c.id <= lastEntity'

OtherStep(i) ==
  \/ Reads(i) /\ UNCHANGED <<calls, faults>>
  \/ EntityWrites(i)
  \/ EdgeWrites(i)
  \/ Load(i)
  \/ Die(i) /\ ~In(i, "dump")

\* What is known of a call from the operation it is in.
LEMMA CallFields ==
  ASSUME GraphTypes, NEW i \in Inst
  PROVE  /\ call = [j \in Inst |-> call[j]]
         /\ Idle(i) => call = [call EXCEPT ![i] = None]
         /\ In(i, "insert_entity") =>
              call[i].id \in 1..lastEntity /\ call[i].id \in Ids /\ call[i].kind \in Kinds
         /\ In(i, "delete_entity") => call[i].id \in Ids
         /\ In(i, "insert_edges") =>
              /\ call[i] \in [op : {"insert_edges"}, edges : Seq(NewEdge), checked : Nat]
              /\ call[i].edges \in Seq(NewEdge)
         /\ In(i, "bulk_insert_edges") =>
              /\ call[i] \in [op : {"bulk_insert_edges"}, chunks : Seq(Seq(NewEdge)) \ {<<>>}]
              /\ Head(call[i].chunks) \in Seq(NewEdge)
         /\ In(i, "dump") =>
              /\ call[i] \in [op : {"dump"}, part : {"entities", "edges"}, left : SUBSET Ids]
              /\ file \in Files
<1>1. call \in [Inst -> Calls \cup {None}] /\ lastEntity \in 0..MaxId /\ MaxId \in Nat
  BY SqliteAssumption DEF GraphTypes, CallTypes, TypeOK
<1>2. call[i] # None => call[i] \in Calls
  BY <1>1
<1>3. In(i, "insert_entity") =>
        call[i].id \in 1..lastEntity /\ call[i].id \in Ids /\ call[i].kind \in Kinds
  BY <1>1, <1>2 DEF In, Calls, GraphTypes, CallTypes, Ids
<1>4. In(i, "delete_entity") => call[i].id \in Ids
  BY <1>2 DEF In, Calls
<1>5. In(i, "insert_edges") =>
        call[i] \in [op : {"insert_edges"}, edges : Seq(NewEdge), checked : Nat]
  BY <1>2 DEF In, Calls
<1>6. In(i, "bulk_insert_edges") =>
        call[i] \in [op : {"bulk_insert_edges"}, chunks : Seq(Seq(NewEdge)) \ {<<>>}]
  BY <1>2 DEF In, Calls
<1>7. In(i, "bulk_insert_edges") => Head(call[i].chunks) \in Seq(NewEdge)
  BY <1>6
<1>8. In(i, "dump") =>
        call[i] \in [op : {"dump"}, part : {"entities", "edges"}, left : SUBSET Ids]
  BY <1>2 DEF In, Calls
<1>9. In(i, "dump") => file \in Files
  BY DEF GraphTypes, DumpTypes
<1> QED
  BY <1>1, <1>3, <1>4, <1>5, <1>6, <1>7, <1>8, <1>9 DEF Idle

\* More than one chunk leaves some.
LEMMA LongTail ==
  ASSUME NEW S, NEW c \in Seq(S) \ {<<>>}, Len(c) # 1
  PROVE  Tail(c) \in Seq(S) \ {<<>>}
<1>1. c \in Seq(S) /\ Len(c) \in Nat /\ Len(c) # 0
  OBVIOUS
<1>2. Tail(c) \in Seq(S) /\ Len(Tail(c)) = Len(c) - 1
  BY <1>1
<1>3. Len(Tail(c)) # 0
  BY <1>1, <1>2
<1>4. ASSUME Tail(c) = <<>>
      PROVE  FALSE
  <2>1. Len(<<>>) = 0
    OBVIOUS
  <2> QED
    BY <1>3, <1>4, <2>1, Zenon
<1> QED
  BY <1>2, <1>4, Zenon

LEMMA CallSteps ==
  ASSUME GraphTypes, NEW i \in Inst, OtherStep(i)
  PROVE  \E c : CallOf(i, c)
<1> USE DEF CallOf
<1>1. CASE Reads(i)
  BY <1>1, CallFields DEF Reads, FetchOutgoing, FetchIncoming, Query, AcquireSnapshot,
     MayRead
<1>2. CASE EntityWrites(i)
  <2>1. ASSUME NEW k \in Kinds, InsertEntity(i, k)
        PROVE  \E c : CallOf(i, c)
    <3> DEFINE c == [op |-> "insert_entity", id |-> lastEntity + 1, kind |-> k]
    <3>1. lastEntity' = lastEntity + 1 /\ lastEntity + 1 \in Ids
      BY <2>1, SqliteAssumption DEF InsertEntity, FitsEntities, GraphTypes, TypeOK, Ids
    <3>2. c \in Calls /\ c.id <= lastEntity'
      BY <3>1 DEF Calls, Ids
    <3>3. CallOf(i, c)
      BY <2>1, <3>2 DEF InsertEntity, Enter
    <3> QED
      BY <3>3
  <2>2. ASSUME NEW x \in Ids, DeleteEntity(i, x)
        PROVE  \E c : CallOf(i, c)
    <3> DEFINE c == [op |-> "delete_entity", id |-> x]
    <3>1. CallOf(i, c)
      BY <2>2 DEF DeleteEntity, Enter, Calls
    <3> QED
      BY <3>1
  <2>3. ASSUME InsertLabel(i) \/ InsertLabelFails(i) \/ DeleteItsEdges(i)
               \/ DeleteItsEdgesFails(i)
        PROVE  CallOf(i, None)
    BY <2>3 DEF InsertLabel, InsertLabelFails, DeleteItsEdges, DeleteItsEdgesFails, Return
  <2>4. ASSUME NEW kinds, InsertEntitiesBulk(i, kinds) \/ BulkInsertEntities(i, kinds)
        PROVE  CallOf(i, None)
    BY <2>4, CallFields DEF InsertEntitiesBulk, BulkInsertEntities, MayStart
  <2>5. ASSUME NEW x, NEW k, UpdateEntity(i, x, k) \/ AddLabel(i, x, k)
        PROVE  CallOf(i, None)
    BY <2>5, CallFields DEF UpdateEntity, AddLabel, MayStart
  <2> QED
    BY <1>2, <2>1, <2>2, <2>3, <2>4, <2>5 DEF EntityWrites
<1>3. CASE EdgeWrites(i)
  <2>1. ASSUME NEW es \in EdgeBatches, BeginEdges(i, es)
        PROVE  \E c : CallOf(i, c)
    <3> DEFINE c == [op |-> "insert_edges", edges |-> es, checked |-> 0]
    <3>1. CallOf(i, c)
      BY <2>1, SqliteAssumption DEF BeginEdges, Enter, Calls
    <3> QED
      BY <3>1
  <2>2. ASSUME EndExists(i)
        PROVE  \E c : CallOf(i, c)
    <3> DEFINE c == [call[i] EXCEPT !.checked = @ + 1]
    <3>1. c \in [op : {"insert_edges"}, edges : Seq(NewEdge), checked : Nat]
      <4>1. call[i] \in [op : {"insert_edges"}, edges : Seq(NewEdge), checked : Nat]
        BY <2>2, CallFields DEF EndExists
      <4> QED
        BY <4>1
    <3>2. call' = [call EXCEPT ![i] = c] /\ file' = file
      BY <2>2 DEF EndExists
    <3>3. CallOf(i, c)
      BY <3>1, <3>2 DEF Calls
    <3> QED
      BY <3>3
  <2>3. ASSUME EndMissing(i) \/ InsertEdges(i) \/ InsertEdgesFails(i) \/ ChunkRefused(i)
        PROVE  CallOf(i, None)
    BY <2>3 DEF EndMissing, InsertEdges, InsertEdgesFails, ChunkRefused, Return
  <2>4. ASSUME NEW chunks \in Chunkings, BeginChunks(i, chunks)
        PROVE  \E c : CallOf(i, c)
    <3> DEFINE c == [op |-> "bulk_insert_edges", chunks |-> chunks]
    <3>1. CallOf(i, c)
      BY <2>4, SqliteAssumption DEF BeginChunks, Enter, Calls
    <3> QED
      BY <3>1
  <2>5. ASSUME InsertChunk(i)
        PROVE  \E c : CallOf(i, c)
    <3> DEFINE c == [call[i] EXCEPT !.chunks = Tail(@)]
    <3>1. /\ file' = file
          /\ call' = IF Len(call[i].chunks) = 1 THEN [call EXCEPT ![i] = None]
                     ELSE [call EXCEPT ![i] = c]
      BY <2>5 DEF InsertChunk, Return
    <3>2. call[i] \in [op : {"bulk_insert_edges"}, chunks : Seq(Seq(NewEdge)) \ {<<>>}]
      BY <2>5, CallFields DEF InsertChunk
    <3>3. Len(call[i].chunks) # 1 => Tail(call[i].chunks) \in Seq(Seq(NewEdge)) \ {<<>>}
      BY <3>2, LongTail
    <3>4. Len(call[i].chunks) # 1 => c \in Calls /\ c.op = "bulk_insert_edges"
      BY <3>2, <3>3 DEF Calls
    <3>5. CASE Len(call[i].chunks) = 1
      BY <3>1, <3>5
    <3>6. CASE Len(call[i].chunks) # 1
      <4>1. CallOf(i, c)
        BY <3>1, <3>4, <3>6
      <4> QED
        BY <4>1
    <3> QED
      BY <3>5, <3>6
  <2>6. ASSUME NEW e, DeleteEdge(i, e)
        PROVE  CallOf(i, None)
    BY <2>6, CallFields DEF DeleteEdge, MayStart
  <2> QED
    BY <1>3, <2>1, <2>2, <2>3, <2>4, <2>5, <2>6 DEF EdgeWrites
<1>4. CASE Load(i)
  BY <1>4, CallFields DEF Load, MayStart
<1>5. CASE Die(i) /\ ~In(i, "dump")
  BY <1>5 DEF Die, Return
<1> QED
  BY <1>1, <1>2, <1>3, <1>4, <1>5 DEF OtherStep

\* Edges stay, or have ids that were not given yet, unless nobody dumps.
LEMMA TypesFromRows ==
  ASSUME GraphTypes, TypeOK', NEW i \in Inst, NEW c, CallOf(i, c),
         raced' \subseteq Ids, cut' \subseteq Ids,
         lastEntity <= lastEntity', lastEdge <= lastEdge',
         \/ \A f \in edges' : f \in edges \/ lastEdge < f.id
         \/ \A j \in Inst : ~In(j, "dump")
  PROVE  GraphTypes'
<1>1. /\ call \in [Inst -> Calls \cup {None}]
      /\ \A j \in Inst : In(j, "insert_entity") => call[j].id \in 1..lastEntity
      /\ lastEntity \in Nat /\ lastEntity' \in Nat /\ lastEdge \in Nat /\ lastEdge' \in Nat
  BY CallFields DEF GraphTypes, TypeOK, CallTypes
<1>2. \A j \in Inst : call'[j] = IF j = i THEN c ELSE call[j]
  BY <1>1 DEF CallOf
<1>3. call' \in [Inst -> Calls \cup {None}]
  BY <1>1 DEF CallOf
<1>4. ASSUME NEW j \in Inst, In(j, "insert_entity")'
      PROVE  call'[j].id <= lastEntity'
  BY <1>1, <1>2, <1>4 DEF In, CallOf
<1>5. ASSUME NEW j \in Inst, In(j, "dump")'
      PROVE  In(j, "dump") /\ j # i
  BY <1>2, <1>5 DEF In, CallOf
<1>6. CallTypes'
  BY <1>3, <1>4 DEF CallTypes, CallOf, GraphTypes
<1>7. ASSUME NEW j \in Inst, In(j, "dump")'
      PROVE  /\ file' \in Files
             /\ \A e \in file'.edges : /\ e.id <= lastEdge'
                                       /\ \A f \in edges' : e.id = f.id => e = f
  <2>1. /\ file' = file /\ file \in Files
        /\ \A e \in file.edges : e.id <= lastEdge /\ \A f \in edges : e.id = f.id => e = f
    BY <1>5, <1>7 DEF CallOf, GraphTypes, DumpTypes
  <2>2. \A f \in edges' : f \in edges \/ lastEdge < f.id
    BY <1>5, <1>7
  <2>3. \A e \in file.edges : e.id \in Nat
    BY <2>1 DEF Files, Edge, Ids
  <2>4. \A f \in edges' : f.id \in Nat
    BY DEF TypeOK, Edge, Ids
  <2> QED
    BY <1>1, <2>1, <2>2, <2>3, <2>4
<1>8. DumpTypes'
  <2>1. file' \in Files => UniqueIds(file'.edges)
    BY DEF CallOf, GraphTypes, DumpTypes
  <2>2. \A j, k \in Inst : In(j, "dump")' /\ In(k, "dump")' => j = k
    BY <1>5 DEF GraphTypes, DumpTypes
  <2> QED
    BY <1>7, <2>1, <2>2 DEF DumpTypes
<1> QED
  BY <1>6, <1>8 DEF GraphTypes

\* What an inserted entity, or several, do to the rows.
LEMMA MoreEntities ==
  ASSUME TypeOK, NEW kinds \in Seq(Kinds), FitsEntities(Len(kinds))
  PROVE  /\ NewEntities(kinds) \in RowsUpTo(lastEntity + Len(kinds))
         /\ lastEntity + Len(kinds) \in 0..MaxId
<1>1. lastEntity \in Nat /\ MaxId \in Nat /\ Len(kinds) \in Nat
  BY SqliteAssumption DEF TypeOK
<1>2. lastEntity + Len(kinds) \in 0..MaxId
  BY <1>1 DEF FitsEntities
<1>3. DOMAIN entities \subseteq 1..lastEntity /\ \A x \in DOMAIN entities : entities[x] \in Kinds
  BY <1>1, EntityRows DEF TypeOK
<1> DEFINE new == NewEntities(kinds)
<1>4. /\ new = [x \in DOMAIN new |-> new[x]]
      /\ DOMAIN new = DOMAIN entities \cup (lastEntity + 1)..(lastEntity + Len(kinds))
      /\ \A x \in DOMAIN new :
           new[x] = IF x <= lastEntity THEN entities[x] ELSE kinds[x - lastEntity]
  BY DEF NewEntities
<1> HIDE DEF new
<1>5. DOMAIN new \subseteq 1..(lastEntity + Len(kinds))
  BY <1>1, <1>3, <1>4
<1>6. ASSUME NEW x \in DOMAIN new
      PROVE  new[x] \in Kinds
  <2>1. x \in Nat
    BY <1>1, <1>5
  <2>2. CASE x <= lastEntity
    <3>1. x \in DOMAIN entities
      BY <1>1, <1>4, <2>1, <2>2
    <3> QED
      BY <1>3, <1>4, <2>2, <3>1
  <2>3. CASE ~(x <= lastEntity)
    <3>1. x \in (lastEntity + 1)..(lastEntity + Len(kinds))
      BY <1>1, <1>3, <1>4, <2>1, <2>3
    <3>2. x - lastEntity \in 1..Len(kinds)
      BY <1>1, <3>1
    <3> QED
      BY <1>4, <2>3, <3>2
  <2> QED
    BY <2>2, <2>3
<1>7. new \in RowsUpTo(lastEntity + Len(kinds))
  BY <1>1, <1>4, <1>5, <1>6, EntityRows
<1> QED
  BY <1>2, <1>7 DEF new

LEMMA OneMoreEntity ==
  ASSUME TypeOK, NEW k \in Kinds, FitsEntities(1)
  PROVE  /\ lastEntity + 1 \in Ids
         /\ Put(entities, lastEntity + 1, k) \in RowsUpTo(lastEntity + 1)
<1>1. lastEntity \in Nat /\ MaxId \in Nat /\ lastEntity + 1 \in Ids
  BY SqliteAssumption DEF TypeOK, FitsEntities, Ids
<1>2. DOMAIN entities \subseteq 1..lastEntity /\ \A x \in DOMAIN entities : entities[x] \in Kinds
  BY <1>1, EntityRows DEF TypeOK
<1> DEFINE new == Put(entities, lastEntity + 1, k)
<1>3. /\ new = [x \in DOMAIN new |-> new[x]]
      /\ DOMAIN new = DOMAIN entities \cup {lastEntity + 1}
      /\ \A x \in DOMAIN new : new[x] = IF x = lastEntity + 1 THEN k ELSE entities[x]
  BY DEF Put
<1> HIDE DEF new
<1>4. DOMAIN new \subseteq 1..(lastEntity + 1) /\ \A x \in DOMAIN new : new[x] \in Kinds
  BY <1>1, <1>2, <1>3
<1> QED
  BY <1>1, <1>3, <1>4, EntityRows DEF new

\* One lemma per kind of step: the rows keep their types.
LEMMA EntityRowTypes ==
  ASSUME GraphTypes, NEW i \in Inst, EntityWrites(i)
  PROVE  /\ TypeOK'
         /\ edges' \subseteq edges /\ lastEdge' = lastEdge /\ lastEntity <= lastEntity'
         /\ raced' \subseteq Ids /\ cut' \subseteq Ids
<1>1. /\ entities \in RowsUpTo(lastEntity)
      /\ edges \subseteq Edge /\ \A e \in edges : e.id <= lastEdge
      /\ labels \subseteq Ids \X Kinds
      /\ lastEntity \in 0..MaxId /\ lastEdge \in 0..MaxId
      /\ \A e, f \in edges : e.id = f.id => e = f
      /\ raced \subseteq Ids /\ cut \subseteq Ids
      /\ MaxId \in Nat
  BY SqliteAssumption DEF GraphTypes, TypeOK, CallTypes
<1>2. DOMAIN entities \subseteq 1..lastEntity /\ entities = [x \in DOMAIN entities |-> entities[x]]
      /\ \A x \in DOMAIN entities : entities[x] \in Kinds
  BY <1>1, EntityRows
<1>3. TypeOK
  BY DEF GraphTypes
<1>4. ASSUME NEW k \in Kinds, InsertEntity(i, k)
      PROVE  /\ lastEntity' = lastEntity + 1 /\ lastEntity' \in 0..MaxId
             /\ entities' \in RowsUpTo(lastEntity')
             /\ UNCHANGED <<edges, labels, lastEdge, raced, cut>>
  BY <1>1, <1>3, <1>4, OneMoreEntity DEF InsertEntity, Ids
<1>5. ASSUME NEW kinds \in EntityBatches,
             InsertEntitiesBulk(i, kinds) \/ BulkInsertEntities(i, kinds)
      PROVE  /\ kinds \in Seq(Kinds) /\ Len(kinds) \in Nat
             /\ lastEntity' = lastEntity + Len(kinds) /\ lastEntity' \in 0..MaxId
             /\ entities' \in RowsUpTo(lastEntity')
             /\ \A n \in DOMAIN kinds : <<lastEntity + n, kinds[n]>> \in Ids \X Kinds
             /\ UNCHANGED <<edges, lastEdge, raced, cut>>
  <2>1. kinds \in Seq(Kinds) /\ Len(kinds) \in Nat
    BY SqliteAssumption
  <2>2. /\ FitsEntities(Len(kinds)) /\ entities' = NewEntities(kinds)
        /\ lastEntity' = lastEntity + Len(kinds)
        /\ UNCHANGED <<edges, lastEdge, raced, cut>>
    BY <1>5 DEF InsertEntitiesBulk, BulkInsertEntities
  <2>3. lastEntity' \in 0..MaxId /\ entities' \in RowsUpTo(lastEntity')
    BY <1>3, <2>1, <2>2, MoreEntities
  <2>4. \A n \in DOMAIN kinds : <<lastEntity + n, kinds[n]>> \in Ids \X Kinds
    BY <1>1, <2>1, <2>2, <2>3 DEF Ids
  <2> QED
    BY <2>1, <2>2, <2>3, <2>4
<1>6. ASSUME NEW x \in Ids, NEW k \in Kinds, UpdateEntity(i, x, k)
      PROVE  /\ entities' \in RowsUpTo(lastEntity)
             /\ UNCHANGED <<edges, labels, lastEntity, lastEdge, raced, cut>>
  <2>1. /\ entities' = [entities EXCEPT ![x] = k]
        /\ UNCHANGED <<edges, labels, lastEntity, lastEdge, raced, cut>>
    BY <1>6 DEF UpdateEntity
  <2>2. DOMAIN entities' = DOMAIN entities /\ entities' = [y \in DOMAIN entities' |-> entities'[y]]
        /\ \A y \in DOMAIN entities' : entities'[y] \in Kinds
    BY <1>2, <2>1
  <2> QED
    BY <1>1, <1>2, <2>1, <2>2, EntityRows
<1>7. ASSUME NEW x \in Ids, DeleteEntity(i, x)
      PROVE  /\ entities' \in RowsUpTo(lastEntity)
             /\ UNCHANGED <<edges, labels, lastEntity, lastEdge, raced, cut>>
  <2>1. /\ entities' = [y \in DOMAIN entities \ {x} |-> entities[y]]
        /\ UNCHANGED <<edges, labels, lastEntity, lastEdge, raced, cut>>
    BY <1>7 DEF DeleteEntity, histVars
  <2>2. /\ DOMAIN entities' \subseteq DOMAIN entities
        /\ entities' = [y \in DOMAIN entities' |-> entities'[y]]
        /\ \A y \in DOMAIN entities' : entities'[y] \in Kinds
    BY <1>2, <2>1
  <2> QED
    BY <1>1, <1>2, <2>1, <2>2, EntityRows
<1>8. ASSUME NEW x \in Ids, NEW l \in Kinds, AddLabel(i, x, l)
      PROVE  /\ labels' \subseteq Ids \X Kinds
             /\ UNCHANGED <<entities, edges, lastEntity, lastEdge, raced, cut>>
  BY <1>1, <1>8 DEF AddLabel
<1>9. ASSUME InsertLabel(i)
      PROVE  /\ labels' \subseteq Ids \X Kinds
             /\ UNCHANGED <<entities, edges, lastEntity, lastEdge, raced, cut>>
  BY <1>1, <1>9, CallFields DEF InsertLabel
<1>10. ASSUME InsertLabelFails(i)
       PROVE  UNCHANGED <<entities, edges, labels, lastEntity, lastEdge, raced, cut>>
  BY <1>10 DEF InsertLabelFails, rowVars, histVars
<1>11. ASSUME DeleteItsEdges(i)
       PROVE  /\ edges' \subseteq edges
              /\ UNCHANGED <<entities, labels, lastEntity, lastEdge, raced, cut>>
  BY <1>11 DEF DeleteItsEdges
<1>12. ASSUME DeleteItsEdgesFails(i)
       PROVE  /\ cut' \subseteq Ids
              /\ UNCHANGED <<entities, edges, labels, lastEntity, lastEdge, raced>>
  BY <1>1, <1>12, CallFields DEF DeleteItsEdgesFails, rowVars
<1> DEFINE Good == /\ TypeOK'
                   /\ edges' \subseteq edges /\ lastEdge' = lastEdge /\ lastEntity <= lastEntity'
                   /\ raced' \subseteq Ids /\ cut' \subseteq Ids
<1>13. ASSUME NEW k \in Kinds, InsertEntity(i, k)
       PROVE  Good
  BY <1>1, <1>4, <1>13 DEF TypeOK
<1>14. ASSUME NEW kinds \in EntityBatches, InsertEntitiesBulk(i, kinds)
       PROVE  Good
  <2>1. labels' = labels \cup {<<lastEntity + n, kinds[n]>> : n \in DOMAIN kinds}
    BY <1>14 DEF InsertEntitiesBulk
  <2>2. labels' \subseteq Ids \X Kinds
    BY <1>1, <1>5, <1>14, <2>1
  <2> QED
    BY <1>1, <1>5, <1>14, <2>2 DEF TypeOK
<1>15. ASSUME NEW kinds \in EntityBatches, BulkInsertEntities(i, kinds)
       PROVE  Good
  <2>1. labels' = labels
    BY <1>15 DEF BulkInsertEntities
  <2> QED
    BY <1>1, <1>5, <1>15, <2>1 DEF TypeOK
<1>16. ASSUME NEW x \in Ids, NEW k \in Kinds,
              UpdateEntity(i, x, k) \/ AddLabel(i, x, k)
       PROVE  Good
  BY <1>1, <1>6, <1>8, <1>16 DEF TypeOK
<1>17. ASSUME InsertLabel(i) \/ InsertLabelFails(i) \/ DeleteItsEdges(i) \/ DeleteItsEdgesFails(i)
       PROVE  Good
  BY <1>1, <1>9, <1>10, <1>11, <1>12, <1>17 DEF TypeOK
<1>18. ASSUME NEW x \in Ids, DeleteEntity(i, x)
       PROVE  Good
  BY <1>1, <1>7, <1>18 DEF TypeOK
<1> QED
  BY <1>13, <1>14, <1>15, <1>16, <1>17, <1>18 DEF EntityWrites

LEMMA EdgeRowTypes ==
  ASSUME GraphTypes, NEW i \in Inst, EdgeWrites(i)
  PROVE  /\ TypeOK'
         /\ \A f \in edges' : f \in edges \/ lastEdge < f.id
         /\ UNCHANGED <<entities, labels, lastEntity, cut>>
         /\ lastEdge <= lastEdge' /\ raced' \subseteq Ids
<1>1. /\ edges \subseteq Edge /\ \A e \in edges : e.id <= lastEdge
      /\ lastEdge \in 0..MaxId /\ MaxId \in Nat
      /\ \A e, f \in edges : e.id = f.id => e = f
      /\ raced \subseteq Ids
  BY SqliteAssumption DEF GraphTypes, TypeOK, CallTypes
<1> DEFINE Good(es, at) ==
      /\ edges' = edges \cup Rows(es, at)
      /\ lastEdge' = lastEdge + Cardinality(at)
      /\ raced' \subseteq raced \cup {e.id : e \in Rows(es, at)}
      /\ UNCHANGED <<entities, labels, lastEntity, cut>>
      /\ FitsEdges(Cardinality(at))
<1>2. ASSUME NEW es \in Seq(NewEdge), NEW at, at \subseteq DOMAIN es, Good(es, at)
      PROVE  /\ TypeOK'
             /\ \A f \in edges' : f \in edges \/ lastEdge < f.id
             /\ UNCHANGED <<entities, labels, lastEntity, cut>>
             /\ lastEdge <= lastEdge' /\ raced' \subseteq Ids
  <2> DEFINE new == Rows(es, at)
  <2>1. /\ new \subseteq Edge /\ UniqueIds(new)
        /\ lastEdge' \in 0..MaxId
        /\ lastEdge <= lastEdge'
        /\ \A e \in new : lastEdge < e.id /\ e.id <= lastEdge'
    BY <1>1, <1>2, NewRows
  <2>2. edges' = edges \cup new /\ raced' \subseteq raced \cup {e.id : e \in new}
    BY <1>2
  <2> HIDE DEF new
  <2>3. \A e \in edges' : e.id \in Ids /\ e.id \in Nat
    BY <1>1, <2>1, <2>2 DEF Edge, Ids
  <2>4. \A e \in edges' : e.id <= lastEdge'
    BY <1>1, <2>1, <2>2, <2>3
  <2>5. \A e, f \in edges' : e.id = f.id => e = f
    BY <1>1, <2>1, <2>2, <2>3 DEF UniqueIds
  <2>6. raced' \subseteq Ids
    BY <1>1, <2>1, <2>2 DEF Edge
  <2>7. TypeOK'
    BY <1>1, <1>2, <2>1, <2>2, <2>4, <2>5 DEF TypeOK, GraphTypes
  <2> QED
    BY <1>2, <2>1, <2>2, <2>6, <2>7
<1>3. ASSUME InsertEdges(i)
      PROVE  \E es \in Seq(NewEdge) : Good(es, DOMAIN es)
  <2> DEFINE es == call[i].edges
             new == Rows(es, DOMAIN es)
  <2>1. es \in Seq(NewEdge)
    BY <1>3, CallFields DEF InsertEdges
  <2>2. Cardinality(DOMAIN es) = Len(es)
    BY <2>1, FS_Interval
  <2>3. /\ FitsEdges(Len(es))
        /\ edges' = edges \cup new
        /\ raced' = raced \cup {e.id : e \in Dangling(new, entities)}
        /\ lastEdge' = lastEdge + Len(es)
        /\ UNCHANGED <<entities, labels, lastEntity, cut>>
    BY <1>3 DEF InsertEdges
  <2>4. {e.id : e \in Dangling(new, entities)} \subseteq {e.id : e \in new}
    BY DEF Dangling
  <2> HIDE DEF es, new
  <2>5. Good(es, DOMAIN es)
    BY <2>2, <2>3, <2>4 DEF new
  <2> QED
    BY <2>1, <2>5
<1>4. ASSUME InsertChunk(i)
      PROVE  \E es \in Seq(NewEdge) : Good(es, Firsts(es))
  <2> DEFINE es == Head(call[i].chunks)
  <2>1. es \in Seq(NewEdge)
    BY <1>4, CallFields DEF InsertChunk
  <2>2. Good(es, Firsts(es))
    BY <1>4 DEF InsertChunk
  <2> QED
    BY <2>1, <2>2
<1>5. ASSUME NEW e, DeleteEdge(i, e)
      PROVE  /\ edges' \subseteq edges
             /\ UNCHANGED <<entities, labels, lastEntity, lastEdge, cut, raced>>
  BY <1>5 DEF DeleteEdge
<1>6. ASSUME \/ \E es \in EdgeBatches : BeginEdges(i, es)
             \/ \E chunks \in Chunkings : BeginChunks(i, chunks)
             \/ EndExists(i) \/ EndMissing(i) \/ InsertEdgesFails(i) \/ ChunkRefused(i)
      PROVE  UNCHANGED <<entities, edges, labels, lastEntity, lastEdge, cut, raced>>
  BY <1>6 DEF BeginEdges, BeginChunks, EndExists, EndMissing, InsertEdgesFails, ChunkRefused,
     rowVars, histVars
<1>7. ASSUME edges' \subseteq edges, UNCHANGED <<entities, labels, lastEntity, lastEdge, cut, raced>>
      PROVE  /\ TypeOK'
             /\ \A f \in edges' : f \in edges \/ lastEdge < f.id
             /\ UNCHANGED <<entities, labels, lastEntity, cut>>
             /\ lastEdge <= lastEdge' /\ raced' \subseteq Ids
  BY <1>1, <1>7 DEF TypeOK, GraphTypes
<1>8. \A es : Firsts(es) \subseteq DOMAIN es
  BY DEF Firsts
<1> HIDE DEF Good
<1>9. CASE InsertEdges(i)
  BY <1>2, <1>3, <1>9
<1>10. CASE InsertChunk(i)
  BY <1>2, <1>4, <1>8, <1>10
<1> QED
  BY <1>5, <1>6, <1>7, <1>9, <1>10 DEF EdgeWrites

\* A loaded graph: the counters are past every id of it, and never go back.
LEMMA LoadRowTypes ==
  ASSUME GraphTypes, NEW i \in Inst, Load(i)
  PROVE  /\ TypeOK'
         /\ lastEntity <= lastEntity' /\ lastEdge <= lastEdge'
         /\ raced' \subseteq Ids /\ cut' \subseteq Ids
         /\ \A j \in Inst : ~In(j, "dump")
<1>1. /\ file \in Files /\ UniqueIds(file.edges)
      /\ lastEntity \in 0..MaxId /\ lastEdge \in 0..MaxId /\ MaxId \in Nat
  BY SqliteAssumption DEF Load, GraphTypes, TypeOK, CallTypes, DumpTypes
<1>2. /\ file.entities \in RowsUpTo(MaxId) /\ file.edges \subseteq Edge
      /\ file.labels \subseteq Ids \X Kinds
      /\ file.src.raced \subseteq Ids /\ file.src.cut \subseteq Ids
  BY <1>1 DEF Files, Graphs, Labels
<1>3. /\ DOMAIN file.entities \subseteq 1..MaxId
      /\ file.entities = [x \in DOMAIN file.entities |-> file.entities[x]]
      /\ \A x \in DOMAIN file.entities : file.entities[x] \in Kinds
  BY <1>1, <1>2, EntityRows
<1>4. /\ entities' = file.entities /\ edges' = file.edges /\ labels' = file.labels
      /\ lastEntity' = Least({x \in lastEntity..MaxId : \A y \in DOMAIN file.entities : y <= x})
      /\ lastEdge' = Least({x \in lastEdge..MaxId : \A e \in file.edges : e.id <= x})
      /\ raced' = IF file.quiet THEN file.src.raced
                  ELSE {e.id : e \in Dangling(file.edges, file.entities)}
      /\ cut' = IF file.quiet THEN file.src.cut ELSE {}
      /\ \A j \in Inst : ~In(j, "dump")
  BY DEF Load
<1>5. /\ lastEntity' \in lastEntity..MaxId
      /\ \A y \in DOMAIN file.entities : y <= lastEntity'
  <2> DEFINE S == {x \in lastEntity..MaxId : \A y \in DOMAIN file.entities : y <= x}
  <2>1. S \subseteq Nat /\ MaxId \in S
    BY <1>1, <1>3
  <2>2. Least(S) \in S
    BY <2>1, LeastOfSet
  <2> QED
    BY <1>4, <2>2
<1>6. /\ lastEdge' \in lastEdge..MaxId
      /\ \A e \in file.edges : e.id <= lastEdge'
  <2> DEFINE S == {x \in lastEdge..MaxId : \A e \in file.edges : e.id <= x}
  <2>1. S \subseteq Nat /\ MaxId \in S
    BY <1>1, <1>2 DEF Edge, Ids
  <2>2. Least(S) \in S
    BY <2>1, LeastOfSet
  <2> QED
    BY <1>4, <2>2
<1>7. lastEntity' \in 0..MaxId /\ lastEdge' \in 0..MaxId
      /\ lastEntity <= lastEntity' /\ lastEdge <= lastEdge'
  BY <1>1, <1>5, <1>6
<1>8. entities' \in RowsUpTo(lastEntity')
  <2>1. DOMAIN file.entities \subseteq 1..lastEntity'
    BY <1>1, <1>3, <1>5, <1>7
  <2> QED
    BY <1>3, <1>4, <1>7, <2>1, EntityRows
<1>9. raced' \subseteq Ids /\ cut' \subseteq Ids
  BY <1>2, <1>4 DEF Dangling, Edge
<1> QED
  BY <1>1, <1>2, <1>4, <1>6, <1>7, <1>8, <1>9 DEF TypeOK, UniqueIds

DumpStep(i) ==
  \/ DumpBegin(i) \/ DumpEntity(i) \/ DumpEdgeIds(i) \/ DumpEdge(i) \/ DumpFails(i)
  \/ DumpLabels(i) \/ DumpUnwritten(i)
  \/ Die(i) /\ In(i, "dump")

\* What the steps of a dump do to its call and to the file.
LEMMA DumpSteps ==
  ASSUME GraphTypes, NEW i \in Inst, DumpStep(i)
  PROVE  /\ UNCHANGED <<rowVars, raced>>
         /\ DumpBegin(i) \/ In(i, "dump")
         /\ ~Die(i) => cut' = cut
         /\ cut' \subseteq Ids
         /\ \A j \in Inst : j # i => call'[j] = call[j] /\ ~In(j, "dump")
         /\ call' \in [Inst -> Calls \cup {None}]
         /\ call'[i] # None => call'[i].op = "dump"
         /\ file' \in Files
         /\ DumpBegin(i) => file'.edges = {}
         /\ file' # file /\ ~DumpBegin(i) =>
              \A e \in file'.edges : e \in file.edges \/ e \in edges
<1>1. /\ call \in [Inst -> Calls \cup {None}]
      /\ \A j, k \in Inst : In(j, "dump") /\ In(k, "dump") => j = k
      /\ In(i, "dump") => file \in Files
      /\ cut \subseteq Ids /\ raced \subseteq Ids
  BY DEF GraphTypes, CallTypes, DumpTypes
<1>2. In(i, "dump") =>
        call[i] \in [op : {"dump"}, part : {"entities", "edges"}, left : SUBSET Ids]
  BY CallFields
<1>3. /\ entities \in RowsUpTo(MaxId) /\ edges \subseteq Edge /\ labels \subseteq Ids \X Kinds
      /\ MaxId \in Nat /\ lastEntity \in 0..MaxId
  <2>1. /\ entities \in RowsUpTo(lastEntity) /\ edges \subseteq Edge
        /\ labels \subseteq Ids \X Kinds
        /\ MaxId \in Nat /\ lastEntity \in 0..MaxId
    BY SqliteAssumption DEF GraphTypes, TypeOK
  <2>2. entities \in RowsUpTo(MaxId)
    BY <2>1, EntityRows
  <2> QED
    BY <2>1, <2>2
<1>4. /\ DOMAIN entities \subseteq Ids
      /\ entities = [x \in DOMAIN entities |-> entities[x]]
      /\ \A x \in DOMAIN entities : entities[x] \in Kinds
  BY <1>3, EntityRows DEF Ids
<1>5. Empty \in RowsUpTo(MaxId)
  <2>1. <<>> \in Seq(Kinds) /\ Len(<<>>) = 0
    OBVIOUS
  <2>2. <<>> \in [1..0 -> Kinds] /\ 1..0 \in SUBSET (1..MaxId)
    BY <1>3, <2>1
  <2>3. Empty \in [1..0 -> Kinds]
    BY <2>2 DEF Empty
  <2> QED
    BY <2>2, <2>3 DEF RowsUpTo
<1> DEFINE Good == /\ UNCHANGED <<rowVars, raced>>
                   /\ DumpBegin(i) \/ In(i, "dump")
                   /\ ~Die(i) => cut' = cut
                   /\ cut' \subseteq Ids
                   /\ \A j \in Inst : j # i => call'[j] = call[j] /\ ~In(j, "dump")
                   /\ call' \in [Inst -> Calls \cup {None}]
                   /\ call'[i] # None => call'[i].op = "dump"
                   /\ file' \in Files
                   /\ DumpBegin(i) => file'.edges = {}
                   /\ file' # file /\ ~DumpBegin(i) =>
                        \A e \in file'.edges : e \in file.edges \/ e \in edges
<1>6. ASSUME NEW c \in Calls \cup {None}, call' = [call EXCEPT ![i] = c]
      PROVE  /\ call' \in [Inst -> Calls \cup {None}]
             /\ \A j \in Inst : j # i => call'[j] = call[j]
             /\ call'[i] = c
  BY <1>1, <1>6
<1>7. ASSUME NEW part \in {"entities", "edges"}, NEW left \in SUBSET Ids
      PROVE  [op |-> "dump", part |-> part, left |-> left] \in Calls
  BY DEF Calls
<1>8. ASSUME NEW x, In(i, "dump")
      PROVE  [call[i] EXCEPT !.left = @ \ {x}] \in Calls
  <2>1. [call[i] EXCEPT !.left = @ \ {x}]
          \in [op : {"dump"}, part : {"entities", "edges"}, left : SUBSET Ids]
    BY <1>2, <1>8
  <2> QED
    BY <2>1 DEF Calls
<1>9. In(i, "dump") => ~DumpBegin(i) /\ \A j \in Inst : j # i => ~In(j, "dump")
  BY <1>1 DEF DumpBegin
<1>10. ASSUME DumpBegin(i)
       PROVE  file' \in Files /\ file'.edges = {}
  <2> DEFINE src == [entities |-> entities, edges |-> edges, labels |-> labels,
                     raced |-> raced, cut |-> cut \cup Deleting]
  <2>1. Deleting \subseteq Ids
    BY CallFields DEF Deleting
  <2>2. src \in Graphs
    BY <1>1, <1>3, <2>1 DEF Graphs, Labels
  <2>3. file' = [entities |-> Empty, edges |-> {}, labels |-> {}, ok |-> FALSE, whole |-> TRUE,
                 quiet |-> TRUE, src |-> src]
    BY <1>10 DEF DumpBegin
  <2> HIDE DEF src
  <2> QED
    BY <1>5, <2>2, <2>3 DEF Files, Labels
<1>11. CASE DumpBegin(i)
  <2>1. [op |-> "dump", part |-> "entities", left |-> DOMAIN entities] \in Calls
    BY <1>4, <1>7
  <2>2. /\ call' = [call EXCEPT ![i] = [op |-> "dump", part |-> "entities",
                                        left |-> DOMAIN entities]]
        /\ \A j \in Inst : ~In(j, "dump")
        /\ UNCHANGED <<rowVars, raced, cut>>
    BY <1>11 DEF DumpBegin, Enter, histVars
  <2> QED
    BY <1>1, <1>6, <1>10, <1>11, <2>1, <2>2
<1>12. CASE DumpEntity(i)
  <2>1. PICK x : /\ x \in DOMAIN entities
                 /\ file' = Record([file EXCEPT !.entities = Put(@, x, entities[x])], i)
                 /\ call' = [call EXCEPT ![i].left = @ \ {x}]
    BY <1>12 DEF DumpEntity
  <2>2. In(i, "dump") /\ UNCHANGED <<rowVars, raced, cut>> /\ file \in Files
    BY <1>1, <1>12 DEF DumpEntity, histVars
  <2> DEFINE c == [call[i] EXCEPT !.left = @ \ {x}]
             new == Put(file.entities, x, entities[x])
             q == file.quiet /\ i \notin disturbed
  <2>3. c \in Calls /\ c.op = "dump"
    BY <1>2, <1>8, <2>2
  <2>4. call' = [call EXCEPT ![i] = c]
    BY <2>1
  <2>5. new \in RowsUpTo(MaxId)
    <3>1. file.entities \in RowsUpTo(MaxId)
      BY <2>2 DEF Files
    <3>2. /\ DOMAIN new = DOMAIN file.entities \cup {x}
          /\ new = [y \in DOMAIN new |-> new[y]]
          /\ \A y \in DOMAIN new : new[y] = IF y = x THEN entities[x] ELSE file.entities[y]
      BY DEF Put
    <3> HIDE DEF new
    <3>3. DOMAIN file.entities \subseteq 1..MaxId
          /\ \A y \in DOMAIN file.entities : file.entities[y] \in Kinds
      BY <1>3, <3>1, EntityRows
    <3>4. DOMAIN new \subseteq 1..MaxId /\ \A y \in DOMAIN new : new[y] \in Kinds
      BY <1>4, <2>1, <3>2, <3>3 DEF Ids
    <3> QED
      BY <1>3, <3>2, <3>4, EntityRows
  <2>6. file' = [[file EXCEPT !.entities = new] EXCEPT !.quiet = q]
    BY <2>1, <2>2 DEF Record, Files
  <2> HIDE DEF c, new
  <2>7. q \in BOOLEAN
    BY <2>2 DEF Files
  <2>8. file' \in Files /\ file'.edges = file.edges
    BY <2>2, <2>5, <2>6, <2>7 DEF Files
  <2> QED
    BY <1>1, <1>6, <1>9, <2>2, <2>3, <2>4, <2>8
<1>13. CASE DumpEdgeIds(i)
  <2> DEFINE c == [op |-> "dump", part |-> "edges", left |-> {e.id : e \in edges}]
  <2>1. c \in Calls
    BY <1>3, <1>7 DEF Edge
  <2>2. /\ In(i, "dump") /\ UNCHANGED <<rowVars, raced, cut>> /\ file' = file
        /\ call' = [call EXCEPT ![i] = c]
    BY <1>13 DEF DumpEdgeIds, histVars, Enter
  <2> QED
    BY <1>1, <1>6, <1>9, <2>1, <2>2
<1>14. CASE DumpEdge(i)
  <2> DEFINE x == Least(call[i].left)
  <2>1. /\ \E e \in edges : file' = Record([file EXCEPT !.edges = @ \cup {e}], i)
        /\ call' = [call EXCEPT ![i].left = @ \ {x}]
    BY <1>14 DEF DumpEdge
  <2> PICK e \in edges : file' = Record([file EXCEPT !.edges = @ \cup {e}], i)
    BY <2>1
  <2>2. In(i, "dump") /\ UNCHANGED <<rowVars, raced, cut>> /\ file \in Files
    BY <1>1, <1>14 DEF DumpEdge, histVars
  <2> DEFINE c == [call[i] EXCEPT !.left = @ \ {x}]
             q == file.quiet /\ i \notin disturbed
  <2>3. c \in Calls /\ c.op = "dump"
    BY <1>2, <1>8, <2>2
  <2>4. call' = [call EXCEPT ![i] = c]
    BY <2>1
  <2>5. file' = [[file EXCEPT !.edges = file.edges \cup {e}] EXCEPT !.quiet = q]
    BY <2>1, <2>2 DEF Record, Files
  <2> HIDE DEF c
  <2>6. q \in BOOLEAN /\ file.edges \cup {e} \in SUBSET Edge
    BY <1>3, <2>2 DEF Files
  <2>7. file' \in Files /\ file'.edges = file.edges \cup {e}
    BY <2>2, <2>5, <2>6 DEF Files
  <2> QED
    BY <1>1, <1>6, <1>9, <2>2, <2>3, <2>4, <2>7
<1>15. CASE DumpFails(i)
  <2>1. /\ In(i, "dump") /\ UNCHANGED <<rowVars, raced, cut>> /\ file' = file
        /\ call' = [call EXCEPT ![i] = None]
    BY <1>15 DEF DumpFails, histVars, Return
  <2> QED
    BY <1>1, <1>6, <1>9, <2>1 DEF In
<1>16. CASE DumpLabels(i)
  <2> DEFINE q == file.quiet /\ i \notin disturbed
  <2>1. /\ In(i, "dump") /\ UNCHANGED <<rowVars, raced, cut>> /\ file \in Files
        /\ call' = [call EXCEPT ![i] = None]
        /\ file' = Record([file EXCEPT !.labels = labels, !.ok = TRUE], i)
    BY <1>1, <1>16 DEF DumpLabels, histVars, Return
  <2>2. file' = [[[file EXCEPT !.labels = labels] EXCEPT !.ok = TRUE] EXCEPT !.quiet = q]
    BY <2>1 DEF Record, Files
  <2>3. q \in BOOLEAN /\ labels \in Labels
    BY <1>3, <2>1 DEF Files, Labels
  <2>4. file' \in Files /\ file'.edges = file.edges
    BY <2>1, <2>2, <2>3 DEF Files
  <2> QED
    BY <1>1, <1>6, <1>9, <2>1, <2>4 DEF In
<1>17. CASE DumpUnwritten(i)
  <2>1. /\ In(i, "dump") /\ UNCHANGED <<rowVars, raced, cut>> /\ file \in Files
        /\ call' = [call EXCEPT ![i] = None]
        /\ file' = [file EXCEPT !.entities = Empty, !.edges = {}, !.labels = {}, !.ok = TRUE,
                                !.whole = FALSE]
    BY <1>1, <1>17 DEF DumpUnwritten, histVars, Return
  <2>2. file' \in Files /\ file'.edges = {}
    BY <1>5, <2>1 DEF Files, Labels
  <2> QED
    BY <1>1, <1>6, <1>9, <2>1, <2>2 DEF In
<1>18. CASE Die(i) /\ In(i, "dump")
  <2>1. /\ In(i, "dump") /\ UNCHANGED <<rowVars, raced>> /\ file \in Files
        /\ cut' = cut
        /\ call' = [call EXCEPT ![i] = None]
        /\ file' = [file EXCEPT !.entities = Empty, !.edges = {}, !.labels = {}]
    BY <1>1, <1>18 DEF Die, In, Return
  <2>2. file' \in Files /\ file'.edges = {}
    BY <1>5, <2>1 DEF Files, Labels
  <2> QED
    BY <1>1, <1>6, <1>9, <2>1, <2>2 DEF In
<1> QED
  BY <1>11, <1>12, <1>13, <1>14, <1>15, <1>16, <1>17, <1>18 DEF DumpStep

LEMMA DumpStepTypes ==
  ASSUME GraphTypes, NEW i \in Inst, DumpStep(i)
  PROVE  GraphTypes'
<1>1. /\ UNCHANGED <<rowVars, raced>>
      /\ DumpBegin(i) \/ In(i, "dump")
      /\ cut' \subseteq Ids
      /\ \A j \in Inst : j # i => call'[j] = call[j] /\ ~In(j, "dump")
      /\ call' \in [Inst -> Calls \cup {None}]
      /\ call'[i] # None => call'[i].op = "dump"
      /\ file' \in Files
      /\ DumpBegin(i) => file'.edges = {}
      /\ file' # file /\ ~DumpBegin(i) =>
           \A e \in file'.edges : e \in file.edges \/ e \in edges
  BY DumpSteps
<1>2. /\ UNCHANGED <<entities, edges, labels, lastEntity, lastEdge>>
      /\ TypeOK /\ TypeOK'
  BY <1>1 DEF GraphTypes, TypeOK, rowVars
<1>3. ASSUME NEW j \in Inst, In(j, "insert_entity")'
      PROVE  call'[j].id <= lastEntity'
  <2>1. j # i
    BY <1>1, <1>3 DEF In
  <2>2. In(j, "insert_entity") /\ call'[j] = call[j]
    BY <1>1, <1>3, <2>1 DEF In
  <2> QED
    BY <1>2, <2>2 DEF GraphTypes, CallTypes
<1>4. CallTypes'
  BY <1>1, <1>3 DEF CallTypes, GraphTypes
<1>5. \A j \in Inst : In(j, "dump")' => j = i
  BY <1>1 DEF In
<1>6. \A e \in file'.edges : e.id <= lastEdge /\ \A f \in edges : e.id = f.id => e = f
  <2>1. CASE DumpBegin(i)
    BY <1>1, <2>1
  <2>2. CASE ~DumpBegin(i)
    <3>1. \A e \in file.edges : e.id <= lastEdge /\ \A f \in edges : e.id = f.id => e = f
      BY <1>1, <2>2 DEF GraphTypes, DumpTypes
    <3>2. \A e \in edges : e.id <= lastEdge /\ \A f \in edges : e.id = f.id => e = f
      BY DEF GraphTypes, TypeOK
    <3> QED
      BY <1>1, <2>2, <3>1, <3>2
  <2> QED
    BY <2>1, <2>2
<1>7. UniqueIds(file'.edges)
  <2>1. CASE DumpBegin(i)
    BY <1>1, <2>1 DEF UniqueIds
  <2>2. CASE ~DumpBegin(i)
    <3>1. UniqueIds(file.edges)
          /\ \A e \in file.edges : \A f \in edges : e.id = f.id => e = f
      BY <1>1, <2>2 DEF GraphTypes, DumpTypes
    <3>2. \A e, f \in edges : e.id = f.id => e = f
      BY DEF GraphTypes, TypeOK
    <3>3. \A e \in file'.edges : e \in file.edges \/ e \in edges
      BY <1>1, <2>2
    <3> QED
      BY <3>1, <3>2, <3>3 DEF UniqueIds
  <2> QED
    BY <2>1, <2>2
<1>8. DumpTypes'
  BY <1>1, <1>2, <1>5, <1>6, <1>7 DEF DumpTypes
<1> QED
  BY <1>2, <1>4, <1>8 DEF GraphTypes

LEMMA EmptyGraph == Empty \in RowsUpTo(0) /\ 0 \in 0..MaxId
<1>1. <<>> \in Seq(Kinds) /\ Len(<<>>) = 0
  OBVIOUS
<1>2. <<>> \in [1..0 -> Kinds] /\ 1..0 \in SUBSET (1..0)
  BY <1>1
<1>3. Empty \in [1..0 -> Kinds]
  BY <1>2 DEF Empty
<1>4. Empty \in RowsUpTo(0)
  BY <1>2, <1>3 DEF RowsUpTo
<1>5. 0 \in 0..MaxId
  BY SqliteAssumption
<1> QED
  BY <1>4, <1>5

LEMMA TypesInit == Init => GraphTypes
<1> SUFFICES ASSUME Init
             PROVE  GraphTypes
  OBVIOUS
<1>1. /\ entities = Empty /\ edges = {} /\ labels = {}
      /\ lastEntity = 0 /\ lastEdge = 0
      /\ raced = {} /\ cut = {}
      /\ call = [i \in Inst |-> None]
      /\ file = None
  BY DEF Init
<1>2. TypeOK
  BY <1>1, EmptyGraph DEF TypeOK
<1>3. CallTypes
  BY <1>1 DEF CallTypes, In
<1>4. UniqueIds({})
  BY DEF UniqueIds
<1>5. DumpTypes
  <2>1. \A i \in Inst : ~In(i, "dump")
    BY <1>1 DEF In
  <2>2. file \in Files => UniqueIds(file.edges)
    BY <1>1, SqliteAssumption
  <2> QED
    BY <2>1, <2>2 DEF DumpTypes
<1> QED
  BY <1>2, <1>3, <1>5 DEF GraphTypes

LEMMA FreshTypes == GraphTypes /\ Fresh => GraphTypes'
<1> SUFFICES ASSUME GraphTypes, Fresh
             PROVE  GraphTypes'
  OBVIOUS
<1>1. /\ entities' = Empty /\ edges' = {} /\ labels' = {}
      /\ lastEntity' = 0 /\ lastEdge' = 0
      /\ raced' = {} /\ cut' = {}
      /\ call' = call /\ file' = file
      /\ \A i \in Inst : call[i] = None
  BY DEF Fresh, Idle
<1>2. TypeOK'
  BY <1>1, EmptyGraph DEF TypeOK
<1>3. \A i \in Inst : ~In(i, "dump")' /\ ~In(i, "insert_entity")'
  BY <1>1 DEF In
<1>4. CallTypes'
  BY <1>1, <1>3 DEF CallTypes, GraphTypes
<1>5. DumpTypes'
  BY <1>1, <1>3 DEF DumpTypes, GraphTypes
<1> QED
  BY <1>2, <1>4, <1>5 DEF GraphTypes

\* Which instance moves, and how.
LEMMA StepsOfNext ==
  ASSUME GraphTypes, Next
  PROVE  \/ \E i \in Inst : OtherStep(i)
         \/ \E i \in Inst : DumpStep(i)
         \/ Fresh
<1>1. ASSUME NEW i \in Inst, Reads(i)
      PROVE  OtherStep(i)
  BY <1>1 DEF OtherStep, Reads, FetchOutgoing, FetchIncoming, Query, AcquireSnapshot
<1> QED
  BY <1>1 DEF Next, DumpAndLoad, OtherStep, DumpStep

LEMMA TypesStep == GraphTypes /\ [Next]_vars => GraphTypes'
<1> SUFFICES ASSUME GraphTypes, [Next]_vars
             PROVE  GraphTypes'
  OBVIOUS
<1>1. ASSUME NEW i \in Inst, OtherStep(i)
      PROVE  GraphTypes'
  <2>1. PICK c : CallOf(i, c)
    BY <1>1, CallSteps
  <2>2. /\ lastEntity \in Nat /\ lastEdge \in Nat
        /\ raced \subseteq Ids /\ cut \subseteq Ids /\ TypeOK
    BY DEF GraphTypes, TypeOK, CallTypes
  <2>3. ASSUME UNCHANGED <<entities, edges, labels, lastEntity, lastEdge, raced>>,
               cut' \subseteq Ids
        PROVE  GraphTypes'
    <3>1. TypeOK'
      BY <2>2, <2>3 DEF TypeOK
    <3> QED
      BY <1>1, <2>1, <2>2, <2>3, <3>1, TypesFromRows
  <2>4. CASE Reads(i)
    BY <2>2, <2>3, <2>4 DEF Reads, FetchOutgoing, FetchIncoming, Query, AcquireSnapshot,
       rowVars, histVars
  <2>5. CASE EntityWrites(i)
    <3>1. /\ TypeOK'
          /\ edges' \subseteq edges /\ lastEdge' = lastEdge /\ lastEntity <= lastEntity'
          /\ raced' \subseteq Ids /\ cut' \subseteq Ids
      BY <2>5, EntityRowTypes
    <3> QED
      BY <2>1, <2>2, <3>1, TypesFromRows
  <2>6. CASE EdgeWrites(i)
    <3>1. /\ TypeOK'
          /\ \A f \in edges' : f \in edges \/ lastEdge < f.id
          /\ UNCHANGED <<entities, labels, lastEntity, cut>>
          /\ lastEdge <= lastEdge' /\ raced' \subseteq Ids
      BY <2>6, EdgeRowTypes
    <3> QED
      BY <2>1, <2>2, <3>1, TypesFromRows
  <2>7. CASE Load(i)
    BY <2>1, <2>7, LoadRowTypes, TypesFromRows
  <2>8. CASE Die(i)
    BY <2>2, <2>3, <2>8, CallFields DEF Die, rowVars
  <2> QED
    BY <1>1, <2>4, <2>5, <2>6, <2>7, <2>8 DEF OtherStep
<1>2. ASSUME UNCHANGED vars
      PROVE  GraphTypes'
  BY <1>2 DEF vars, rowVars, memVars, histVars, GraphTypes, TypeOK, CallTypes, DumpTypes, In
<1> QED
  BY <1>1, <1>2, DumpStepTypes, FreshTypes, StepsOfNext

\* Rows and counters: every row has an id that its counter has reached, and no
\* two edges have one id, whatever is inserted, dumped and loaded.
THEOREM SqliteTypes == Spec => []TypeOK
<1>1. Spec => []GraphTypes
  BY TypesInit, TypesStep, PTL DEF Spec
<1>2. GraphTypes => TypeOK
  BY DEF GraphTypes
<1> QED
  BY <1>1, <1>2, PTL

-----------------------------------------------------------------------------
(* Caches and snapshots *)

CacheInv == CacheTypes /\ CachesCurrent /\ SnapshotsShowOneMoment

\* The two things a step may do to the caches of an instance without knowing
\* what is in them: leave them alone while the edges stay, or empty them.
LEMMA CachesLeftAlone ==
  ASSUME CacheInv, UNCHANGED <<edges, outgoing, incoming, answers, held, foreign>>
  PROVE  CacheInv'
BY DEF CacheInv, CacheTypes, CachesCurrent, SnapshotsShowOneMoment

LEMMA CachesEmptied ==
  ASSUME CacheInv, NEW i \in Inst, InvalidateCaches(i), held' = held,
         Wrote(i) \/ (edges' = edges /\ foreign' = foreign \ {i})
  PROVE  CacheInv'
<1>1. /\ DOMAIN outgoing = Inst /\ DOMAIN incoming = Inst /\ DOMAIN answers = Inst
      /\ DOMAIN held = Inst
      /\ \A j \in Inst : DOMAIN outgoing[j] \subseteq Ids /\ DOMAIN incoming[j] \subseteq Ids
  BY DEF CacheInv, CacheTypes
<1>2. /\ DOMAIN outgoing' = Inst /\ DOMAIN incoming' = Inst /\ DOMAIN answers' = Inst
      /\ \A j \in Inst : outgoing'[j] = IF j = i THEN Empty ELSE outgoing[j]
      /\ \A j \in Inst : incoming'[j] = IF j = i THEN Empty ELSE incoming[j]
      /\ \A j \in Inst : answers'[j] = IF j = i THEN Empty ELSE answers[j]
  BY <1>1 DEF InvalidateCaches
<1>3. DOMAIN Empty = {}
  BY DEF Empty
<1>4. CacheTypes'
  BY <1>1, <1>2, <1>3 DEF CacheTypes
<1>5. SnapshotsShowOneMoment'
  BY DEF CacheInv, SnapshotsShowOneMoment
<1>6. ASSUME NEW j \in Inst \ foreign', j # i
      PROVE  edges' = edges /\ j \notin foreign
  BY <1>6 DEF Wrote
<1>7. CachesCurrent'
  BY <1>2, <1>3, <1>6 DEF CacheInv, CachesCurrent
<1> QED
  BY <1>4, <1>5, <1>7 DEF CacheInv

\* Lists from the caches of an instance that nobody has passed by.
LEMMA ListsCurrent ==
  ASSUME CacheInv, NEW i \in Inst \ foreign
  PROVE  /\ \A n : OutList(i, n) = Targets(n, edges)
         /\ \A n : InList(i, n) = Sources(n, edges)
         /\ ListsOf(i, "out") = AllTargets(edges)
         /\ \A dir : dir # "out" => ListsOf(i, dir) = AllSources(edges)
<1>1. \A n : OutList(i, n) = Targets(n, edges) /\ InList(i, n) = Sources(n, edges)
  BY DEF CacheInv, CachesCurrent, OutList, InList
<1> QED
  BY <1>1 DEF ListsOf, AllTargets, AllSources

LEMMA ReadsKeepCaches ==
  ASSUME CacheInv, NEW i \in Inst, Reads(i)
  PROVE  CacheInv'
<1>1. /\ DOMAIN outgoing = Inst /\ DOMAIN incoming = Inst /\ DOMAIN answers = Inst
      /\ DOMAIN held = Inst
      /\ \A j \in Inst : DOMAIN outgoing[j] \subseteq Ids /\ DOMAIN incoming[j] \subseteq Ids
  BY DEF CacheInv, CacheTypes
<1>2. /\ \A j \in Inst \ foreign :
           /\ \A n \in DOMAIN outgoing[j] : outgoing[j][n] = Targets(n, edges)
           /\ \A n \in DOMAIN incoming[j] : incoming[j][n] = Sources(n, edges)
           /\ \A q \in DOMAIN answers[j] :
                answers[j][q] = AnswerFrom(q, IF q.dir = "out" THEN AllTargets(edges)
                                                               ELSE AllSources(edges))
      /\ SnapshotsShowOneMoment
  BY DEF CacheInv, CachesCurrent
<1>3. ASSUME NEW n \in Ids, FetchOutgoing(i, n)
      PROVE  CacheInv'
  <2> DEFINE new == Put(outgoing[i], n, OutList(i, n))
  <2>1. /\ outgoing' = [outgoing EXCEPT ![i] = new]
        /\ UNCHANGED <<edges, incoming, answers, held, foreign>>
    BY <1>3 DEF FetchOutgoing, rowVars, histVars
  <2>2. /\ DOMAIN new = DOMAIN outgoing[i] \cup {n}
        /\ \A m \in DOMAIN new : new[m] = IF m = n THEN OutList(i, n) ELSE outgoing[i][m]
    BY DEF Put
  <2> HIDE DEF new
  <2>3. CacheTypes'
    BY <1>1, <2>1, <2>2 DEF CacheTypes
  <2>4. CachesCurrent'
    BY <1>1, <1>2, <2>1, <2>2, ListsCurrent DEF CachesCurrent
  <2>5. SnapshotsShowOneMoment'
    BY <1>2, <2>1 DEF SnapshotsShowOneMoment
  <2> QED
    BY <2>3, <2>4, <2>5 DEF CacheInv
<1>4. ASSUME NEW n \in Ids, FetchIncoming(i, n)
      PROVE  CacheInv'
  <2> DEFINE new == Put(incoming[i], n, InList(i, n))
  <2>1. /\ incoming' = [incoming EXCEPT ![i] = new]
        /\ UNCHANGED <<edges, outgoing, answers, held, foreign>>
    BY <1>4 DEF FetchIncoming, rowVars, histVars
  <2>2. /\ DOMAIN new = DOMAIN incoming[i] \cup {n}
        /\ \A m \in DOMAIN new : new[m] = IF m = n THEN InList(i, n) ELSE incoming[i][m]
    BY DEF Put
  <2> HIDE DEF new
  <2>3. CacheTypes'
    BY <1>1, <2>1, <2>2 DEF CacheTypes
  <2>4. CachesCurrent'
    BY <1>1, <1>2, <2>1, <2>2, ListsCurrent DEF CachesCurrent
  <2>5. SnapshotsShowOneMoment'
    BY <1>2, <2>1 DEF SnapshotsShowOneMoment
  <2> QED
    BY <2>3, <2>4, <2>5 DEF CacheInv
<1>5. ASSUME NEW q \in Queries, Query(i, q)
      PROVE  CacheInv'
  <2> DEFINE list == ListsOf(i, q.dir)
             read == {n \in Ids : q.depth > 0 /\ n \in Within(q, list)[q.depth - 1]}
             Filled(cache) == [n \in DOMAIN cache \cup read |-> list[n]]
             new == Put(answers[i], q, AnswerFrom(q, list))
  <2>1. /\ answers' = [answers EXCEPT ![i] = new]
        /\ outgoing' = IF q.dir = "out" THEN [outgoing EXCEPT ![i] = Filled(outgoing[i])]
                       ELSE outgoing
        /\ incoming' = IF q.dir = "in" THEN [incoming EXCEPT ![i] = Filled(incoming[i])]
                       ELSE incoming
        /\ UNCHANGED <<edges, held, foreign>>
    BY <1>5 DEF Query, rowVars, histVars
  <2>2. /\ DOMAIN new = DOMAIN answers[i] \cup {q}
        /\ \A x \in DOMAIN new : new[x] = IF x = q THEN AnswerFrom(q, list) ELSE answers[i][x]
    BY DEF Put
  <2>3. read \subseteq Ids
    OBVIOUS
  <2>4. /\ \A cache : DOMAIN Filled(cache) = DOMAIN cache \cup read
        /\ \A cache : \A n \in DOMAIN Filled(cache) : Filled(cache)[n] = list[n]
    OBVIOUS
  <2>5. i \notin foreign => list = IF q.dir = "out" THEN AllTargets(edges) ELSE AllSources(edges)
    BY ListsCurrent
  <2>6. /\ \A n \in Ids : AllTargets(edges)[n] = Targets(n, edges)
        /\ \A n \in Ids : AllSources(edges)[n] = Sources(n, edges)
    BY DEF AllTargets, AllSources
  <2> HIDE DEF new, list, read, Filled
  <2>7. CacheTypes'
    BY <1>1, <2>1, <2>3, <2>4 DEF CacheTypes
  <2>8. ASSUME NEW j \in Inst, j \notin foreign
        PROVE  /\ \A n \in DOMAIN outgoing'[j] : outgoing'[j][n] = Targets(n, edges)
               /\ \A n \in DOMAIN incoming'[j] : incoming'[j][n] = Sources(n, edges)
    <3>1. CASE j # i
      BY <1>1, <1>2, <2>1, <2>8, <3>1
    <3>2. CASE j = i /\ q.dir = "out"
      <4>1. outgoing'[i] = Filled(outgoing[i]) /\ incoming' = incoming
        BY <1>1, <2>1, <3>2
      <4>2. list = AllTargets(edges)
        BY <2>5, <2>8, <3>2
      <4>3. \A n \in DOMAIN outgoing'[i] : n \in Ids
        BY <1>1, <2>3, <2>4, <4>1
      <4> QED
        BY <1>2, <2>4, <2>6, <2>8, <3>2, <4>1, <4>2, <4>3
    <3>3. CASE j = i /\ q.dir = "in"
      <4>1. incoming'[i] = Filled(incoming[i]) /\ outgoing' = outgoing
        BY <1>1, <2>1, <3>3
      <4>2. list = AllSources(edges)
        BY <2>5, <2>8, <3>3
      <4>3. \A n \in DOMAIN incoming'[i] : n \in Ids
        BY <1>1, <2>3, <2>4, <4>1
      <4> QED
        BY <1>2, <2>4, <2>6, <2>8, <3>3, <4>1, <4>2, <4>3
    <3>4. CASE q.dir \notin {"in", "out"}
      BY <1>2, <2>1, <2>8, <3>4
    <3> QED
      BY <3>1, <3>2, <3>3, <3>4
  <2>9. ASSUME NEW j \in Inst, j \notin foreign, NEW x \in DOMAIN answers'[j]
        PROVE  answers'[j][x] = AnswerFrom(x, IF x.dir = "out" THEN AllTargets(edges)
                                                               ELSE AllSources(edges))
    <3>1. CASE j # i
      BY <1>1, <1>2, <2>1, <2>9, <3>1
    <3>2. CASE j = i /\ x # q
      <4>1. answers'[i] = new /\ x \in DOMAIN answers[i] /\ new[x] = answers[i][x]
        BY <1>1, <2>1, <2>2, <2>9, <3>2
      <4> QED
        BY <1>2, <2>9, <3>2, <4>1
    <3>3. CASE j = i /\ x = q
      <4>1. answers'[i] = new /\ new[q] = AnswerFrom(q, list)
        BY <1>1, <2>1, <2>2, <3>3
      <4>2. list = IF q.dir = "out" THEN AllTargets(edges) ELSE AllSources(edges)
        BY <2>5, <2>9, <3>3
      <4> QED
        BY <3>3, <4>1, <4>2, Zenon
    <3> QED
      BY <3>1, <3>2, <3>3
  <2>10. CachesCurrent'
    BY <2>1, <2>8, <2>9 DEF CachesCurrent
  <2>11. SnapshotsShowOneMoment'
    BY <1>2, <2>1 DEF SnapshotsShowOneMoment
  <2> QED
    BY <2>7, <2>10, <2>11 DEF CacheInv
<1>6. ASSUME AcquireSnapshot(i)
      PROVE  CacheInv'
  <2> DEFINE new == [outgoing |-> outgoing[i], incoming |-> incoming[i],
                     of |-> edges, foreign |-> i \in foreign]
  <2>1. held' = [held EXCEPT ![i] = new] /\ UNCHANGED <<edges, outgoing, incoming, answers, foreign>>
    BY <1>6 DEF AcquireSnapshot, rowVars, histVars
  <2>2. CacheTypes' /\ CachesCurrent'
    BY <1>1, <1>2, <2>1 DEF CacheTypes, CachesCurrent
  <2>3. /\ new.outgoing = outgoing[i] /\ new.incoming = incoming[i] /\ new.of = edges
        /\ new.foreign = (i \in foreign)
    OBVIOUS
  <2> HIDE DEF new
  <2>4. \A j \in Inst : held'[j] = IF j = i THEN new ELSE held[j]
    BY <1>1, <2>1
  <2>5. ASSUME NEW j \in Inst, held'[j] # None, ~held'[j].foreign
        PROVE  /\ \A n \in DOMAIN held'[j].outgoing :
                    held'[j].outgoing[n] = Targets(n, held'[j].of)
               /\ \A n \in DOMAIN held'[j].incoming :
                    held'[j].incoming[n] = Sources(n, held'[j].of)
    <3>1. CASE j = i
      <4>1. held'[j] = new /\ ~new.foreign
        BY <2>4, <2>5, <3>1, Zenon
      <4>2. i \notin foreign
        BY <2>3, <4>1, Zenon
      <4> QED
        BY <1>2, <2>3, <4>1, <4>2
    <3>2. CASE j # i
      <4>1. held'[j] = held[j]
        BY <2>4, <3>2
      <4> QED
        BY <1>2, <2>5, <4>1, Zenon DEF SnapshotsShowOneMoment
    <3> QED
      BY <3>1, <3>2
  <2>6. SnapshotsShowOneMoment'
    BY <2>5 DEF SnapshotsShowOneMoment
  <2> QED
    BY <2>2, <2>6 DEF CacheInv
<1> QED
  BY <1>3, <1>4, <1>5, <1>6 DEF Reads

LEMMA CachesInit == Init => CacheInv
<1> SUFFICES ASSUME Init
             PROVE  CacheInv
  OBVIOUS
<1>1. /\ outgoing = [i \in Inst |-> Empty] /\ incoming = [i \in Inst |-> Empty]
      /\ answers = [i \in Inst |-> Empty] /\ held = [i \in Inst |-> None]
      /\ DOMAIN Empty = {}
  BY DEF Init, Empty
<1> QED
  BY <1>1 DEF CacheInv, CacheTypes, CachesCurrent, SnapshotsShowOneMoment

LEMMA CachesStep == CacheInv /\ [Next]_vars => CacheInv'
<1> SUFFICES ASSUME CacheInv, [Next]_vars
             PROVE  CacheInv'
  OBVIOUS
<1>1. ASSUME NEW i \in Inst, EntityWrites(i)
      PROVE  CacheInv'
  <2>1. CASE DeleteItsEdges(i)
    BY <2>1, CachesEmptied DEF DeleteItsEdges
  <2>2. ASSUME NEW kinds, BulkInsertEntities(i, kinds)
        PROVE  CacheInv'
    BY <2>2, CachesEmptied DEF BulkInsertEntities
  <2>3. ASSUME \/ \E k \in Kinds : InsertEntity(i, k)
               \/ InsertLabel(i) \/ InsertLabelFails(i) \/ DeleteItsEdgesFails(i)
               \/ \E kinds \in EntityBatches : InsertEntitiesBulk(i, kinds)
               \/ \E x \in Ids, k \in Kinds : UpdateEntity(i, x, k) \/ AddLabel(i, x, k)
               \/ \E x \in Ids : DeleteEntity(i, x)
        PROVE  UNCHANGED <<edges, outgoing, incoming, answers, held, foreign>>
    BY <2>3 DEF InsertEntity, InsertLabel, InsertLabelFails, DeleteItsEdgesFails,
       InsertEntitiesBulk, UpdateEntity, AddLabel, DeleteEntity, rowVars, memVars, histVars
  <2> QED
    BY <1>1, <2>1, <2>2, <2>3, CachesLeftAlone DEF EntityWrites
<1>2. ASSUME NEW i \in Inst, EdgeWrites(i)
      PROVE  CacheInv'
  <2>1. CASE InsertEdges(i)
    BY <2>1, CachesEmptied DEF InsertEdges
  <2>2. CASE InsertChunk(i)
    BY <2>2, CachesEmptied DEF InsertChunk
  <2>3. ASSUME NEW e, DeleteEdge(i, e)
        PROVE  CacheInv'
    BY <2>3, CachesEmptied DEF DeleteEdge
  <2>4. ASSUME \/ \E es \in EdgeBatches : BeginEdges(i, es)
               \/ \E chunks \in Chunkings : BeginChunks(i, chunks)
               \/ EndExists(i) \/ EndMissing(i) \/ InsertEdgesFails(i) \/ ChunkRefused(i)
        PROVE  UNCHANGED <<edges, outgoing, incoming, answers, held, foreign>>
    BY <2>4 DEF BeginEdges, BeginChunks, EndExists, EndMissing, InsertEdgesFails, ChunkRefused,
       rowVars, memVars, histVars
  <2> QED
    BY <1>2, <2>1, <2>2, <2>3, <2>4, CachesLeftAlone DEF EdgeWrites
<1>3. ASSUME NEW i \in Inst, DumpAndLoad(i)
      PROVE  CacheInv'
  <2>1. CASE Load(i)
    BY <2>1, CachesEmptied DEF Load
  <2>2. ASSUME ~Load(i)
        PROVE  UNCHANGED <<edges, outgoing, incoming, answers, held, foreign>>
    BY <1>3, <2>2 DEF DumpAndLoad, DumpBegin, DumpEntity, DumpEdgeIds, DumpEdge, DumpFails,
       DumpLabels, DumpUnwritten, rowVars, memVars, histVars
  <2> QED
    BY <2>1, <2>2, CachesLeftAlone
<1>4. ASSUME NEW i \in Inst, Die(i)
      PROVE  CacheInv'
  <2>1. /\ InvalidateCaches(i) /\ edges' = edges /\ foreign' = foreign \ {i}
        /\ held' = [held EXCEPT ![i] = None]
    BY <1>4 DEF Die, InvalidateCaches, rowVars
  <2>2. /\ DOMAIN held = Inst /\ DOMAIN held' = Inst
        /\ \A j \in Inst : held'[j] = IF j = i THEN None ELSE held[j]
    BY <2>1 DEF CacheInv, CacheTypes
  <2>3. SnapshotsShowOneMoment'
    BY <2>2 DEF CacheInv, SnapshotsShowOneMoment
  <2>4. /\ DOMAIN outgoing = Inst /\ DOMAIN incoming = Inst /\ DOMAIN answers = Inst
        /\ \A j \in Inst : DOMAIN outgoing[j] \subseteq Ids /\ DOMAIN incoming[j] \subseteq Ids
    BY DEF CacheInv, CacheTypes
  <2>5. /\ DOMAIN outgoing' = Inst /\ DOMAIN incoming' = Inst /\ DOMAIN answers' = Inst
        /\ \A j \in Inst : outgoing'[j] = IF j = i THEN Empty ELSE outgoing[j]
        /\ \A j \in Inst : incoming'[j] = IF j = i THEN Empty ELSE incoming[j]
        /\ \A j \in Inst : answers'[j] = IF j = i THEN Empty ELSE answers[j]
        /\ DOMAIN Empty = {}
    BY <2>1, <2>4 DEF InvalidateCaches, Empty
  <2>6. CacheTypes' /\ CachesCurrent'
    BY <2>1, <2>2, <2>4, <2>5 DEF CacheInv, CacheTypes, CachesCurrent
  <2> QED
    BY <2>3, <2>6 DEF CacheInv
<1>5. ASSUME Fresh
      PROVE  CacheInv'
  <2>1. /\ outgoing' = [i \in Inst |-> Empty] /\ incoming' = [i \in Inst |-> Empty]
        /\ answers' = [i \in Inst |-> Empty] /\ held' = [i \in Inst |-> None]
        /\ DOMAIN Empty = {}
    BY <1>5 DEF Fresh, Empty
  <2> QED
    BY <2>1 DEF CacheInv, CacheTypes, CachesCurrent, SnapshotsShowOneMoment
<1>6. ASSUME UNCHANGED vars
      PROVE  CacheInv'
  BY <1>6, CachesLeftAlone DEF vars, rowVars, memVars, histVars
<1> QED
  BY <1>1, <1>2, <1>3, <1>4, <1>5, <1>6, ReadsKeepCaches DEF Next

LEMMA CachesInvariant == Spec => []CacheInv
BY CachesInit, CachesStep, PTL DEF Spec

\* Whatever a client reads from the caches of its instance, a list or the answer
\* of a traversal, is what SQL would answer now, unless another instance has
\* changed edges since the caches were emptied.
THEOREM CachesAreCurrent == Spec => []CachesCurrent
<1>1. CacheInv => CachesCurrent
  BY DEF CacheInv
<1> QED
  BY <1>1, CachesInvariant, PTL

\* acquire_snapshot gives one moment: every list of a held snapshot is that of
\* the edges there were when it was acquired, whatever happens afterwards.
THEOREM SnapshotsAreOfOneMoment == Spec => []SnapshotsShowOneMoment
<1>1. CacheInv => SnapshotsShowOneMoment
  BY DEF CacheInv
<1> QED
  BY <1>1, CachesInvariant, PTL

-----------------------------------------------------------------------------
(* Dumps *)

\* A dump that is not disturbed after a step was not before, and the rows stay.
LEMMA Undisturbed ==
  ASSUME NEW i \in Inst, Watch, i \notin disturbed', In(i, "dump"), In(i, "dump")'
  PROVE  i \notin disturbed /\ UNCHANGED <<entities, edges, labels>>
BY DEF Watch, In, rowVars

LEMMA OtherStepsLeaveDumps ==
  ASSUME GraphTypes, DumpRight, Watch, NEW i \in Inst, NEW c, CallOf(i, c)
  PROVE  DumpRight'
<1>1. /\ file' = file
      /\ \A j \in Inst : call'[j] = IF j = i THEN c ELSE call[j]
      /\ c # None => c.op # "dump"
  BY CallFields DEF CallOf
<1>2. ASSUME NEW j \in Inst, In(j, "dump")'
      PROVE  /\ In(j, "dump") /\ call'[j] = call[j]
             /\ j \notin disturbed' => /\ j \notin disturbed
                                       /\ UNCHANGED <<entities, edges, labels>>
  <2>1. In(j, "dump") /\ call'[j] = call[j]
    BY <1>1, <1>2 DEF In
  <2> QED
    BY <1>2, <2>1, Undisturbed
<1>3. DumpFollowsRows'
  <2> SUFFICES ASSUME NEW j \in Inst, In(j, "dump")'
               PROVE  /\ ~file'.ok
                      /\ j \notin disturbed' =>
                           /\ entities' = file'.src.entities
                           /\ edges' = file'.src.edges
                           /\ labels' = file'.src.labels
                      /\ call'[j].part = "entities" =>
                           /\ DOMAIN file'.src.entities = DOMAIN file'.entities \cup call'[j].left
                           /\ file'.edges = {}
                           /\ file'.quiet => \A x \in DOMAIN file'.entities :
                                file'.entities[x] = file'.src.entities[x]
                      /\ call'[j].part = "edges" /\ file'.quiet =>
                           /\ file'.entities = file'.src.entities
                           /\ file'.edges \subseteq file'.src.edges
                           /\ j \notin disturbed' =>
                                {e.id : e \in file'.src.edges}
                                  = {e.id : e \in file'.edges} \cup call'[j].left
    BY DEF DumpFollowsRows
  <2>1. /\ In(j, "dump") /\ call'[j] = call[j]
        /\ j \notin disturbed' => /\ j \notin disturbed
                                  /\ UNCHANGED <<entities, edges, labels>>
    BY <1>2
  <2> QED
    BY <1>1, <2>1 DEF DumpRight, DumpFollowsRows
<1>4. FileFollowsSource'
  BY <1>1 DEF DumpRight, FileFollowsSource
<1> QED
  BY <1>3, <1>4 DEF DumpRight

\* The graph a dump begins with.
LEMMA DumpBegins ==
  ASSUME GraphTypes, EdgesHaveEnds, Watch, NEW i \in Inst, DumpBegin(i)
  PROVE  DumpRight'
<1> DEFINE src == [entities |-> entities, edges |-> edges, labels |-> labels,
                   raced |-> raced, cut |-> cut \cup Deleting]
           c == [op |-> "dump", part |-> "entities", left |-> DOMAIN entities]
<1>1. /\ file' = [entities |-> Empty, edges |-> {}, labels |-> {}, ok |-> FALSE, whole |-> TRUE,
                  quiet |-> TRUE, src |-> src]
      /\ call' = [call EXCEPT ![i] = c]
      /\ UNCHANGED <<entities, edges, labels>>
  BY DEF DumpBegin, Enter, rowVars
<1>2. /\ file'.src = src /\ file'.entities = Empty /\ DOMAIN Empty = {} /\ file'.edges = {}
      /\ file'.ok = FALSE
      /\ src.entities = entities /\ src.edges = edges /\ src.labels = labels
      /\ src.raced = raced /\ src.cut = cut \cup Deleting
      /\ c.part = "entities" /\ c.left = DOMAIN entities
  BY <1>1 DEF Empty
<1>3. call'[i] = c
  BY <1>1, CallFields
<1> HIDE DEF src, c
<1>4. \A j \in Inst : In(j, "dump")' => j = i
  BY DumpSteps DEF DumpStep, In
<1>5. DumpFollowsRows'
  BY <1>1, <1>2, <1>3, <1>4 DEF DumpFollowsRows
<1>6. UniqueIds(edges)
  BY DEF UniqueIds, GraphTypes, TypeOK
<1>7. \A e \in edges : \A x \in {e.from, e.to} :
        x \in DOMAIN entities \cup (cut \cup Deleting) \/ e.id \in raced
  BY DEF EdgesHaveEnds
<1>8. FileFollowsSource'
  BY <1>2, <1>6, <1>7 DEF FileFollowsSource
<1> QED
  BY <1>5, <1>8 DEF DumpRight

\* The state of a dump that is not over.
LEMMA DumpFacts ==
  ASSUME GraphTypes, DumpRight, NEW i \in Inst, In(i, "dump")
  PROVE  /\ file \in Files
         /\ call[i] \in [op : {"dump"}, part : {"entities", "edges"}, left : SUBSET Ids]
         /\ \A j \in Inst : In(j, "dump") => j = i
         /\ ~file.ok
         /\ UniqueIds(file.src.edges)
         /\ \A e \in file.src.edges : \A x \in {e.from, e.to} :
              x \in DOMAIN file.src.entities \cup file.src.cut \/ e.id \in file.src.raced
         /\ i \notin disturbed =>
              /\ entities = file.src.entities
              /\ edges = file.src.edges
              /\ labels = file.src.labels
BY CallFields DEF DumpRight, DumpFollowsRows, FileFollowsSource, GraphTypes, DumpTypes

\* Enough for DumpRight to hold after a step of a dump that goes on.
LEMMA DumpGoesOn ==
  ASSUME GraphTypes, DumpRight, Watch, NEW i \in Inst, In(i, "dump"), DumpStep(i),
         file'.src = file.src, ~file'.ok,
         call'[i].part = "entities" =>
           /\ DOMAIN file'.src.entities = DOMAIN file'.entities \cup call'[i].left
           /\ file'.edges = {}
           /\ file'.quiet => \A x \in DOMAIN file'.entities :
                file'.entities[x] = file'.src.entities[x],
         call'[i].part = "edges" /\ file'.quiet =>
           /\ file'.entities = file'.src.entities
           /\ file'.edges \subseteq file'.src.edges
           /\ i \notin disturbed =>
                {e.id : e \in file'.src.edges} = {e.id : e \in file'.edges} \cup call'[i].left,
         file'.quiet /\ file'.edges # {} =>
           file'.entities = file'.src.entities /\ file'.edges \subseteq file'.src.edges
  PROVE  DumpRight'
<1>1. \A j \in Inst : In(j, "dump")' => j = i
  BY DumpSteps DEF In
<1>2. In(i, "dump")' /\ i \notin disturbed' =>
        i \notin disturbed /\ UNCHANGED <<entities, edges, labels>>
  BY Undisturbed
<1>3. DumpFollowsRows'
  BY <1>1, <1>2, DumpFacts DEF DumpFollowsRows
<1>4. FileFollowsSource'
  BY DumpFacts DEF FileFollowsSource
<1> QED
  BY <1>3, <1>4 DEF DumpRight

\* And after one of a dump that ends.
LEMMA DumpEnds ==
  ASSUME GraphTypes, DumpRight, NEW i \in Inst, In(i, "dump"), DumpStep(i),
         ~In(i, "dump")', file'.src = file.src,
         file'.quiet /\ file'.edges # {} =>
           file'.entities = file'.src.entities /\ file'.edges \subseteq file'.src.edges,
         file'.ok /\ file'.quiet /\ file'.whole =>
           /\ file'.entities = file'.src.entities
           /\ file'.edges = file'.src.edges
           /\ file'.labels = file'.src.labels
  PROVE  DumpRight'
<1>1. \A j \in Inst : ~In(j, "dump")'
  BY DumpSteps DEF In
<1>2. DumpFollowsRows'
  BY <1>1 DEF DumpFollowsRows
<1>3. FileFollowsSource'
  BY DumpFacts DEF FileFollowsSource
<1> QED
  BY <1>2, <1>3 DEF DumpRight

LEMMA DumpStepsRight ==
  ASSUME GraphTypes, DumpRight, EdgesHaveEnds, Watch, NEW i \in Inst, DumpStep(i)
  PROVE  DumpRight'
<1>1. CASE DumpBegin(i)
  BY <1>1, DumpBegins
<1> SUFFICES ASSUME ~DumpBegin(i)
             PROVE  DumpRight'
  BY <1>1
<1>2. /\ In(i, "dump") /\ file \in Files
      /\ call[i] \in [op : {"dump"}, part : {"entities", "edges"}, left : SUBSET Ids]
      /\ ~file.ok /\ UniqueIds(file.src.edges)
      /\ i \notin disturbed =>
           entities = file.src.entities /\ edges = file.src.edges /\ labels = file.src.labels
  BY DumpSteps, DumpFacts
<1>3. /\ call[i].part = "entities" =>
           /\ DOMAIN file.src.entities = DOMAIN file.entities \cup call[i].left
           /\ file.edges = {}
           /\ file.quiet => \A x \in DOMAIN file.entities :
                file.entities[x] = file.src.entities[x]
      /\ call[i].part = "edges" /\ file.quiet =>
           /\ file.entities = file.src.entities
           /\ file.edges \subseteq file.src.edges
           /\ i \notin disturbed =>
                {e.id : e \in file.src.edges} = {e.id : e \in file.edges} \cup call[i].left
  BY <1>2 DEF DumpRight, DumpFollowsRows
<1>4. file.quiet /\ file.edges # {} =>
        file.entities = file.src.entities /\ file.edges \subseteq file.src.edges
  BY <1>2, SqliteAssumption DEF DumpRight, FileFollowsSource
<1>5. /\ call \in [Inst -> Calls \cup {None}]
      /\ None \notin Calls \cup Files
      /\ MaxId \in Nat
      /\ file.entities \in RowsUpTo(MaxId) /\ file.src.entities \in RowsUpTo(MaxId)
      /\ call[i].left \subseteq Ids
  BY <1>2, SqliteAssumption DEF GraphTypes, CallTypes, Files, Graphs
<1>6. /\ file.entities = [x \in DOMAIN file.entities |-> file.entities[x]]
      /\ file.src.entities = [x \in DOMAIN file.src.entities |-> file.src.entities[x]]
  BY <1>5, EntityRows
<1>7. /\ \A S : S \subseteq Ids /\ S # {} => Least(S) \in S
      /\ Ids \subseteq Nat
  BY <1>5, LeastOfSet DEF Ids
<1>8. CASE DumpEntity(i)
  <2> DEFINE x == Least(call[i].left)
             new == Put(file.entities, x, entities[x])
             q == file.quiet /\ i \notin disturbed
             c == [call[i] EXCEPT !.left = @ \ {x}]
  <2>1. /\ x \in DOMAIN entities /\ call[i].part = "entities" /\ call[i].left # {}
        /\ file' = Record([file EXCEPT !.entities = Put(@, x, entities[x])], i)
        /\ call' = [call EXCEPT ![i].left = @ \ {x}]
    BY <1>8 DEF DumpEntity
  <2>2. /\ call'[i] = c /\ c.part = "entities" /\ c.left = call[i].left \ {x}
        /\ x \in call[i].left
    BY <1>2, <1>5, <1>7, <2>1
  <2>3. file' = [[file EXCEPT !.entities = new] EXCEPT !.quiet = q]
    BY <1>2, <2>1 DEF Record, Files
  <2>4. DOMAIN new = DOMAIN file.entities \cup {x}
        /\ \A y \in DOMAIN new : new[y] = IF y = x THEN entities[x] ELSE file.entities[y]
    BY DEF Put
  <2> HIDE DEF x, new, c
  <2>5. /\ file'.entities = new /\ file'.edges = file.edges /\ file'.src = file.src
        /\ file'.ok = file.ok /\ file'.quiet = q
    BY <1>2, <2>3 DEF Files
  <2>6. DOMAIN file.src.entities = DOMAIN new \cup c.left /\ file.edges = {}
    BY <1>3, <2>1, <2>2, <2>4
  <2>7. q => \A y \in DOMAIN new : new[y] = file.src.entities[y]
    BY <1>2, <1>3, <2>1, <2>4
  <2> HIDE DEF q
  <2> QED
    BY <1>2, <2>2, <2>5, <2>6, <2>7, DumpGoesOn
<1>9. CASE DumpEdgeIds(i)
  <2> DEFINE c == [op |-> "dump", part |-> "edges", left |-> {e.id : e \in edges}]
  <2>1. /\ call[i].part = "entities" /\ call[i].left = {} /\ file' = file
        /\ call' = [call EXCEPT ![i] = c]
    BY <1>9 DEF DumpEdgeIds, Enter
  <2>2. call'[i] = c /\ c.part = "edges" /\ c.left = {e.id : e \in edges}
    BY <1>5, <2>1
  <2> HIDE DEF c
  <2>3. file.quiet => file.entities = file.src.entities
    <3>1. DOMAIN file.entities = DOMAIN file.src.entities
      BY <1>3, <2>1
    <3> QED
      BY <1>3, <1>6, <2>1, <3>1
  <2>4. i \notin disturbed => {e.id : e \in file.src.edges} = {e.id : e \in file.edges} \cup c.left
    BY <1>2, <1>3, <2>1, <2>2
  <2> QED
    BY <1>2, <1>3, <2>1, <2>2, <2>3, <2>4, DumpGoesOn
<1>10. CASE DumpEdge(i)
  <2> DEFINE x == Least(call[i].left)
             q == file.quiet /\ i \notin disturbed
             c == [call[i] EXCEPT !.left = @ \ {x}]
  <2>1. /\ call[i].part = "edges" /\ call[i].left # {}
        /\ \E e \in edges : e.id = x /\ file' = Record([file EXCEPT !.edges = @ \cup {e}], i)
        /\ call' = [call EXCEPT ![i].left = @ \ {x}]
    BY <1>10 DEF DumpEdge
  <2>2. PICK e \in edges : e.id = x /\ file' = Record([file EXCEPT !.edges = @ \cup {e}], i)
    BY <2>1
  <2>3. /\ call'[i] = c /\ c.part = "edges" /\ c.left = call[i].left \ {x}
        /\ x \in call[i].left
    BY <1>2, <1>5, <1>7, <2>1
  <2>4. file' = [[file EXCEPT !.edges = file.edges \cup {e}] EXCEPT !.quiet = q]
    BY <1>2, <2>2 DEF Record, Files
  <2> HIDE DEF x, c
  <2>5. /\ file'.entities = file.entities /\ file'.edges = file.edges \cup {e}
        /\ file'.src = file.src /\ file'.ok = file.ok /\ file'.quiet = q
    BY <1>2, <2>4 DEF Files
  <2>6. q => /\ file.entities = file.src.entities
             /\ file.edges \cup {e} \subseteq file.src.edges
             /\ {f.id : f \in file.src.edges} = {f.id : f \in file.edges \cup {e}} \cup c.left
    BY <1>2, <1>3, <2>1, <2>2, <2>3
  <2> HIDE DEF q
  <2> QED
    BY <1>2, <2>3, <2>5, <2>6, DumpGoesOn
<1>11. CASE DumpFails(i)
  <2>1. file' = file /\ call' = [call EXCEPT ![i] = None]
    BY <1>11 DEF DumpFails, Return
  <2>2. ~In(i, "dump")'
    BY <1>5, <2>1 DEF In
  <2> QED
    BY <1>2, <1>4, <2>1, <2>2, DumpEnds
<1>12. CASE DumpLabels(i)
  <2> DEFINE q == file.quiet /\ i \notin disturbed
  <2>1. /\ call[i].part = "edges" /\ call[i].left = {}
        /\ call' = [call EXCEPT ![i] = None]
        /\ file' = Record([file EXCEPT !.labels = labels, !.ok = TRUE], i)
    BY <1>12 DEF DumpLabels, Return
  <2>2. file' = [[[file EXCEPT !.labels = labels] EXCEPT !.ok = TRUE] EXCEPT !.quiet = q]
    BY <1>2, <2>1 DEF Record, Files
  <2>3. /\ file'.entities = file.entities /\ file'.edges = file.edges /\ file'.labels = labels
        /\ file'.src = file.src /\ file'.quiet = q
    BY <1>2, <2>2 DEF Files
  <2>4. ~In(i, "dump")'
    BY <1>5, <2>1 DEF In
  <2>5. q => /\ file.entities = file.src.entities
             /\ file.edges \subseteq file.src.edges
             /\ {e.id : e \in file.src.edges} = {e.id : e \in file.edges}
             /\ labels = file.src.labels
    BY <1>2, <1>3, <2>1
  <2>6. q => file.edges = file.src.edges
    <3> SUFFICES ASSUME q, NEW e \in file.src.edges
                 PROVE  e \in file.edges
      BY <2>5
    <3>1. PICK f \in file.edges : f.id = e.id
      BY <2>5
    <3>2. f \in file.src.edges
      BY <2>5
    <3> QED
      BY <1>2, <3>1, <3>2 DEF UniqueIds
  <2> HIDE DEF q
  <2> QED
    BY <1>2, <2>3, <2>4, <2>5, <2>6, DumpEnds
<1>13. CASE DumpUnwritten(i)
  <2>1. /\ call' = [call EXCEPT ![i] = None]
        /\ file' = [file EXCEPT !.entities = Empty, !.edges = {}, !.labels = {}, !.ok = TRUE,
                                !.whole = FALSE]
    BY <1>13 DEF DumpUnwritten, Return
  <2>2. file'.edges = {} /\ file'.src = file.src /\ file'.whole = FALSE
    BY <1>2, <2>1 DEF Files
  <2>3. ~In(i, "dump")'
    BY <1>5, <2>1 DEF In
  <2> QED
    BY <1>2, <2>2, <2>3, DumpEnds
<1>14. CASE Die(i) /\ In(i, "dump")
  <2>1. /\ call' = [call EXCEPT ![i] = None]
        /\ file' = [file EXCEPT !.entities = Empty, !.edges = {}, !.labels = {}]
    BY <1>14 DEF Die, Return
  <2>2. file'.edges = {} /\ file'.src = file.src /\ file'.ok = file.ok
    BY <1>2, <2>1 DEF Files
  <2>3. ~In(i, "dump")'
    BY <1>5, <2>1 DEF In
  <2> QED
    BY <1>2, <2>2, <2>3, DumpEnds
<1> QED
  BY <1>8, <1>9, <1>10, <1>11, <1>12, <1>13, <1>14 DEF DumpStep

-----------------------------------------------------------------------------
(* Edges without ends *)

\* Ids an edge may name: those there are, and those a delete took away that is
\* not over or never got to the edges.
Ends == DOMAIN entities \cup cut \cup Deleting

LEMMA EndsKept ==
  ASSUME EdgesHaveEnds, edges' \subseteq edges, Ends \subseteq Ends', raced \subseteq raced'
  PROVE  EdgesHaveEnds'
BY DEF EdgesHaveEnds, Ends

\* Deletes that are not over, after a step that left or began a call.
LEMMA DeletesAfter ==
  ASSUME GraphTypes, NEW i \in Inst, NEW c, call' = [call EXCEPT ![i] = c]
  PROVE  /\ \A x \in Deleting : x \in Deleting' \/ (In(i, "delete_entity") /\ x = call[i].id)
         /\ c # None /\ c.op = "delete_entity" => c.id \in Deleting'
<1>1. \A j \in Inst : call'[j] = IF j = i THEN c ELSE call[j]
  BY CallFields
<1>2. ASSUME NEW j \in Inst, In(j, "delete_entity"), j # i
      PROVE  call[j].id \in Deleting'
  <2>1. In(j, "delete_entity")' /\ call'[j].id = call[j].id
    BY <1>1, <1>2 DEF In
  <2> QED
    BY <2>1 DEF Deleting
<1>3. ASSUME c # None, c.op = "delete_entity"
      PROVE  c.id \in Deleting'
  <2>1. In(i, "delete_entity")' /\ call'[i].id = c.id
    BY <1>1, <1>3 DEF In
  <2> QED
    BY <2>1 DEF Deleting
<1> QED
  BY <1>2, <1>3 DEF Deleting

\* If two different rows are counted, both ends are there.
LEMMA BothEnds ==
  ASSUME NEW a, NEW b, NEW D, Cardinality({a, b} \cap D) = 2
  PROVE  a \in D /\ b \in D
<1>1. /\ IsFiniteSet({a}) /\ Cardinality({a}) = 1
      /\ IsFiniteSet({b}) /\ Cardinality({b}) = 1
      /\ IsFiniteSet({}) /\ Cardinality({}) = 0
  BY FS_Singleton, FS_EmptySet
<1>2. CASE a \notin D
  <2>1. {a, b} \cap D = {b} \/ {a, b} \cap D = {}
    BY <1>2
  <2> QED
    BY <1>1, <2>1
<1>3. CASE b \notin D
  <2>1. {a, b} \cap D = {a} \/ {a, b} \cap D = {}
    BY <1>3
  <2> QED
    BY <1>1, <2>1
<1> QED
  BY <1>2, <1>3

\* Steps that leave the edges, the entities and the deletes as they are.
LEMMA EndsOfEntityWrites ==
  ASSUME GraphTypes, EdgesHaveEnds, NEW i \in Inst, EntityWrites(i)
  PROVE  EdgesHaveEnds'
<1>1. /\ lastEntity \in Nat /\ \A x \in DOMAIN entities : x \in 1..lastEntity
  BY EntityRows DEF GraphTypes, TypeOK
<1>2. ASSUME NEW k \in Kinds, InsertEntity(i, k)
      PROVE  EdgesHaveEnds'
  <2> DEFINE c == [op |-> "insert_entity", id |-> lastEntity + 1, kind |-> k]
  <2>1. /\ call[i] = None /\ call' = [call EXCEPT ![i] = c]
        /\ entities' = Put(entities, lastEntity + 1, k)
        /\ UNCHANGED <<edges, cut, raced>>
    BY <1>2 DEF InsertEntity, MayStart, Idle, Enter
  <2>2. DOMAIN entities \subseteq DOMAIN entities'
    BY <2>1 DEF Put
  <2> HIDE DEF c
  <2>3. Deleting \subseteq Deleting'
    BY <2>1, DeletesAfter DEF In
  <2> QED
    BY <2>1, <2>2, <2>3, EndsKept DEF Ends
<1>3. ASSUME NEW kinds, InsertEntitiesBulk(i, kinds) \/ BulkInsertEntities(i, kinds)
      PROVE  EdgesHaveEnds'
  <2>1. entities' = NewEntities(kinds) /\ UNCHANGED <<edges, cut, raced, call>>
    BY <1>3 DEF InsertEntitiesBulk, BulkInsertEntities, memVars
  <2>2. DOMAIN entities \subseteq DOMAIN entities'
    BY <2>1 DEF NewEntities
  <2> QED
    BY <2>1, <2>2, EndsKept DEF Ends, Deleting, In
<1>4. ASSUME NEW x, NEW k, UpdateEntity(i, x, k) \/ AddLabel(i, x, k)
      PROVE  EdgesHaveEnds'
  <2>1. DOMAIN entities' = DOMAIN entities /\ UNCHANGED <<edges, cut, raced, call>>
    BY <1>4 DEF UpdateEntity, AddLabel, memVars
  <2> QED
    BY <2>1, EndsKept DEF Ends, Deleting, In
<1>5. ASSUME NEW x \in Ids, DeleteEntity(i, x)
      PROVE  EdgesHaveEnds'
  <2> DEFINE c == [op |-> "delete_entity", id |-> x]
  <2>1. /\ call[i] = None /\ call' = [call EXCEPT ![i] = c]
        /\ DOMAIN entities' = DOMAIN entities \ {x}
        /\ UNCHANGED <<edges, cut, raced>>
    BY <1>5 DEF DeleteEntity, MayStart, Idle, Enter, histVars
  <2>2. c # None /\ c.op = "delete_entity" /\ c.id = x
    BY SqliteAssumption DEF Calls
  <2> HIDE DEF c
  <2>3. Deleting \subseteq Deleting' /\ x \in Deleting'
    BY <2>1, <2>2, DeletesAfter DEF In
  <2> QED
    BY <2>1, <2>3, EndsKept DEF Ends
<1>6. ASSUME InsertLabel(i) \/ InsertLabelFails(i)
      PROVE  EdgesHaveEnds'
  <2>1. /\ In(i, "insert_entity") /\ call' = [call EXCEPT ![i] = None]
        /\ UNCHANGED <<entities, edges, cut, raced>>
    BY <1>6 DEF InsertLabel, InsertLabelFails, Return, rowVars, histVars
  <2>2. Deleting \subseteq Deleting'
    BY <2>1, DeletesAfter DEF In
  <2> QED
    BY <2>1, <2>2, EndsKept DEF Ends
<1>7. ASSUME DeleteItsEdges(i)
      PROVE  EdgesHaveEnds'
  <2> DEFINE x == call[i].id
  <2>1. /\ In(i, "delete_entity") /\ call' = [call EXCEPT ![i] = None]
        /\ edges' = {e \in edges : e.from # x /\ e.to # x}
        /\ UNCHANGED <<entities, cut, raced>>
    BY <1>7 DEF DeleteItsEdges, Return
  <2>2. \A y \in Deleting : y \in Deleting' \/ y = x
    BY <2>1, DeletesAfter
  <2> HIDE DEF x
  <2> QED
    BY <2>1, <2>2 DEF EdgesHaveEnds
<1>8. ASSUME DeleteItsEdgesFails(i)
      PROVE  EdgesHaveEnds'
  <2>1. /\ In(i, "delete_entity") /\ call' = [call EXCEPT ![i] = None]
        /\ cut' = cut \cup {call[i].id}
        /\ UNCHANGED <<entities, edges, raced>>
    BY <1>8 DEF DeleteItsEdgesFails, Return, rowVars
  <2>2. Deleting \subseteq Deleting' \cup cut'
    BY <2>1, DeletesAfter
  <2> QED
    BY <2>1, <2>2, EndsKept DEF Ends
<1> QED
  BY <1>2, <1>3, <1>4, <1>5, <1>6, <1>7, <1>8 DEF EntityWrites

LEMMA EndsOfEdgeWrites ==
  ASSUME GraphTypes, EdgesHaveEnds, NEW i \in Inst, EdgeWrites(i)
  PROVE  EdgesHaveEnds'
<1>1. PICK c : CallOf(i, c)
  BY CallSteps DEF OtherStep
<1>2. ASSUME ~In(i, "delete_entity")
      PROVE  Deleting \subseteq Deleting'
  BY <1>1, <1>2, DeletesAfter DEF CallOf
<1>3. ~In(i, "delete_entity") /\ UNCHANGED <<entities, cut>>
  BY DEF EdgeWrites, BeginEdges, EndExists, EndMissing, InsertEdges, InsertEdgesFails,
     BeginChunks, InsertChunk, ChunkRefused, DeleteEdge, MayStart, Idle, In, rowVars, histVars
<1>4. Ends \subseteq Ends'
  BY <1>2, <1>3 DEF Ends
<1>5. CASE InsertEdges(i)
  <2> DEFINE new == Rows(call[i].edges, DOMAIN call[i].edges)
  <2>1. edges' = edges \cup new /\ raced' = raced \cup {e.id : e \in Dangling(new, entities)}
    BY <1>5 DEF InsertEdges
  <2> HIDE DEF new
  <2>2. \A e \in new : e.id \in raced' \/ (e.from \in DOMAIN entities /\ e.to \in DOMAIN entities)
    BY <2>1 DEF Dangling
  <2> QED
    BY <1>3, <1>4, <2>1, <2>2 DEF EdgesHaveEnds, Ends
<1>6. CASE InsertChunk(i)
  <2> DEFINE es == Head(call[i].chunks)
             new == Rows(es, Firsts(es))
  <2>1. HaveEnds(es) /\ edges' = edges \cup new /\ raced' = raced
    BY <1>6 DEF InsertChunk
  <2>2. \A n \in Firsts(es) : es[n].from \in DOMAIN entities /\ es[n].to \in DOMAIN entities
    BY <2>1, BothEnds DEF HaveEnds, Firsts
  <2>3. \A e \in new : e.from \in DOMAIN entities /\ e.to \in DOMAIN entities
    <3> SUFFICES ASSUME NEW e \in new
                 PROVE  e.from \in DOMAIN entities /\ e.to \in DOMAIN entities
      OBVIOUS
    <3>1. PICK n \in Firsts(es) : e.from = es[n].from /\ e.to = es[n].to
      BY RowsEnds
    <3> QED
      BY <2>2, <3>1
  <2> HIDE DEF new
  <2> QED
    BY <1>3, <1>4, <2>1, <2>3 DEF EdgesHaveEnds, Ends
<1>7. CASE ~InsertEdges(i) /\ ~InsertChunk(i)
  <2>1. edges' \subseteq edges /\ raced' = raced
    BY <1>7 DEF EdgeWrites, BeginEdges, EndExists, EndMissing, InsertEdgesFails,
       BeginChunks, ChunkRefused, DeleteEdge, rowVars, histVars
  <2> QED
    BY <1>4, <2>1, EndsKept
<1> QED
  BY <1>5, <1>6, <1>7

\* A load of a dump that no write came into gives edges with the ends they had;
\* of any other dump the edges without ends are counted again.
LEMMA EndsOfLoad ==
  ASSUME GraphTypes, DumpRight, NEW i \in Inst, Load(i)
  PROVE  EdgesHaveEnds'
<1>1. /\ file \in Files
      /\ entities' = file.entities /\ edges' = file.edges
      /\ raced' = IF file.quiet THEN file.src.raced
                  ELSE {e.id : e \in Dangling(file.edges, file.entities)}
      /\ cut' = IF file.quiet THEN file.src.cut ELSE {}
  BY DEF Load, GraphTypes, CallTypes
<1>2. /\ \A e \in file.src.edges : \A x \in {e.from, e.to} :
           x \in DOMAIN file.src.entities \cup file.src.cut \/ e.id \in file.src.raced
      /\ file.quiet /\ file.edges # {} =>
           file.entities = file.src.entities /\ file.edges \subseteq file.src.edges
  BY <1>1 DEF DumpRight, FileFollowsSource
<1>3. CASE file.quiet
  BY <1>1, <1>2, <1>3 DEF EdgesHaveEnds
<1>4. CASE ~file.quiet
  BY <1>1, <1>4 DEF EdgesHaveEnds, Dangling
<1> QED
  BY <1>3, <1>4

EndsInv == GraphTypes /\ DumpRight /\ EdgesHaveEnds

LEMMA EndsInit == Init => EndsInv
<1> SUFFICES ASSUME Init
             PROVE  EndsInv
  OBVIOUS
<1>1. edges = {} /\ file = None /\ \A i \in Inst : call[i] = None
  BY DEF Init
<1>2. EdgesHaveEnds
  BY <1>1 DEF EdgesHaveEnds
<1>3. DumpRight
  BY <1>1, SqliteAssumption DEF DumpRight, DumpFollowsRows, FileFollowsSource, In
<1> QED
  BY <1>2, <1>3, TypesInit DEF EndsInv

LEMMA EndsStep == EndsInv /\ [Next]_vars => EndsInv'
<1> SUFFICES ASSUME EndsInv, [Next]_vars
             PROVE  DumpRight' /\ EdgesHaveEnds'
  BY TypesStep DEF EndsInv
<1>1. GraphTypes /\ DumpRight /\ EdgesHaveEnds
  BY DEF EndsInv
<1>2. ASSUME NEW i \in Inst, OtherStep(i), Watch
      PROVE  DumpRight' /\ EdgesHaveEnds'
  <2>1. PICK c : CallOf(i, c)
    BY <1>1, <1>2, CallSteps
  <2>2. DumpRight'
    BY <1>1, <1>2, <2>1, OtherStepsLeaveDumps
  <2>3. CASE Reads(i)
    <3>1. UNCHANGED <<entities, edges, cut, raced, call>>
      BY <2>3 DEF Reads, FetchOutgoing, FetchIncoming, Query, AcquireSnapshot, rowVars, histVars
    <3> QED
      BY <1>1, <2>2, <3>1, EndsKept DEF Ends, Deleting, In
  <2>4. CASE Die(i) /\ ~In(i, "dump")
    <3>1. /\ call' = [call EXCEPT ![i] = None]
          /\ cut' = IF In(i, "delete_entity") THEN cut \cup {call[i].id} ELSE cut
          /\ UNCHANGED <<entities, edges, raced>>
      BY <2>4 DEF Die, Return, rowVars
    <3>2. cut \cup Deleting \subseteq cut' \cup Deleting'
      BY <1>1, <3>1, DeletesAfter
    <3> QED
      BY <1>1, <2>2, <3>1, <3>2, EndsKept DEF Ends
  <2> QED
    BY <1>1, <1>2, <2>2, <2>3, <2>4, EndsOfEntityWrites, EndsOfEdgeWrites, EndsOfLoad
       DEF OtherStep
<1>3. ASSUME NEW i \in Inst, DumpStep(i), Watch
      PROVE  DumpRight' /\ EdgesHaveEnds'
  <2>1. DumpRight'
    BY <1>1, <1>3, DumpStepsRight
  <2>2. /\ UNCHANGED <<entities, edges, labels, lastEntity, lastEdge, raced>>
        /\ cut' = cut
        /\ ~In(i, "delete_entity")
        /\ \A j \in Inst : j # i => call'[j] = call[j]
    BY <1>1, <1>3, DumpSteps DEF rowVars, DumpStep, Die, DumpBegin, MayStart, Idle, In
  <2>3. Deleting \subseteq Deleting'
    BY <2>2 DEF Deleting, In
  <2> QED
    BY <1>1, <2>1, <2>2, <2>3, EndsKept DEF Ends
<1>4. ASSUME Fresh
      PROVE  DumpRight' /\ EdgesHaveEnds'
  <2>1. /\ edges' = {} /\ call' = call /\ file' = file
        /\ \A i \in Inst : call[i] = None
    BY <1>4 DEF Fresh, Idle
  <2> QED
    BY <1>1, <2>1 DEF DumpRight, DumpFollowsRows, FileFollowsSource, In, EdgesHaveEnds
<1>5. ASSUME UNCHANGED vars
      PROVE  DumpRight' /\ EdgesHaveEnds'
  BY <1>1, <1>5 DEF vars, rowVars, memVars, histVars, DumpRight, DumpFollowsRows,
     FileFollowsSource, EdgesHaveEnds, Deleting, In
<1>6. Next => Watch
  BY DEF Next
<1> QED
  BY <1>1, <1>2, <1>3, <1>4, <1>5, <1>6, StepsOfNext

LEMMA EndsInvariant == Spec => []EndsInv
BY EndsInit, EndsStep, PTL DEF Spec

\* Deletes that are interrupted between the row and its edges, and inserts that
\* looked up their ends before such a delete, are all that leaves an edge without
\* one of its ends, through dumps and loads too.
THEOREM EdgesKeepTheirEnds == Spec => []EdgesHaveEnds
<1>1. EndsInv => EdgesHaveEnds
  BY DEF EndsInv
<1> QED
  BY <1>1, EndsInvariant, PTL

\* load_graph_from_reader gives back the graph dump_graph_to_path was asked to
\* dump, if the dump returned Ok, no row changed while it ran and its last buffer
\* reached the file.
THEOREM DumpsAreRestored == Spec => RestoresWhatWasDumped
<1> DEFINE AsDumped == \A i \in Inst : Load(i) /\ file.ok /\ file.quiet /\ file.whole =>
                         /\ entities' = file.src.entities
                         /\ edges' = file.src.edges
                         /\ labels' = file.src.labels
<1>1. EndsInv => AsDumped
  <2> SUFFICES ASSUME EndsInv, NEW i \in Inst, Load(i), file.ok, file.quiet, file.whole
               PROVE  /\ entities' = file.src.entities
                      /\ edges' = file.src.edges
                      /\ labels' = file.src.labels
    OBVIOUS
  <2>1. /\ file \in Files
        /\ entities' = file.entities /\ edges' = file.edges /\ labels' = file.labels
    BY DEF EndsInv, Load, GraphTypes, CallTypes
  <2> QED
    BY <2>1 DEF EndsInv, DumpRight, FileFollowsSource
<1>2. EndsInv /\ [Next]_vars => [AsDumped]_vars
  BY <1>1
<1>3. RestoresWhatWasDumped <=> [][AsDumped]_vars
  BY DEF RestoresWhatWasDumped
<1> HIDE DEF AsDumped
<1> QED
  BY <1>2, <1>3, EndsInvariant, PTL DEF Spec

-----------------------------------------------------------------------------
(* Labels *)

\* The invariant with its definitions opened.
LabelsRight ==
  /\ \A x \in DOMAIN entities : <<x, entities[x]>> \in labels \/ x \in unlabelled
  /\ \A x \in DOMAIN entities, l \in Kinds :
       <<x, l>> \in labels => <<x, l>> \in given \/ x \in recycled
  /\ \A x \in Ids, l \in Kinds : <<x, l>> \in labels /\ x > lastEntity => x \in recycled

LEMMA LabelsRightMeans == TypeOK => (LabelsRight <=> LabelsOfRows)
<1> SUFFICES ASSUME TypeOK
             PROVE  LabelsRight <=> LabelsOfRows
  OBVIOUS
<1>1. /\ \A x \in DOMAIN entities : entities[x] \in Kinds
      /\ labels \subseteq Ids \X Kinds
  BY EntityRows DEF TypeOK
<1>2. LabelsTellKinds <=>
        /\ \A x \in DOMAIN entities : <<x, entities[x]>> \in labels \/ x \in unlabelled
        /\ \A x \in DOMAIN entities, l \in Kinds :
             <<x, l>> \in labels => <<x, l>> \in given \/ x \in recycled
  BY <1>1 DEF LabelsTellKinds, LabelsOf
<1>3. (\A g \in labels : g[1] > lastEntity => g[1] \in recycled) <=>
        \A x \in Ids, l \in Kinds : <<x, l>> \in labels /\ x > lastEntity => x \in recycled
  BY <1>1
<1> QED
  BY <1>2, <1>3 DEF LabelsRight, LabelsOfRows

LEMMA LabelsOfEntityWrites ==
  ASSUME GraphTypes, LabelsRight, NEW i \in Inst, EntityWrites(i)
  PROVE  LabelsRight'
<1>1. /\ lastEntity \in 0..MaxId /\ MaxId \in Nat /\ lastEntity \in Nat
      /\ \A x \in DOMAIN entities : x \in 1..lastEntity /\ entities[x] \in Kinds
      /\ DOMAIN entities \subseteq Ids /\ Ids \subseteq Nat
      /\ labels \subseteq Ids \X Kinds
  <2>1. lastEntity \in 0..MaxId /\ MaxId \in Nat /\ labels \subseteq Ids \X Kinds
    BY SqliteAssumption DEF GraphTypes, TypeOK
  <2>2. \A x \in DOMAIN entities : x \in 1..lastEntity /\ entities[x] \in Kinds
    BY <2>1, EntityRows DEF GraphTypes, TypeOK
  <2> QED
    BY <2>1, <2>2 DEF Ids
<1>2. /\ \A x \in DOMAIN entities : <<x, entities[x]>> \in labels \/ x \in unlabelled
      /\ \A x \in DOMAIN entities, l \in Kinds :
           <<x, l>> \in labels => <<x, l>> \in given \/ x \in recycled
      /\ \A x \in Ids, l \in Kinds : <<x, l>> \in labels /\ x > lastEntity => x \in recycled
  BY DEF LabelsRight
<1>3. ASSUME NEW k \in Kinds, InsertEntity(i, k)
      PROVE  LabelsRight'
  <2> DEFINE id == lastEntity + 1
  <2>1. /\ entities' = Put(entities, id, k) /\ lastEntity' = id
        /\ given' = {g \in given : g[1] # id} /\ unlabelled' = unlabelled \cup {id}
        /\ labels' = labels /\ recycled' = recycled /\ FitsEntities(1)
    BY <1>3 DEF InsertEntity
  <2>2. /\ DOMAIN entities' = DOMAIN entities \cup {id}
        /\ \A x \in DOMAIN entities' : x # id => entities'[x] = entities[x]
    BY <2>1 DEF Put
  <2>3. id \in Ids /\ id > lastEntity
    BY <1>1, <2>1 DEF FitsEntities, Ids
  <2> HIDE DEF id
  <2>4. \A x \in DOMAIN entities' : <<x, entities'[x]>> \in labels' \/ x \in unlabelled'
    BY <1>2, <2>1, <2>2
  <2>5. ASSUME NEW x \in DOMAIN entities', NEW l \in Kinds, <<x, l>> \in labels'
        PROVE  <<x, l>> \in given' \/ x \in recycled'
    <3>1. CASE x = id
      BY <1>2, <2>1, <2>3, <2>5, <3>1
    <3>2. CASE x # id
      <4>1. x \in DOMAIN entities /\ <<x, l>>[1] # id
        BY <2>2, <3>2
      <4> QED
        BY <1>2, <2>1, <2>5, <4>1
    <3> QED
      BY <3>1, <3>2
  <2>6. \A x \in Ids, l \in Kinds : <<x, l>> \in labels' /\ x > lastEntity' => x \in recycled'
    BY <1>1, <1>2, <2>1, <2>3
  <2> QED
    BY <2>4, <2>5, <2>6 DEF LabelsRight
<1>4. ASSUME NEW kinds \in EntityBatches,
             InsertEntitiesBulk(i, kinds) \/ BulkInsertEntities(i, kinds)
      PROVE  LabelsRight'
  <2> DEFINE n == Len(kinds)
             new == {<<lastEntity + m, kinds[m]>> : m \in DOMAIN kinds}
  <2>1. kinds \in Seq(Kinds) /\ n \in Nat /\ DOMAIN kinds = 1..n
    BY SqliteAssumption
  <2>2. /\ FitsEntities(n) /\ entities' = NewEntities(kinds) /\ lastEntity' = lastEntity + n
        /\ recycled' = recycled
        /\ \/ labels' = labels \cup new /\ given' = given \cup new /\ unlabelled' = unlabelled
           \/ /\ labels' = labels /\ given' = given
              /\ unlabelled' = unlabelled \cup (lastEntity + 1)..(lastEntity + n)
    BY <1>4 DEF InsertEntitiesBulk, BulkInsertEntities
  <2>3. /\ DOMAIN entities' = DOMAIN entities \cup (lastEntity + 1)..(lastEntity + n)
        /\ \A x \in DOMAIN entities' :
             entities'[x] = IF x <= lastEntity THEN entities[x] ELSE kinds[x - lastEntity]
    BY <2>2 DEF NewEntities
  <2>4. DOMAIN entities' \subseteq Ids
    BY <1>1, <2>1, <2>2, <2>3 DEF FitsEntities, Ids
  <2>5. \A x \in Ids, l \in Kinds : <<x, l>> \in new => x <= lastEntity + n
    BY <1>1, <2>1
  <2>6. ASSUME NEW x \in (lastEntity + 1)..(lastEntity + n)
        PROVE  <<x, entities'[x]>> \in new
    <3>1. x - lastEntity \in DOMAIN kinds /\ lastEntity + (x - lastEntity) = x /\ ~(x <= lastEntity)
      BY <1>1, <2>1
    <3>2. entities'[x] = kinds[x - lastEntity]
      BY <2>3, <3>1
    <3> QED
      BY <3>1, <3>2
  <2> HIDE DEF n, new
  <2>7. ASSUME NEW x \in DOMAIN entities'
        PROVE  <<x, entities'[x]>> \in labels' \/ x \in unlabelled'
    <3>1. CASE x \in DOMAIN entities
      BY <1>1, <1>2, <2>2, <2>3, <3>1
    <3>2. CASE x \in (lastEntity + 1)..(lastEntity + n)
      BY <2>2, <2>6, <3>2
    <3> QED
      BY <2>3, <3>1, <3>2
  <2>8. ASSUME NEW x \in DOMAIN entities', NEW l \in Kinds, <<x, l>> \in labels'
        PROVE  <<x, l>> \in given' \/ x \in recycled'
    <3>1. CASE <<x, l>> \in labels /\ x \in DOMAIN entities
      BY <1>2, <2>2, <3>1
    <3>2. CASE <<x, l>> \in labels /\ x \in (lastEntity + 1)..(lastEntity + n)
      BY <1>1, <1>2, <2>1, <2>2, <2>4, <3>2 DEF n
    <3>3. CASE <<x, l>> \notin labels
      BY <2>2, <2>8, <3>3
    <3> QED
      BY <2>3, <3>1, <3>2, <3>3
  <2>9. ASSUME NEW x \in Ids, NEW l \in Kinds, <<x, l>> \in labels', x > lastEntity'
        PROVE  x \in recycled'
    <3>1. x > lastEntity /\ ~(x <= lastEntity + n)
      BY <1>1, <2>1, <2>2, <2>9 DEF n
    <3> QED
      BY <1>2, <2>2, <2>5, <2>9, <3>1
  <2> QED
    BY <2>7, <2>8, <2>9 DEF LabelsRight
<1>5. ASSUME NEW x \in Ids, NEW k \in Kinds, UpdateEntity(i, x, k)
      PROVE  LabelsRight'
  <2>1. /\ entities' = [entities EXCEPT ![x] = k]
        /\ unlabelled' = IF k \in LabelsOf(x) THEN unlabelled \ {x} ELSE unlabelled \cup {x}
        /\ UNCHANGED <<labels, lastEntity, given, recycled>>
        /\ k \in LabelsOf(x) => <<x, k>> \in labels
    BY <1>5 DEF UpdateEntity, LabelsOf
  <2>2. /\ DOMAIN entities' = DOMAIN entities
        /\ \A y \in DOMAIN entities : entities'[y] = IF y = x THEN k ELSE entities[y]
    BY <2>1
  <2> QED
    BY <1>2, <2>1, <2>2 DEF LabelsRight
<1>6. ASSUME NEW x \in Ids, NEW l \in Kinds, AddLabel(i, x, l)
      PROVE  LabelsRight'
  <2>1. /\ x \in 1..lastEntity
        /\ labels' = labels \cup {<<x, l>>} /\ given' = given \cup {<<x, l>>}
        /\ unlabelled' = IF x \in DOMAIN entities /\ entities[x] = l THEN unlabelled \ {x}
                         ELSE unlabelled
        /\ UNCHANGED <<entities, lastEntity, recycled>>
    BY <1>6 DEF AddLabel
  <2> QED
    BY <1>1, <1>2, <2>1 DEF LabelsRight
<1>7. ASSUME NEW x \in Ids, DeleteEntity(i, x)
      PROVE  LabelsRight'
  <2>1. /\ entities' = [y \in DOMAIN entities \ {x} |-> entities[y]]
        /\ UNCHANGED <<labels, lastEntity, given, unlabelled, recycled>>
    BY <1>7 DEF DeleteEntity, histVars
  <2> QED
    BY <1>2, <2>1 DEF LabelsRight
<1>8. ASSUME InsertLabel(i)
      PROVE  LabelsRight'
  <2> DEFINE id == call[i].id
             kind == call[i].kind
  <2>1. /\ labels' = labels \cup {<<id, kind>>} /\ given' = given \cup {<<id, kind>>}
        /\ unlabelled' = unlabelled \ IF id \in DOMAIN entities /\ entities[id] = kind
                                      THEN {id} ELSE {}
        /\ UNCHANGED <<entities, lastEntity, recycled>>
    BY <1>8 DEF InsertLabel
  <2>2. id \in 1..lastEntity /\ kind \in Kinds
    BY <1>8, CallFields DEF InsertLabel
  <2> HIDE DEF id, kind
  <2> QED
    BY <1>1, <1>2, <2>1, <2>2 DEF LabelsRight
<1>9. ASSUME InsertLabelFails(i) \/ DeleteItsEdges(i) \/ DeleteItsEdgesFails(i)
      PROVE  LabelsRight'
  <2>1. UNCHANGED <<entities, labels, lastEntity, given, unlabelled, recycled>>
    BY <1>9 DEF InsertLabelFails, DeleteItsEdges, DeleteItsEdgesFails, rowVars, histVars
  <2> QED
    BY <1>2, <2>1 DEF LabelsRight
<1> QED
  BY <1>3, <1>4, <1>5, <1>6, <1>7, <1>8, <1>9 DEF EntityWrites

LEMMA LabelsOfLoad ==
  ASSUME GraphTypes, NEW i \in Inst, Load(i)
  PROVE  LabelsRight'
<1>1. /\ file \in Files
      /\ entities' = file.entities /\ labels' = file.labels
      /\ given' = {g \in file.labels : g[1] \in DOMAIN file.entities}
      /\ unlabelled' = {x \in DOMAIN file.entities : <<x, file.entities[x]>> \notin file.labels}
      /\ recycled' = {x \in Ids : x > lastEntity' /\ \E l \in Kinds : <<x, l>> \in file.labels}
  BY DEF Load, GraphTypes, CallTypes
<1> QED
  BY <1>1 DEF LabelsRight

LabelInv == GraphTypes /\ LabelsRight

LEMMA LabelsStep == LabelInv /\ [Next]_vars => LabelInv'
<1> SUFFICES ASSUME LabelInv, [Next]_vars
             PROVE  LabelsRight'
  BY TypesStep DEF LabelInv
<1>1. GraphTypes /\ LabelsRight
  BY DEF LabelInv
<1>2. ASSUME UNCHANGED <<entities, labels, lastEntity, given, unlabelled, recycled>>
      PROVE  LabelsRight'
  BY <1>1, <1>2 DEF LabelsRight
<1>3. ASSUME NEW i \in Inst, OtherStep(i), ~EntityWrites(i), ~Load(i)
      PROVE  UNCHANGED <<entities, labels, lastEntity, given, unlabelled, recycled>>
  <2>1. CASE Reads(i)
    BY <2>1 DEF Reads, FetchOutgoing, FetchIncoming, Query, AcquireSnapshot, rowVars, histVars
  <2>2. CASE EdgeWrites(i)
    BY <2>2 DEF EdgeWrites, BeginEdges, EndExists, EndMissing, InsertEdges, InsertEdgesFails,
       BeginChunks, InsertChunk, ChunkRefused, DeleteEdge, rowVars, histVars
  <2>3. CASE Die(i)
    BY <2>3 DEF Die, rowVars
  <2> QED
    BY <1>3, <2>1, <2>2, <2>3 DEF OtherStep
<1>4. ASSUME NEW i \in Inst, DumpStep(i)
      PROVE  UNCHANGED <<entities, labels, lastEntity, given, unlabelled, recycled>>
  BY <1>4 DEF DumpStep, DumpBegin, DumpEntity, DumpEdgeIds, DumpEdge, DumpFails, DumpLabels,
     DumpUnwritten, Die, rowVars, histVars
<1>5. CASE Fresh
  <2>1. entities' = Empty /\ DOMAIN Empty = {} /\ labels' = {}
    BY <1>5 DEF Fresh, Empty
  <2> QED
    BY <2>1 DEF LabelsRight
<1>6. CASE UNCHANGED vars
  BY <1>2, <1>6 DEF vars, rowVars, histVars
<1> QED
  BY <1>1, <1>2, <1>3, <1>4, <1>5, <1>6, StepsOfNext, LabelsOfEntityWrites, LabelsOfLoad

\* An entity never shows a label it was not given: those a deleted entity left
\* behind stay with an id that AUTOINCREMENT does not give again, except that of
\* a graph loaded into a file that has not come as far.
THEOREM LabelsTellTheKinds == Spec => []LabelsTellKinds
<1>1. Init => LabelInv
  <2>1. Init => entities = Empty /\ labels = {} /\ DOMAIN Empty = {}
    BY DEF Init, Empty
  <2> QED
    BY <2>1, TypesInit DEF LabelInv, LabelsRight
<1>2. LabelInv => LabelsTellKinds
  BY LabelsRightMeans DEF LabelInv, LabelsOfRows, GraphTypes
<1> QED
  BY <1>1, <1>2, LabelsStep, PTL DEF Spec

-----------------------------------------------------------------------------
(* The vector index: numbers, sequences, functions *)

\* A non-empty set of naturals with a bound has a greatest element.
LEMMA GreatestNatural ==
  ASSUME NEW S, S \subseteq Nat, S # {}, NEW b \in Nat, \A x \in S : x <= b
  PROVE  Max(S) \in S /\ \A y \in S : y <= Max(S)
<1> DEFINE T == {b - x : x \in S}
<1>1. T \subseteq Nat /\ T # {}
  <2>1. \A x \in S : b - x \in Nat
    OBVIOUS
  <2> QED
    BY <2>1
<1>2. PICK t \in T : \A y \in T : t <= y
  <2> HIDE DEF T
  <2> QED
    BY <1>1, LeastNatural
<1>3. PICK x \in S : t = b - x
  OBVIOUS
<1>4. \A y \in S : x >= y
  BY <1>2, <1>3
<1> QED
  BY <1>4 DEF Max

\* How wide a layer is: at least one.
LEMMA HalvedFact ==
  ASSUME NEW n \in Nat \ {0}, NEW level
  PROVE  Halved(n, level) \in Nat \ {0}
<1> DEFINE S == {w \in 1..n : w = 1 \/ w * 2^level <= n}
<1>1. S \subseteq Nat /\ 1 \in S /\ \A x \in S : x <= n
  OBVIOUS
<1>2. Max(S) \in S
  <2> HIDE DEF S
  <2> QED
    BY <1>1, GreatestNatural
<1> QED
  BY <1>2 DEF Halved

LEMMA WidthFact ==
  ASSUME NEW level
  PROVE  Width(level) \in Nat \ {0}
<1>1. Width0 \in Nat \ {0}
  BY HnswAssumption
<1> QED
  BY <1>1, HalvedFact DEF Width

\* The levels there are.
LEMMA LevelFacts ==
  /\ 0 \in Levels /\ Levels \subseteq 0..15
  /\ \A l \in Levels : 0..l \subseteq Levels
  /\ \A c \in Configs : c.multi \in BOOLEAN /\ c.ml \in 1..16 /\ LevelsOf(c) \subseteq Levels
<1>1. \A c \in Configs : c.multi \in BOOLEAN /\ c.ml \in 1..16
  BY HnswAssumption
<1>2. \A c \in Configs : LevelsOf(c) \subseteq Levels
  BY DEF Levels
<1>3. \A c \in Configs : 0 \in LevelsOf(c) /\ LevelsOf(c) \subseteq 0..15
                         /\ \A l \in LevelsOf(c) : 0..l \subseteq LevelsOf(c)
  BY <1>1 DEF LevelsOf
<1>4. 0 \in Levels
  BY <1>2, <1>3, HnswAssumption
<1>5. \A l \in Levels : \E c \in Configs : l \in LevelsOf(c)
  BY DEF Levels
<1> QED
  BY <1>1, <1>2, <1>3, <1>4, <1>5

\* A function with one more argument.
LEMMA WithFacts ==
  ASSUME NEW f, NEW x, NEW v
  PROVE  /\ DOMAIN With(f, x, v) = DOMAIN f \cup {x}
         /\ With(f, x, v)[x] = v
         /\ \A y \in DOMAIN f : y # x => With(f, x, v)[y] = f[y]
BY DEF With

\* The sequence without an element, taken along the sequence.
WithoutUpTo(s, x, kept, m) ==
  kept = [n \in 0..m |-> IF n = 0 THEN <<>>
                         ELSE IF s[n] = x THEN kept[n - 1] ELSE Append(kept[n - 1], s[n])]
LEMMA WithoutExists ==
  ASSUME NEW s, NEW x, NEW L \in Nat
  PROVE  \E kept : WithoutUpTo(s, x, kept, L)
<1> DEFINE Bad == {m \in 0..L : \A kept : ~WithoutUpTo(s, x, kept, m)}
<1> SUFFICES ASSUME L \in Bad PROVE FALSE
  OBVIOUS
<1>1. Bad \subseteq Nat /\ Bad # {}
  OBVIOUS
<1>2. PICK m \in Bad : \A y \in Bad : m <= y
  <2> HIDE DEF Bad
  <2> QED
    BY <1>1, LeastNatural
<1>3. m \in 0..L /\ \A kept : ~WithoutUpTo(s, x, kept, m)
  BY <1>2
<1>4. m # 0
  <2> SUFFICES ASSUME m = 0 PROVE FALSE
    OBVIOUS
  <2> DEFINE k0 == [n \in 0..0 |-> <<>>]
  <2>1. k0 = [n \in 0..0 |-> IF n = 0 THEN <<>>
                         ELSE IF s[n] = x THEN k0[n - 1] ELSE Append(k0[n - 1], s[n])]
    OBVIOUS
  <2> QED
    BY <2>1, <1>3 DEF WithoutUpTo
<1>5. m - 1 \in 0..L /\ ~(m <= m - 1)
  BY <1>3, <1>4
<1>6. PICK g : WithoutUpTo(s, x, g, m - 1)
  BY <1>2, <1>5
<1> DEFINE f == [n \in 0..m |-> IF n = m THEN IF s[m] = x THEN g[m - 1] ELSE Append(g[m - 1], s[m])
                                ELSE g[n]]
<1>7. \A n \in 0..(m - 1) : g[n] = IF n = 0 THEN <<>>
                         ELSE IF s[n] = x THEN g[n - 1] ELSE Append(g[n - 1], s[n])
  BY <1>6 DEF WithoutUpTo
<1>8. \A n \in 0..m : f[n] = IF n = 0 THEN <<>>
                         ELSE IF s[n] = x THEN f[n - 1] ELSE Append(f[n - 1], s[n])
  <2> SUFFICES ASSUME NEW n \in 0..m
               PROVE  f[n] = IF n = 0 THEN <<>>
                         ELSE IF s[n] = x THEN f[n - 1] ELSE Append(f[n - 1], s[n])
    OBVIOUS
  <2>1. CASE n = m
    <3>1. m - 1 \in 0..m /\ m - 1 # m
      BY <1>3, <1>4
    <3>2. f[m - 1] = g[m - 1]
      BY <3>1
    <3> QED
      BY <3>2, <2>1, <1>4
  <2>2. CASE n # m
    <3>1. n \in 0..(m - 1) /\ f[n] = g[n]
      BY <2>2, <1>3
    <3>2. n # 0 => n - 1 \in 0..m /\ n - 1 # m /\ f[n - 1] = g[n - 1]
      BY <3>1, <1>3
    <3> QED
      BY <3>1, <3>2, <1>7
  <2> QED
    BY <2>1, <2>2
<1>9. WithoutUpTo(s, x, f, m)
  <2>1. f = [n \in 0..m |-> f[n]]
    OBVIOUS
  <2> HIDE DEF f
  <2> QED
    BY <2>1, <1>8 DEF WithoutUpTo
<1> QED
  BY <1>9, <1>3

LEMMA WithoutSteps ==
  ASSUME NEW s \in Seq(Nat), NEW x
  PROVE  \E kept : /\ kept[0] = <<>>
                   /\ \A n \in 1..Len(s) :
                        kept[n] = IF s[n] = x THEN kept[n - 1] ELSE Append(kept[n - 1], s[n])
                   /\ Without(s, x) = kept[Len(s)]
<1>1. Without(s, x) = (CHOOSE kept : WithoutUpTo(s, x, kept, Len(s)))[Len(s)]
  BY DEF Without, WithoutUpTo
<1>2. WithoutUpTo(s, x, CHOOSE kept : WithoutUpTo(s, x, kept, Len(s)), Len(s))
  <2>1. Len(s) \in Nat
    OBVIOUS
  <2> QED
    BY <2>1, WithoutExists
<1>3. PICK kept : kept = CHOOSE k : WithoutUpTo(s, x, k, Len(s))
  OBVIOUS
<1>4. \A n \in 0..Len(s) : kept[n] = IF n = 0 THEN <<>>
                         ELSE IF s[n] = x THEN kept[n - 1] ELSE Append(kept[n - 1], s[n])
  BY <1>2, <1>3 DEF WithoutUpTo
<1>5. 0 \in 0..Len(s) /\ \A n \in 1..Len(s) : n \in 0..Len(s) /\ n # 0
  OBVIOUS
<1>6. kept[0] = <<>>
  BY <1>4, <1>5
<1>7. \A n \in 1..Len(s) : kept[n] = IF s[n] = x THEN kept[n - 1] ELSE Append(kept[n - 1], s[n])
  BY <1>4, <1>5
<1>8. Without(s, x) = kept[Len(s)]
  BY <1>1, <1>3
<1> QED
  BY <1>6, <1>7, <1>8, Zenon

\* What Without keeps: the sequence itself if the element is not there.
LEMMA WithoutFacts ==
  ASSUME NEW s \in Seq(Nat), NEW x
  PROVE  /\ Without(s, x) \in Seq(Nat)
         /\ Range(Without(s, x)) \subseteq Range(s) \ {x}
         /\ x \notin Range(s) => Without(s, x) = s
<1>1. PICK kept : /\ kept[0] = <<>>
                  /\ \A n \in 1..Len(s) :
                       kept[n] = IF s[n] = x THEN kept[n - 1] ELSE Append(kept[n - 1], s[n])
                  /\ Without(s, x) = kept[Len(s)]
  BY WithoutSteps
<1> DEFINE R == Range(s) \ {x}
           P(n) == /\ kept[n] \in Seq(Nat)
                   /\ \A k \in 1..Len(kept[n]) : kept[n][k] \in R
                   /\ x \notin Range(s) => /\ Len(kept[n]) = n
                                           /\ \A k \in 1..n : kept[n][k] = s[k]
           Bad == {n \in 0..Len(s) : ~P(n)}
<1>2. Bad = {}
  <2> SUFFICES ASSUME Bad # {} PROVE FALSE
    OBVIOUS
  <2>1. Bad \subseteq Nat
    OBVIOUS
  <2>2. PICK m \in Bad : \A y \in Bad : m <= y
    <3> HIDE DEF Bad
    <3> QED
      BY <2>1, LeastNatural
  <2>3. m \in 0..Len(s) /\ ~P(m)
    BY <2>2
  <2>4. m # 0
    <3>1. P(0)
      BY <1>1
    <3> QED
      BY <3>1, <2>3
  <2>5. m - 1 \in 0..Len(s) /\ ~(m <= m - 1) /\ m \in 1..Len(s)
    BY <2>3, <2>4
  <2>6. P(m - 1)
    BY <2>2, <2>5
  <2>7. s[m] \in Nat /\ s[m] \in Range(s)
    BY <2>5 DEF Range
  <2>8. CASE s[m] = x
    BY <2>8, <2>6, <2>7, <2>3, <2>5, <1>1
  <2>9. CASE s[m] # x
    <3>1. PICK t \in Seq(Nat) : t = kept[m - 1]
      BY <2>6
    <3>2. kept[m] = Append(t, s[m])
      BY <2>9, <2>5, <1>1, <3>1
    <3>3. s[m] \in R
      BY <2>9, <2>7
    <3>4. /\ Append(t, s[m]) \in Seq(Nat) /\ Len(Append(t, s[m])) = Len(t) + 1
          /\ \A k \in 1..Len(t) : Append(t, s[m])[k] = t[k]
          /\ Append(t, s[m])[Len(t) + 1] = s[m]
      BY <2>7
    <3>5. \A k \in 1..Len(t) : t[k] \in R
      BY <2>6, <3>1
    <3>6. x \notin Range(s) => Len(t) = m - 1 /\ \A k \in 1..(m - 1) : t[k] = s[k]
      BY <2>6, <3>1
    <3>7. \A k \in 1..Len(kept[m]) : kept[m][k] \in R
      <4> HIDE DEF R
      <4> QED
        BY <3>2, <3>3, <3>4, <3>5
    <3>8. x \notin Range(s) => Len(kept[m]) = m /\ \A k \in 1..m : kept[m][k] = s[k]
      BY <3>2, <3>4, <3>6, <2>5
    <3>9. kept[m] \in Seq(Nat)
      BY <3>2, <3>4
    <3> QED
      BY <3>7, <3>8, <3>9, <2>3
  <2> QED
    BY <2>8, <2>9
<1>3. P(Len(s))
  BY <1>2
<1>4. Range(Without(s, x)) \subseteq R
  <2>1. \A k \in DOMAIN kept[Len(s)] : kept[Len(s)][k] \in R
    BY <1>3
  <2> HIDE DEF R
  <2> QED
    BY <2>1, <1>1 DEF Range
<1>5. x \notin Range(s) => Without(s, x) = s
  <2> SUFFICES ASSUME x \notin Range(s) PROVE Without(s, x) = s
    OBVIOUS
  <2>1. PICK t \in Seq(Nat) : t = kept[Len(s)]
    BY <1>3
  <2>2. Len(t) = Len(s) /\ \A k \in 1..Len(s) : t[k] = s[k]
    BY <1>3, <2>1
  <2>3. t = [k \in 1..Len(t) |-> t[k]] /\ s = [k \in 1..Len(s) |-> s[k]]
    OBVIOUS
  <2>4. [k \in 1..Len(t) |-> t[k]] = [k \in 1..Len(s) |-> s[k]]
    BY <2>2
  <2>5. t = s
    BY <2>3, <2>4, Zenon
  <2> QED
    BY <2>1, <2>5, <1>1
<1> QED
  BY <1>1, <1>3, <1>4, <1>5

-----------------------------------------------------------------------------
(* The vector index: one layer *)

LinkMaps == UNION {[S -> SUBSET Nat] : S \in SUBSET Nat}
VectorMaps == UNION {[S -> Nat] : S \in SUBSET (Nat \ {0})}
Layers == [links : LinkMaps, eps : SUBSET Nat, dirty : SUBSET Nat]

\* Links, entry points and marks of a layer are of its nodes.
LayerOK(L) ==
  /\ L \in Layers
  /\ IsFiniteSet(NodesOf(L))
  /\ \A x \in NodesOf(L) : L.links[x] \subseteq NodesOf(L)
  /\ L.eps \subseteq NodesOf(L) /\ L.dirty \subseteq NodesOf(L)

LEMMA LinkMapFacts ==
  ASSUME NEW f
  PROVE  /\ f \in LinkMaps => DOMAIN f \subseteq Nat /\ \A x \in DOMAIN f : f[x] \subseteq Nat
         /\ \A S : S \subseteq Nat /\ f \in [S -> SUBSET Nat] => f \in LinkMaps
<1>1. ASSUME f \in LinkMaps PROVE DOMAIN f \subseteq Nat /\ \A x \in DOMAIN f : f[x] \subseteq Nat
  <2>1. PICK S \in SUBSET Nat : f \in [S -> SUBSET Nat]
    BY <1>1 DEF LinkMaps
  <2> QED
    BY <2>1
<1>2. \A S : S \subseteq Nat /\ f \in [S -> SUBSET Nat] => f \in LinkMaps
  BY DEF LinkMaps
<1> QED
  BY <1>1, <1>2

LEMMA VectorMapFacts ==
  ASSUME NEW f
  PROVE  /\ f \in VectorMaps => DOMAIN f \subseteq Nat \ {0} /\ \A x \in DOMAIN f : f[x] \in Nat
         /\ \A S : S \subseteq Nat \ {0} /\ f \in [S -> Nat] => f \in VectorMaps
<1>1. ASSUME f \in VectorMaps PROVE DOMAIN f \subseteq Nat \ {0} /\ \A x \in DOMAIN f : f[x] \in Nat
  <2>1. PICK S \in SUBSET (Nat \ {0}) : f \in [S -> Nat]
    BY <1>1 DEF VectorMaps
  <2> QED
    BY <2>1
<1>2. \A S : S \subseteq Nat \ {0} /\ f \in [S -> Nat] => f \in VectorMaps
  BY DEF VectorMaps
<1> QED
  BY <1>1, <1>2

LEMMA WithVector ==
  ASSUME NEW f \in VectorMaps, NEW id \in Nat \ {0}, NEW p \in Nat
  PROVE  With(f, id, p) \in VectorMaps
<1>1. DOMAIN f \subseteq Nat \ {0} /\ \A x \in DOMAIN f : f[x] \in Nat
  BY VectorMapFacts
<1>2. With(f, id, p) \in [DOMAIN f \cup {id} -> Nat]
  BY <1>1 DEF With
<1>3. DOMAIN f \cup {id} \subseteq Nat \ {0}
  BY <1>1
<1> QED
  BY <1>2, <1>3, VectorMapFacts, Zenon

\* A layer is made of its three parts.
LEMMA LayerIs ==
  ASSUME NEW links, NEW eps, NEW dirty, NEW S, S \subseteq Nat, IsFiniteSet(S),
         links \in [S -> SUBSET Nat], \A x \in S : links[x] \subseteq S,
         eps \subseteq S, dirty \subseteq S
  PROVE  LayerOK([links |-> links, eps |-> eps, dirty |-> dirty])
<1>1. links \in LinkMaps
  BY LinkMapFacts
<1>2. DOMAIN links = S
  OBVIOUS
<1> QED
  BY <1>1, <1>2 DEF LayerOK, Layers, NodesOf

LEMMA EmptyLayerOK ==
  LayerOK(EmptyLayer) /\ NodesOf(EmptyLayer) = {}
<1>1. [n \in {} |-> {}] \in [{} -> SUBSET Nat] /\ DOMAIN [n \in {} |-> {}] = {}
  OBVIOUS
<1>2. IsFiniteSet({})
  BY FS_EmptySet
<1> QED
  BY <1>1, <1>2, LayerIs DEF EmptyLayer, NodesOf

LEMMA AddNodeOK ==
  ASSUME NEW L, LayerOK(L), NEW n \in Nat, n \notin NodesOf(L), NEW level,
         NEW M, M = AddNode(L, n, level)
  PROVE  /\ LayerOK(M) /\ NodesOf(M) = NodesOf(L) \cup {n} /\ M.dirty = L.dirty \cup {n}
         /\ M.links[n] = {} /\ \A x \in NodesOf(L) : M.links[x] = L.links[x]
         /\ L.eps \subseteq M.eps /\ M.eps \subseteq L.eps \cup {n}
         /\ L.eps = {} => n \in M.eps
<1> DEFINE links == With(L.links, n, {})
           eps == IF Cardinality(L.eps) < Width(level) THEN L.eps \cup {n} ELSE L.eps
           dirty == L.dirty \cup {n}
           S == NodesOf(L) \cup {n}
<1>1. M = [links |-> links, eps |-> eps, dirty |-> dirty]
  BY DEF AddNode
<1>2. /\ NodesOf(L) \subseteq Nat /\ L.eps \subseteq NodesOf(L) /\ L.dirty \subseteq NodesOf(L)
      /\ IsFiniteSet(NodesOf(L)) /\ \A x \in NodesOf(L) : L.links[x] \subseteq NodesOf(L)
  BY LinkMapFacts DEF LayerOK, Layers, NodesOf
<1>3. /\ DOMAIN links = S /\ links[n] = {} /\ \A x \in NodesOf(L) : links[x] = L.links[x]
  <2>1. /\ DOMAIN links = DOMAIN L.links \cup {n} /\ links[n] = {}
        /\ \A y \in DOMAIN L.links : y # n => links[y] = L.links[y]
    BY DEF With
  <2> QED
    BY <2>1 DEF NodesOf
<1>4. links \in [S -> SUBSET Nat] /\ \A x \in S : links[x] \subseteq S
  <2>1. links = [y \in S |-> links[y]]
    BY DEF With, NodesOf
  <2> HIDE DEF links
  <2> QED
    BY <2>1, <1>2, <1>3
<1>5. IsFiniteSet(S)
  BY <1>2, FS_AddElement
<1>6. S \subseteq Nat /\ eps \subseteq S /\ dirty \subseteq S
  BY <1>2
<1>7. LayerOK(M)
  <2> HIDE DEF links, eps, dirty, S
  <2> QED
    BY <1>1, <1>4, <1>5, <1>6, LayerIs
<1>8. M.links = links /\ M.eps = eps /\ M.dirty = dirty
  BY <1>1
<1>9. L.eps = {} => n \in eps
  <2>1. Cardinality({}) = 0 /\ Width(level) \in Nat \ {0}
    BY FS_EmptySet, WidthFact
  <2> QED
    BY <2>1
<1>10. L.eps \subseteq eps /\ eps \subseteq L.eps \cup {n}
  OBVIOUS
<1> HIDE DEF links, eps
<1> QED
  BY <1>3, <1>7, <1>8, <1>9, <1>10 DEF NodesOf

LEMMA LowestFact == ASSUME NEW S, NEW k PROVE Lowest(S, k) \subseteq S
BY DEF Lowest

LEMMA ConnectOK ==
  ASSUME NEW L, LayerOK(L), NEW n \in NodesOf(L), NEW level,
         NEW near, near \subseteq NodesOf(L) \ {n},
         NEW M, M = Connect(L, n, near, level)
  PROVE  /\ LayerOK(M) /\ NodesOf(M) = NodesOf(L) /\ M.eps = L.eps
         /\ M.dirty = L.dirty \cup {n} \cup near
         /\ M.links[n] = near
         /\ \A x \in near : n \in M.links[x] /\ M.links[x] \subseteq L.links[x] \cup {n}
         /\ \A x \in NodesOf(L) \ (near \cup {n}) : M.links[x] = L.links[x]
<1> DEFINE S == NodesOf(L)
           links == [x \in NodesOf(L) |->
                             CASE x = n -> near
                               [] x \in near -> ReverseLinks(L.links[x], n, level)
                               [] OTHER -> L.links[x]]
           dirty == L.dirty \cup {n} \cup near
<1>2. /\ NodesOf(L) \subseteq Nat /\ L.eps \subseteq NodesOf(L) /\ L.dirty \subseteq NodesOf(L)
      /\ IsFiniteSet(NodesOf(L)) /\ \A x \in NodesOf(L) : L.links[x] \subseteq NodesOf(L)
  BY LinkMapFacts DEF LayerOK, Layers, NodesOf
<1>1. M = [links |-> links, eps |-> L.eps, dirty |-> dirty]
  <2>1. L \in Layers
    BY DEF LayerOK
  <2>2. L = [links |-> L.links, eps |-> L.eps, dirty |-> L.dirty]
    BY <2>1 DEF Layers
  <2>3. M = [L EXCEPT !.links = links, !.dirty = dirty]
    BY DEF Connect
  <2> HIDE DEF links, dirty
  <2> QED
    BY <2>2, <2>3
<1>3. \A old : n \in ReverseLinks(old, n, level) /\ ReverseLinks(old, n, level) \subseteq old \cup {n}
  BY LowestFact DEF ReverseLinks
<1>4. /\ links[n] = near
      /\ \A x \in near : n \in links[x] /\ links[x] \subseteq L.links[x] \cup {n}
      /\ \A x \in NodesOf(L) \ (near \cup {n}) : links[x] = L.links[x]
  BY <1>3
<1>5. DOMAIN links = S /\ links = [x \in S |-> links[x]]
  OBVIOUS
<1>6. links \in [S -> SUBSET Nat] /\ \A x \in S : links[x] \subseteq S
  <2>1. \A x \in S : x = n \/ x \in near \/ x \in NodesOf(L) \ (near \cup {n})
    OBVIOUS
  <2>2. \A x \in S : links[x] \subseteq S
    <3> HIDE DEF links
    <3> QED
      BY <2>1, <1>4, <1>2
  <2> HIDE DEF links
  <2> QED
    BY <2>2, <1>5, <1>2
<1>7. dirty \subseteq S
  BY <1>2
<1> HIDE DEF links, dirty
<1>8. LayerOK(M)
  BY <1>1, <1>2, <1>6, <1>7, LayerIs
<1> QED
  BY <1>1, <1>4, <1>5, <1>8 DEF NodesOf, dirty

LEMMA RemoveNodeOK ==
  ASSUME NEW L, LayerOK(L), NEW n, NEW M, M = RemoveNode(L, n)
  PROVE  /\ LayerOK(M) /\ NodesOf(M) = NodesOf(L) /\ M.eps = L.eps \ {n}
         /\ L.dirty \subseteq M.dirty
         /\ n \in NodesOf(L) => n \in M.dirty
         /\ \A x \in NodesOf(L) : /\ x \notin M.dirty => M.links[x] = L.links[x]
                                  /\ n \notin M.links[x] /\ M.links[x] \subseteq L.links[x]
<1>2. /\ NodesOf(L) \subseteq Nat /\ L.eps \subseteq NodesOf(L) /\ L.dirty \subseteq NodesOf(L)
      /\ IsFiniteSet(NodesOf(L)) /\ \A x \in NodesOf(L) : L.links[x] \subseteq NodesOf(L)
  BY LinkMapFacts DEF LayerOK, Layers, NodesOf
<1>3. CASE n \notin NodesOf(L)
  <2>1. M = L
    BY <1>3 DEF RemoveNode
  <2> QED
    BY <2>1, <1>2, <1>3
<1>4. CASE n \in NodesOf(L)
  <2> DEFINE S == NodesOf(L)
             links == [x \in NodesOf(L) |-> IF x = n THEN {} ELSE L.links[x] \ {n}]
             eps == L.eps \ {n}
             dirty == L.dirty \cup {n} \cup {x \in NodesOf(L) : n \in L.links[x]}
  <2>1. M = [links |-> links, eps |-> eps, dirty |-> dirty]
    BY <1>4 DEF RemoveNode
  <2>2. links \in [S -> SUBSET Nat] /\ \A x \in S : links[x] \subseteq S
    BY <1>2
  <2>3. eps \subseteq S /\ dirty \subseteq S
    BY <1>2, <1>4
  <2>4. LayerOK(M)
    <3> HIDE DEF links, eps, dirty, S
    <3>1. S \subseteq Nat /\ IsFiniteSet(S)
      BY <1>2 DEF S
    <3> QED
      BY <2>1, <2>2, <2>3, <3>1, LayerIs
  <2>5. DOMAIN links = S
    OBVIOUS
  <2>6. \A x \in S : /\ x \notin dirty => links[x] = L.links[x]
                     /\ n \notin links[x] /\ links[x] \subseteq L.links[x]
    OBVIOUS
  <2>7. M.links = links /\ M.eps = eps /\ M.dirty = dirty
    BY <2>1
  <2>8. L.dirty \subseteq dirty /\ n \in dirty
    OBVIOUS
  <2> HIDE DEF links, dirty
  <2> QED
    BY <2>4, <2>5, <2>6, <2>7, <2>8 DEF NodesOf
<1> QED
  BY <1>3, <1>4

-----------------------------------------------------------------------------
(* The vector index: searching a layer *)

\* Repeating a step that depends on its number.
Repeats(f, L, S, x0, F) ==
  f \in [0..L -> S] /\ \A n \in 0..L : f[n] = IF n = 0 THEN x0 ELSE F[<<n, f[n - 1]>>]
LEMMA Repeated ==
  ASSUME NEW L \in Nat, NEW S, NEW x0 \in S, NEW F \in [(1..L) \X S -> S]
  PROVE  \E f : Repeats(f, L, S, x0, F)
<1> DEFINE Bad == {m \in 0..L : \A f : ~Repeats(f, m, S, x0, F)}
<1> SUFFICES ASSUME L \in Bad PROVE FALSE
  OBVIOUS
<1>1. Bad \subseteq Nat /\ Bad # {}
  OBVIOUS
<1>2. PICK m \in Bad : \A y \in Bad : m <= y
  <2> HIDE DEF Bad
  <2> QED
    BY <1>1, LeastNatural
<1>3. m \in 0..L /\ \A f : ~Repeats(f, m, S, x0, F)
  BY <1>2
<1>4. m # 0
  <2> SUFFICES ASSUME m = 0 PROVE FALSE
    OBVIOUS
  <2> DEFINE f == [n \in 0..0 |-> x0]
  <2>1. Repeats(f, 0, S, x0, F)
    BY DEF Repeats
  <2> QED
    BY <2>1, <1>3
<1>5. m - 1 \in 0..L /\ ~(m <= m - 1)
  BY <1>3, <1>4
<1>6. PICK g : Repeats(g, m - 1, S, x0, F)
  BY <1>2, <1>5
<1>7. g \in [0..(m - 1) -> S] /\ \A n \in 0..(m - 1) : g[n] = IF n = 0 THEN x0 ELSE F[<<n, g[n - 1]>>]
  BY <1>6 DEF Repeats
<1> DEFINE f == [n \in 0..m |-> IF n = m THEN F[<<m, g[m - 1]>>] ELSE g[n]]
<1>8. f \in [0..m -> S]
  <2>1. g[m - 1] \in S /\ m \in 1..L
    BY <1>3, <1>4, <1>7
  <2>2. F[<<m, g[m - 1]>>] \in S
    BY <2>1
  <2>3. \A n \in 0..m : n = m \/ n \in 0..(m - 1)
    BY <1>3
  <2> QED
    BY <2>2, <2>3, <1>7
<1>9. \A n \in 0..m : f[n] = IF n = 0 THEN x0 ELSE F[<<n, f[n - 1]>>]
  <2> SUFFICES ASSUME NEW n \in 0..m PROVE f[n] = IF n = 0 THEN x0 ELSE F[<<n, f[n - 1]>>]
    OBVIOUS
  <2>1. CASE n = m
    <3>1. m - 1 \in 0..m /\ m - 1 # m
      BY <1>3, <1>4
    <3>2. f[m - 1] = g[m - 1]
      BY <3>1
    <3> QED
      BY <3>2, <2>1, <1>4
  <2>2. CASE n # m
    <3>1. n \in 0..(m - 1) /\ f[n] = g[n]
      BY <2>2, <1>3
    <3>2. n # 0 => n - 1 \in 0..m /\ n - 1 # m /\ f[n - 1] = g[n - 1]
      BY <3>1, <1>3
    <3> QED
      BY <3>1, <3>2, <1>7
  <2> QED
    BY <2>1, <2>2
<1> HIDE DEF f
<1>10. Repeats(f, m, S, x0, F)
  BY <1>8, <1>9 DEF Repeats
<1> QED
  BY <1>10, <1>3

\* What a search reaches, link by link.
ReachedUpTo(f, layer, known, from) ==
  f = [k \in 0..Cardinality(known) |->
         IF k = 0 THEN from ELSE f[k - 1] \cup (Linked(layer, f[k - 1]) \cap known)]
LEMMA ReachedSteps ==
  ASSUME NEW layer, NEW known, IsFiniteSet(known), NEW from
  PROVE  \E f : /\ f[0] = from
                /\ \A k \in 1..Cardinality(known) :
                     f[k] = f[k - 1] \cup (Linked(layer, f[k - 1]) \cap known)
                /\ Reached(layer, known, from) = f[Cardinality(known)]
<1> DEFINE N == Cardinality(known)
           S == SUBSET (from \cup known)
           F == [a \in (1..N) \X S |-> a[2] \cup (Linked(layer, a[2]) \cap known)]
<1>1. N \in Nat
  BY FS_CardinalityType
<1>2. F \in [(1..N) \X S -> S]
  OBVIOUS
<1>3. PICK f : Repeats(f, N, S, from, F)
  <2>1. from \in S
    OBVIOUS
  <2> HIDE DEF N, S, F
  <2> QED
    BY <1>1, <1>2, <2>1, Repeated, Zenon
<1>4. f \in [0..N -> S] /\ \A n \in 0..N : f[n] = IF n = 0 THEN from ELSE F[<<n, f[n - 1]>>]
  BY <1>3 DEF Repeats
<1>5. \A n \in 1..N : n - 1 \in 0..N /\ F[<<n, f[n - 1]>>] = f[n - 1] \cup (Linked(layer, f[n - 1]) \cap known)
  <2> SUFFICES ASSUME NEW n \in 1..N
               PROVE  n - 1 \in 0..N /\ F[<<n, f[n - 1]>>] = f[n - 1] \cup (Linked(layer, f[n - 1]) \cap known)
    OBVIOUS
  <2>1. n - 1 \in 0..N
    BY <1>1
  <2>2. f[n - 1] \in S
    BY <2>1, <1>4
  <2>3. <<n, f[n - 1]>> \in (1..N) \X S
    BY <2>2
  <2> QED
    BY <2>1, <2>3
<1>6. ReachedUpTo(f, layer, known, from)
  <2>1. f = [k \in 0..N |-> f[k]]
    BY <1>4
  <2>2. \A n \in 0..N : n = 0 \/ n \in 1..N
    BY <1>1
  <2>3. \A n \in 0..N : f[n] = IF n = 0 THEN from ELSE f[n - 1] \cup (Linked(layer, f[n - 1]) \cap known)
    <3> HIDE DEF F, N, S
    <3> QED
      BY <1>4, <1>5, <2>2
  <2> HIDE DEF F, S
  <2> QED
    BY <2>1, <2>3 DEF ReachedUpTo
<1>7. PICK g : g = CHOOSE h : ReachedUpTo(h, layer, known, from)
  OBVIOUS
<1>8. ReachedUpTo(g, layer, known, from)
  BY <1>6, <1>7, Zenon
<1>9. Reached(layer, known, from) = g[N]
  BY <1>7 DEF Reached, ReachedUpTo
<1>10. \A k \in 0..N : g[k] = IF k = 0 THEN from ELSE g[k - 1] \cup (Linked(layer, g[k - 1]) \cap known)
  BY <1>8 DEF ReachedUpTo
<1>11. 0 \in 0..N /\ \A k \in 1..N : k \in 0..N /\ k # 0
  BY <1>1
<1>12. g[0] = from /\ \A k \in 1..N : g[k] = g[k - 1] \cup (Linked(layer, g[k - 1]) \cap known)
  <2> HIDE DEF N
  <2> QED
    BY <1>10, <1>11
<1> QED
  BY <1>9, <1>12, Zenon

\* It stays where the links of known nodes stay.
LEMMA ReachedWithin ==
  ASSUME NEW layer, NEW known, IsFiniteSet(known), NEW from,
         NEW C, from \subseteq C, \A x \in C : layer.links[x] \cap known \subseteq C
  PROVE  from \subseteq Reached(layer, known, from) /\ Reached(layer, known, from) \subseteq C
<1> DEFINE N == Cardinality(known)
<1>1. N \in Nat
  BY FS_CardinalityType
<1>2. PICK f : /\ f[0] = from
               /\ \A k \in 1..N : f[k] = f[k - 1] \cup (Linked(layer, f[k - 1]) \cap known)
               /\ Reached(layer, known, from) = f[N]
  BY ReachedSteps
<1> DEFINE Bad == {k \in 0..N : ~(from \subseteq f[k] /\ f[k] \subseteq C)}
<1>3. ASSUME Bad # {} PROVE FALSE
  <2>1. Bad \subseteq Nat
    BY <1>1
  <2>2. PICK m \in Bad : \A y \in Bad : m <= y
    <3> HIDE DEF Bad
    <3> QED
      BY <2>1, <1>3, LeastNatural
  <2>3. m \in 0..N /\ ~(from \subseteq f[m] /\ f[m] \subseteq C)
    BY <2>2
  <2>4. m # 0
    BY <2>3, <1>2
  <2>5. m \in 1..N /\ m - 1 \in 0..N /\ ~(m <= m - 1)
    BY <2>3, <2>4, <1>1
  <2>6. from \subseteq f[m - 1] /\ f[m - 1] \subseteq C
    BY <2>2, <2>5
  <2>7. f[m] = f[m - 1] \cup (Linked(layer, f[m - 1]) \cap known)
    BY <2>5, <1>2
  <2>8. Linked(layer, f[m - 1]) \cap known \subseteq C
    <3> SUFFICES ASSUME NEW y \in known, NEW x \in f[m - 1], y \in layer.links[x] PROVE y \in C
      BY DEF Linked
    <3> QED
      BY <2>6
  <2> QED
    BY <2>3, <2>6, <2>7, <2>8
<1>4. N \in 0..N
  BY <1>1
<1> HIDE DEF N
<1> QED
  BY <1>2, <1>3, <1>4

\* From every node links lead to every other.
Connected(L) ==
  \A S \in SUBSET NodesOf(L) : S # {} /\ (\A x \in S : L.links[x] \subseteq S) => S = NodesOf(L)

\* A search of a layer whose vectors are all known reaches every node.
LEMMA ReachedAll ==
  ASSUME NEW L, LayerOK(L), Connected(L), NEW from, from # {}, from \subseteq NodesOf(L)
  PROVE  Reached(L, NodesOf(L), from) = NodesOf(L)
<1> DEFINE K == NodesOf(L)
           N == Cardinality(K)
<1>0. IsFiniteSet(K) /\ \A x \in K : L.links[x] \subseteq K
  BY DEF LayerOK
<1>1. N \in Nat
  BY <1>0, FS_CardinalityType
<1>2. PICK f : /\ f[0] = from
               /\ \A k \in 1..N : f[k] = f[k - 1] \cup (Linked(L, f[k - 1]) \cap K)
               /\ Reached(L, K, from) = f[N]
  <2> HIDE DEF K
  <2> QED
    BY <1>0, ReachedSteps DEF N
<1> DEFINE P(k) == /\ from \subseteq f[k] /\ f[k] \subseteq K
                   /\ f[k] = K \/ Cardinality(f[k]) >= k + 1
           Bad == {k \in 0..N : ~P(k)}
<1>3. ASSUME Bad # {} PROVE FALSE
  <2>1. Bad \subseteq Nat
    BY <1>1
  <2>2. PICK m \in Bad : \A y \in Bad : m <= y
    <3> HIDE DEF Bad
    <3> QED
      BY <2>1, <1>3, LeastNatural
  <2>3. m \in 0..N /\ ~P(m)
    BY <2>2
  <2>4. m # 0
    <3>1. IsFiniteSet(from) /\ Cardinality(from) \in Nat /\ (Cardinality(from) = 0 <=> from = {})
      BY <1>0, FS_Subset, FS_CardinalityType, FS_EmptySet
    <3>2. Cardinality(from) >= 0 + 1
      BY <3>1
    <3>3. P(0)
      BY <3>2, <1>2
    <3> QED
      BY <3>3, <2>3
  <2>5. m \in 1..N /\ m - 1 \in 0..N /\ ~(m <= m - 1)
    BY <2>3, <2>4, <1>1
  <2>6. P(m - 1)
    BY <2>2, <2>5
  <2>7. f[m] = f[m - 1] \cup (Linked(L, f[m - 1]) \cap K)
    BY <2>5, <1>2
  <2>8. from \subseteq f[m] /\ f[m] \subseteq K /\ f[m - 1] \subseteq f[m] /\ f[m - 1] \subseteq K
    BY <2>6, <2>7
  <2>9. CASE f[m - 1] = K
    BY <2>9, <2>8, <2>3
  <2>10. CASE f[m - 1] # K
    <3>1. PICK x \in f[m - 1] : ~(L.links[x] \subseteq f[m - 1])
      BY <2>8, <2>10, <2>6 DEF Connected
    <3>2. PICK y \in L.links[x] : y \notin f[m - 1]
      BY <3>1
    <3>3. y \in Linked(L, f[m - 1]) /\ y \in K
      BY <3>1, <3>2, <2>8, <1>0 DEF Linked
    <3>4. f[m - 1] # f[m]
      BY <3>2, <3>3, <2>7
    <3>5. IsFiniteSet(f[m]) /\ IsFiniteSet(f[m - 1])
      BY <2>8, <1>0, FS_Subset
    <3>6. /\ Cardinality(f[m - 1]) <= Cardinality(f[m])
          /\ Cardinality(f[m]) = Cardinality(f[m - 1]) => f[m] = f[m - 1]
      BY <3>5, <2>8, FS_Subset
    <3>7. Cardinality(f[m]) \in Nat /\ Cardinality(f[m - 1]) \in Nat
      BY <3>5, FS_CardinalityType
    <3>8. Cardinality(f[m - 1]) >= (m - 1) + 1
      BY <2>6, <2>10
    <3>9. Cardinality(f[m]) >= m + 1
      BY <3>4, <3>6, <3>7, <3>8, <2>3
    <3> QED
      BY <3>9, <2>8, <2>3
  <2> QED
    BY <2>9, <2>10
<1>4. P(N)
  BY <1>3, <1>1
<1>5. f[N] = K
  <2>1. IsFiniteSet(f[N]) /\ Cardinality(f[N]) <= N /\ Cardinality(f[N]) \in Nat
    BY <1>0, <1>4, FS_Subset, FS_CardinalityType
  <2> QED
    BY <2>1, <1>4, <1>1
<1> QED
  BY <1>2, <1>5

\* There is a nearest of some nodes.
LEMMA NearestOne ==
  ASSUME NEW S, S # {}, NEW dist, \A x \in S : dist[x] \in Nat, NEW k \in Nat \ {0}
  PROVE  /\ Nearest(S, dist, k) \subseteq S
         /\ \E x \in Nearest(S, dist, k) : \A y \in S : dist[x] <= dist[y]
<1> DEFINE T == {dist[x] : x \in S}
<1>1. T \subseteq Nat /\ T # {}
  OBVIOUS
<1>2. PICK t \in T : \A y \in T : t <= y
  <2> HIDE DEF T
  <2> QED
    BY <1>1, LeastNatural
<1>3. PICK x \in S : t = dist[x]
  OBVIOUS
<1>4. \A y \in S : dist[x] <= dist[y]
  BY <1>2, <1>3
<1>5. {y \in S : dist[y] < dist[x]} = {}
  <2> SUFFICES ASSUME NEW y \in S, dist[y] < dist[x] PROVE FALSE
    OBVIOUS
  <2>1. dist[x] <= dist[y] /\ dist[x] \in Nat /\ dist[y] \in Nat
    BY <1>4
  <2> QED
    BY <2>1
<1>6. Cardinality({y \in S : dist[y] < dist[x]}) < k
  BY <1>5, FS_EmptySet
<1>7. x \in Nearest(S, dist, k)
  BY <1>6 DEF Nearest
<1> QED
  BY <1>4, <1>7 DEF Nearest

\* Among the two nearest is another than a given one.
LEMMA NearestOther ==
  ASSUME NEW S, NEW n, S \ {n} # {}, NEW dist, \A x \in S : dist[x] \in Nat,
         NEW k \in Nat \ {0}, n \in S => k >= 2
  PROVE  Nearest(S, dist, k) \ {n} # {}
<1>1. PICK x \in Nearest(S \ {n}, dist, 1) : \A y \in S \ {n} : dist[x] <= dist[y]
  <2>1. PICK T : T = S \ {n}
    OBVIOUS
  <2>2. T # {} /\ \A y \in T : dist[y] \in Nat
    BY <2>1
  <2>3. \E x \in Nearest(T, dist, 1) : \A y \in T : dist[x] <= dist[y]
    BY <2>2, NearestOne
  <2> QED
    BY <2>1, <2>3
<1>2. x \in S \ {n}
  BY <1>1 DEF Nearest
<1> DEFINE B == {y \in S : dist[y] < dist[x]}
<1>3. B \subseteq {n}
  <2> SUFFICES ASSUME NEW y \in S, dist[y] < dist[x], y # n PROVE FALSE
    OBVIOUS
  <2>1. dist[x] <= dist[y] /\ dist[x] \in Nat /\ dist[y] \in Nat
    BY <1>1, <1>2
  <2> QED
    BY <2>1
<1>4. Cardinality(B) < k
  <2>1. CASE n \in S
    <3>1. IsFiniteSet({n}) /\ Cardinality({n}) = 1
      BY FS_Singleton
    <3>2. Cardinality(B) <= 1 /\ IsFiniteSet(B)
      <4> HIDE DEF B
      <4> QED
        BY <3>1, <1>3, FS_Subset
    <3>3. Cardinality(B) \in Nat
      BY <3>2, FS_CardinalityType
    <3> QED
      BY <3>2, <3>3, <2>1
  <2>2. CASE n \notin S
    <3>1. B = {}
      BY <2>2, <1>3
    <3> QED
      BY <3>1, FS_EmptySet
  <2> QED
    BY <2>1, <2>2
<1>5. x \in Nearest(S, dist, k)
  BY <1>2, <1>4 DEF Nearest
<1> QED
  BY <1>2, <1>5

\* One of a set.
AnyOf(S) == CHOOSE n \in S : TRUE
LEMMA AnyOfIn == ASSUME NEW S, S # {} PROVE AnyOf(S) \in S
BY DEF AnyOf

\* Where the descent through a layer ends, step by step.
ClimbedUpTo(f, layer, known, dist, from) ==
  f = [k \in 0..Cardinality(known) |->
         IF k = 0 THEN {from} ELSE f[k - 1] \cup Nearer(layer, known, dist, f[k - 1])]
Climbs(f, layer, known, dist, from) ==
  /\ f[0] = {from}
  /\ \A k \in 1..Cardinality(known) : f[k] = f[k - 1] \cup Nearer(layer, known, dist, f[k - 1])
  /\ Climbed(layer, known, dist, from) = AnyOf(Nearest(f[Cardinality(known)], dist, 1))
LEMMA ClimbedSteps ==
  ASSUME NEW layer, NEW known, IsFiniteSet(known), NEW dist, NEW from
  PROVE  \E f : Climbs(f, layer, known, dist, from)
<1> DEFINE N == Cardinality(known)
           S == SUBSET ({from} \cup known)
           F == [a \in (1..N) \X S |-> a[2] \cup Nearer(layer, known, dist, a[2])]
<1>0. \A seen : Nearer(layer, known, dist, seen) \subseteq known
  BY DEF Nearer, Nearest
<1>1. N \in Nat
  BY FS_CardinalityType
<1>2. F \in [(1..N) \X S -> S]
  BY <1>0
<1>3. PICK f : Repeats(f, N, S, {from}, F)
  <2>1. {from} \in S
    OBVIOUS
  <2> HIDE DEF N, S, F
  <2> QED
    BY <1>1, <1>2, <2>1, Repeated, Zenon
<1>4. f \in [0..N -> S] /\ \A n \in 0..N : f[n] = IF n = 0 THEN {from} ELSE F[<<n, f[n - 1]>>]
  BY <1>3 DEF Repeats
<1>5. \A n \in 1..N : n - 1 \in 0..N /\ F[<<n, f[n - 1]>>] = f[n - 1] \cup Nearer(layer, known, dist, f[n - 1])
  <2> SUFFICES ASSUME NEW n \in 1..N
               PROVE  n - 1 \in 0..N /\ F[<<n, f[n - 1]>>] = f[n - 1] \cup Nearer(layer, known, dist, f[n - 1])
    OBVIOUS
  <2>1. n - 1 \in 0..N
    BY <1>1
  <2>2. f[n - 1] \in S
    BY <2>1, <1>4
  <2>3. <<n, f[n - 1]>> \in (1..N) \X S
    BY <2>2
  <2> QED
    BY <2>1, <2>3
<1>6. ClimbedUpTo(f, layer, known, dist, from)
  <2>1. f = [k \in 0..N |-> f[k]]
    BY <1>4
  <2>2. \A n \in 0..N : n = 0 \/ n \in 1..N
    BY <1>1
  <2>3. \A n \in 0..N : f[n] = IF n = 0 THEN {from} ELSE f[n - 1] \cup Nearer(layer, known, dist, f[n - 1])
    <3> HIDE DEF F, N, S
    <3> QED
      BY <1>4, <1>5, <2>2
  <2> HIDE DEF F, S
  <2> QED
    BY <2>1, <2>3 DEF ClimbedUpTo
<1>7. PICK g : g = CHOOSE h : ClimbedUpTo(h, layer, known, dist, from)
  OBVIOUS
<1>8. ClimbedUpTo(g, layer, known, dist, from)
  BY <1>6, <1>7, Zenon
<1>9. Climbed(layer, known, dist, from) = AnyOf(Nearest(g[N], dist, 1))
  BY <1>7 DEF Climbed, ClimbedUpTo, AnyOf
<1>10. \A k \in 0..N : g[k] = IF k = 0 THEN {from} ELSE g[k - 1] \cup Nearer(layer, known, dist, g[k - 1])
  BY <1>8 DEF ClimbedUpTo
<1>11. 0 \in 0..N /\ \A k \in 1..N : k \in 0..N /\ k # 0
  BY <1>1
<1>12. g[0] = {from} /\ \A k \in 1..N : g[k] = g[k - 1] \cup Nearer(layer, known, dist, g[k - 1])
  <2> HIDE DEF N
  <2> QED
    BY <1>10, <1>11
<1>13. Climbs(g, layer, known, dist, from)
  BY <1>9, <1>12 DEF Climbs
<1> QED
  BY <1>13

\* It stays where the links of known nodes stay.
LEMMA ClimbedWithin ==
  ASSUME NEW layer, NEW known, IsFiniteSet(known), NEW dist, NEW from,
         NEW C, from \in C, \A x \in C : layer.links[x] \cap known \subseteq C,
         \A x \in C : dist[x] \in Nat
  PROVE  Climbed(layer, known, dist, from) \in C
<1> DEFINE N == Cardinality(known)
<1>1. N \in Nat
  BY FS_CardinalityType
<1>2. PICK f : /\ f[0] = {from}
               /\ \A k \in 1..N : f[k] = f[k - 1] \cup Nearer(layer, known, dist, f[k - 1])
               /\ Climbed(layer, known, dist, from) = AnyOf(Nearest(f[N], dist, 1))
  <2>1. PICK f : Climbs(f, layer, known, dist, from)
    BY ClimbedSteps
  <2> QED
    BY <2>1 DEF Climbs
<1> DEFINE Bad == {k \in 0..N : ~(from \in f[k] /\ f[k] \subseteq C)}
<1>3. ASSUME Bad # {} PROVE FALSE
  <2>1. Bad \subseteq Nat
    BY <1>1
  <2>2. PICK m \in Bad : \A y \in Bad : m <= y
    <3> HIDE DEF Bad
    <3> QED
      BY <2>1, <1>3, LeastNatural
  <2>3. m \in 0..N /\ ~(from \in f[m] /\ f[m] \subseteq C)
    BY <2>2
  <2>4. m # 0
    BY <2>3, <1>2
  <2>5. m \in 1..N /\ m - 1 \in 0..N /\ ~(m <= m - 1)
    BY <2>3, <2>4, <1>1
  <2>6. from \in f[m - 1] /\ f[m - 1] \subseteq C
    BY <2>2, <2>5
  <2>7. f[m] = f[m - 1] \cup Nearer(layer, known, dist, f[m - 1])
    BY <2>5, <1>2
  <2>8. Nearer(layer, known, dist, f[m - 1]) \subseteq C
    <3>1. Nearer(layer, known, dist, f[m - 1]) \subseteq Linked(layer, f[m - 1]) \cap known
      BY DEF Nearer, Nearest
    <3> SUFFICES ASSUME NEW y \in known, NEW x \in f[m - 1], y \in layer.links[x] PROVE y \in C
      BY <3>1 DEF Linked
    <3> QED
      BY <2>6
  <2> QED
    BY <2>3, <2>6, <2>7, <2>8
<1>4. from \in f[N] /\ f[N] \subseteq C
  BY <1>3, <1>1
<1> HIDE DEF N
<1>5. Nearest(f[N], dist, 1) \subseteq f[N] /\ \E x \in Nearest(f[N], dist, 1) : TRUE
  <2>1. f[N] # {} /\ \A x \in f[N] : dist[x] \in Nat
    BY <1>4
  <2> QED
    BY <2>1, NearestOne
<1>6. AnyOf(Nearest(f[N], dist, 1)) \in Nearest(f[N], dist, 1)
  BY <1>5, AnyOfIn
<1> QED
  BY <1>2, <1>4, <1>5, <1>6, Zenon

-----------------------------------------------------------------------------
(* The vector index: a node joins a layer *)

Indexes ==
  [multi : BOOLEAN, ml : 1..16, layers : [Levels -> Layers], eps : Seq(Nat), count : Nat,
   cache : VectorMaps, maps : [Levels -> Seq(Nat)]]

\* The index in memory: its layers, and the levels it has.
IndexOK(i) ==
  /\ i \in Indexes
  /\ \A l \in Levels : LayerOK(i.layers[l])
  /\ i.multi => LevelsOf(i) \subseteq Levels

\* A node has one id, or none.
LEMMA GlobalOne ==
  ASSUME NEW i, NEW level, NEW n
  PROVE  \A g, h \in GlobalIds(i, level, n) : g = h
<1>1. CASE i.multi
  <2>1. \A g \in GlobalIds(i, level, n) : g = i.maps[level][n + 1]
    BY <1>1 DEF GlobalIds
  <2> QED
    BY <2>1
<1>2. CASE ~i.multi
  BY <1>2 DEF GlobalIds
<1> QED
  BY <1>1, <1>2

LEMMA DistanceNat ==
  ASSUME NEW i, NEW vectors \in VectorMaps, NEW level, NEW nodes,
         NEW n \in Known(i, vectors, level, nodes), NEW q \in Nat
  PROVE  Distance(i, vectors, level, n, q) \in Nat
<1>1. PICK g \in GlobalIds(i, level, n) : g \in DOMAIN vectors
  BY DEF Known
<1>2. AnyOf(GlobalIds(i, level, n)) \in GlobalIds(i, level, n)
  BY <1>1, AnyOfIn
<1>3. AnyOf(GlobalIds(i, level, n)) = g
  BY <1>1, <1>2, GlobalOne, Zenon
<1>4. vectors[g] \in Nat
  BY <1>1, VectorMapFacts
<1>5. Distance(i, vectors, level, n, q) = IF vectors[g] < q THEN q - vectors[g] ELSE vectors[g] - q
  BY <1>3 DEF Distance, AnyOf
<1> QED
  BY <1>4, <1>5

\* Layer M is layer L with node n in it.
Grown(L, M, n) ==
  /\ LayerOK(M)
  /\ n \notin NodesOf(L) /\ NodesOf(M) = NodesOf(L) \cup {n}
  /\ L.dirty \cup {n} \subseteq M.dirty
  /\ \A x \in NodesOf(L) : x \notin M.dirty => M.links[x] = L.links[x]
  /\ L.eps \subseteq M.eps /\ M.eps \subseteq L.eps \cup {n} /\ (L.eps = {} => n \in M.eps)

\* The parts of an insertion: the layer with the new node in it, the index with
\* that layer, where the search begins, and what the node is linked to.
LayerWith(i, level, n) == AddNode(i.layers[level], n, level)
IndexWith(i, level, layer) == [i EXCEPT !.layers[level] = layer]
KnownWith(i, level, n) == Known(i, i.cache, level, NodesOf(LayerWith(i, level, n)))
Entries(i, level, n) == EntryNodes(IndexWith(i, level, LayerWith(i, level, n)), level) \cap NodesOf(LayerWith(i, level, n))
Distances(i, id, level, known) == [x \in known |-> Distance(i, i.cache, level, x, i.cache[id])]
Near(i, id, level, n) ==
  Nearest(Reached(LayerWith(i, level, n), KnownWith(i, level, n), Entries(i, level, n)),
          Distances(i, id, level, KnownWith(i, level, n)), Width(level)) \ {n}

\* The result of an insertion, case by case.
InsertResult(i, id, level, n, r) ==
  /\ n \in NodesOf(i.layers[level]) => r.index = i /\ r.ok = FALSE
  /\ n \notin NodesOf(i.layers[level]) /\ level = 0 /\ NodesOf(LayerWith(i, level, n)) = {n} =>
       r.index = IndexWith(i, level, LayerWith(i, level, n)) /\ r.ok = TRUE
  /\ n \notin NodesOf(i.layers[level]) /\ ~(level = 0 /\ NodesOf(LayerWith(i, level, n)) = {n}) =>
       /\ ~(Entries(i, level, n) \subseteq KnownWith(i, level, n)) =>
            r.index = IndexWith(i, level, LayerWith(i, level, n)) /\ r.ok = FALSE
       /\ Entries(i, level, n) \subseteq KnownWith(i, level, n) =>
            /\ r.index = IndexWith(i, level, Connect(LayerWith(i, level, n), n, Near(i, id, level, n), level))
            /\ r.ok = TRUE

LEMMA InsertCases ==
  ASSUME NEW i, NEW level, NEW id, NEW n, LocalIds(i, id, level) = {n}
  PROVE  InsertResult(i, id, level, n, InsertIntoLayer(i, id, level))
<1>1. AnyOf(LocalIds(i, id, level)) = n
  <2>1. AnyOf(LocalIds(i, id, level)) \in LocalIds(i, id, level)
    BY AnyOfIn
  <2> QED
    BY <2>1
<1>2. InsertIntoLayer(i, id, level) = InsertNode(i, id, AnyOf(LocalIds(i, id, level)), level)
  BY DEF InsertIntoLayer, AnyOf
<1>3. InsertIntoLayer(i, id, level) = InsertNode(i, id, n, level)
  BY <1>1, <1>2
<1>4. PICK r : r = InsertIntoLayer(i, id, level)
  OBVIOUS
<1>5. r = IF n \in NodesOf(i.layers[level]) THEN Refused(i)
           ELSE IF level = 0 /\ NodesOf(LayerWith(i, level, n)) = {n}
                  THEN Done(IndexWith(i, level, LayerWith(i, level, n)))
           ELSE IF ~(Entries(i, level, n) \subseteq KnownWith(i, level, n))
                  THEN Refused(IndexWith(i, level, LayerWith(i, level, n)))
           ELSE Done(IndexWith(i, level, Connect(LayerWith(i, level, n), n, Near(i, id, level, n), level)))
  BY <1>3, <1>4 DEF InsertNode, LayerWith, IndexWith, KnownWith, Entries, Distances, Near
<1>6. \A j : /\ Refused(j).index = j /\ Refused(j).ok = FALSE
            /\ Done(j).index = j /\ Done(j).ok = TRUE
  BY DEF Refused, Done
<1>7. InsertResult(i, id, level, n, r)
  BY <1>5, <1>6 DEF InsertResult
<1> QED
  BY <1>4, <1>7

\* Two indexes that differ in their layers only.
SameBesides(i, j) ==
  /\ j.multi = i.multi /\ j.ml = i.ml /\ j.eps = i.eps /\ j.count = i.count
  /\ j.cache = i.cache /\ j.maps = i.maps

LEMMA IndexWithOK ==
  ASSUME NEW i, IndexOK(i), NEW level \in Levels, NEW M, LayerOK(M)
  PROVE  /\ IndexOK(IndexWith(i, level, M)) /\ SameBesides(i, IndexWith(i, level, M))
         /\ IndexWith(i, level, M).layers[level] = M
         /\ \A l \in Levels : l # level => IndexWith(i, level, M).layers[l] = i.layers[l]
<1> DEFINE j == IndexWith(i, level, M)
<1>1. i \in Indexes /\ M \in Layers /\ i.layers \in [Levels -> Layers]
  BY DEF IndexOK, Indexes, LayerOK
<1>2. j = [i EXCEPT !.layers = [i.layers EXCEPT ![level] = M]]
  BY <1>1 DEF IndexWith, Indexes
<1>3. j.layers = [i.layers EXCEPT ![level] = M]
  BY <1>1, <1>2 DEF Indexes
<1>4. /\ SameBesides(i, j)
  BY <1>1, <1>2 DEF Indexes, SameBesides
<1>5. j.layers \in [Levels -> Layers] /\ j.layers[level] = M
      /\ \A l \in Levels : l # level => j.layers[l] = i.layers[l]
  BY <1>1, <1>3
<1>6. j \in Indexes
  <2>1. i = [multi |-> i.multi, ml |-> i.ml, layers |-> i.layers, eps |-> i.eps, count |-> i.count,
             cache |-> i.cache, maps |-> i.maps]
    BY <1>1 DEF Indexes
  <2>2. j = [multi |-> i.multi, ml |-> i.ml, layers |-> j.layers, eps |-> i.eps, count |-> i.count,
             cache |-> i.cache, maps |-> i.maps]
    <3> HIDE DEF j
    <3> QED
      BY <2>1, <1>2, <1>3
  <2> HIDE DEF j
  <2> QED
    BY <2>2, <1>1, <1>5 DEF Indexes
<1>7. \A l \in Levels : LayerOK(j.layers[l])
  BY <1>5 DEF IndexOK
<1>8. j.multi => LevelsOf(j) \subseteq Levels
  BY <1>4 DEF IndexOK, SameBesides, LevelsOf
<1> HIDE DEF j
<1>9. IndexOK(j)
  BY <1>6, <1>7, <1>8 DEF IndexOK
<1> QED
  BY <1>4, <1>5, <1>9 DEF j

\* What the search of an insertion works with.
LEMMA SearchParts ==
  ASSUME NEW i, IndexOK(i), NEW level \in Levels, NEW n \in Nat, n \notin NodesOf(i.layers[level]),
         NEW J, J = LayerWith(i, level, n)
  PROVE  /\ LayerOK(J) /\ NodesOf(J) = NodesOf(i.layers[level]) \cup {n}
         /\ Entries(i, level, n) \subseteq NodesOf(J)
         /\ KnownWith(i, level, n) \subseteq NodesOf(J)
         /\ IsFiniteSet(KnownWith(i, level, n))
<1>1. LayerOK(i.layers[level])
  BY DEF IndexOK
<1>2. LayerOK(J) /\ NodesOf(J) = NodesOf(i.layers[level]) \cup {n}
  BY <1>1, AddNodeOK DEF LayerWith
<1>3. Entries(i, level, n) \subseteq NodesOf(J) /\ KnownWith(i, level, n) \subseteq NodesOf(J)
  BY DEF Entries, KnownWith, Known
<1>4. IsFiniteSet(NodesOf(J))
  BY <1>2 DEF LayerOK
<1> QED
  BY <1>2, <1>3, <1>4, FS_Subset

LEMMA NearWithin ==
  ASSUME NEW i, IndexOK(i), NEW level \in Levels, NEW n \in Nat, n \notin NodesOf(i.layers[level]), NEW id,
         NEW C, Entries(i, level, n) \subseteq C,
         \A x \in C : LayerWith(i, level, n).links[x] \cap KnownWith(i, level, n) \subseteq C
  PROVE  Near(i, id, level, n) \subseteq C \ {n}
<1>1. IsFiniteSet(KnownWith(i, level, n))
  BY SearchParts
<1>2. PICK J : J = LayerWith(i, level, n)
  OBVIOUS
<1>3. PICK K : K = KnownWith(i, level, n)
  OBVIOUS
<1>4. Reached(J, K, Entries(i, level, n)) \subseteq C
  BY <1>1, <1>2, <1>3, ReachedWithin
<1> QED
  BY <1>2, <1>3, <1>4 DEF Near, Nearest

\* An insertion changes one layer: the node is in it, or nothing changed.
InsertedAs(i, r, level, n, M) ==
  /\ r.index = IndexWith(i, level, M) /\ r.ok \in BOOLEAN
  /\ \/ M = i.layers[level] /\ ~r.ok /\ n \in NodesOf(M)
     \/ Grown(i.layers[level], M, n)
  /\ r.index.layers[level] = M
LEMMA InsertEffect ==
  ASSUME NEW i, IndexOK(i), NEW level \in Levels, NEW id, NEW n \in Nat, LocalIds(i, id, level) = {n},
         NEW r, r = InsertIntoLayer(i, id, level)
  PROVE  \E M : InsertedAs(i, r, level, n, M)
<1> DEFINE L == i.layers[level]
           J == LayerWith(i, level, n)
           N == Connect(J, n, Near(i, id, level, n), level)
<1>0. InsertResult(i, id, level, n, r)
  BY InsertCases
<1>1. CASE n \in NodesOf(L)
  <2>1. r.index = i /\ r.ok = FALSE
    BY <1>1, <1>0 DEF InsertResult
  <2>2. IndexWith(i, level, L) = i
    BY DEF IndexWith, IndexOK, Indexes
  <2> QED
    BY <2>1, <2>2, <1>1 DEF InsertedAs
<1>2. CASE n \notin NodesOf(L)
  <2>0. LayerOK(L)
    BY DEF IndexOK
  <2>1. Grown(L, J, n) /\ LayerOK(J)
    BY <1>2, <2>0, AddNodeOK DEF Grown, LayerWith
  <2>2. Near(i, id, level, n) \subseteq NodesOf(J) \ {n}
    <3>1. \A x \in NodesOf(J) : J.links[x] \cap KnownWith(i, level, n) \subseteq NodesOf(J)
      BY <1>2, SearchParts
    <3>2. Entries(i, level, n) \subseteq NodesOf(J)
      BY <1>2, SearchParts
    <3> QED
      BY <3>1, <3>2, <1>2, NearWithin
  <2>3. n \in NodesOf(J)
    BY <2>1 DEF Grown
  <2>4. /\ LayerOK(N) /\ NodesOf(N) = NodesOf(J) /\ N.eps = J.eps
        /\ N.dirty = J.dirty \cup {n} \cup Near(i, id, level, n)
        /\ \A x \in NodesOf(J) \ (Near(i, id, level, n) \cup {n}) : N.links[x] = J.links[x]
    <3> HIDE DEF J
    <3> QED
      BY <2>1, <2>2, <2>3, ConnectOK
  <2>5. Grown(L, N, n)
    <3>1. /\ n \notin NodesOf(L) /\ NodesOf(J) = NodesOf(L) \cup {n}
          /\ L.dirty \cup {n} \subseteq J.dirty
          /\ \A x \in NodesOf(L) : x \notin J.dirty => J.links[x] = L.links[x]
          /\ L.eps \subseteq J.eps /\ J.eps \subseteq L.eps \cup {n} /\ (L.eps = {} => n \in J.eps)
      BY <2>1 DEF Grown
    <3>2. \A x \in NodesOf(L) : x \notin N.dirty => N.links[x] = L.links[x]
      <4> SUFFICES ASSUME NEW x \in NodesOf(L), x \notin N.dirty PROVE N.links[x] = L.links[x]
        OBVIOUS
      <4>1. x \in NodesOf(J) \ (Near(i, id, level, n) \cup {n}) /\ x \notin J.dirty
        BY <3>1, <2>4
      <4> QED
        BY <4>1, <3>1, <2>4
    <3> HIDE DEF N, J, L
    <3> QED
      BY <3>1, <3>2, <2>4 DEF Grown
  <2>6. /\ r.index = IndexWith(i, level, J) \/ r.index = IndexWith(i, level, N)
        /\ r.ok \in BOOLEAN
    BY <1>2, <1>0 DEF InsertResult
  <2>7. \A M : LayerOK(M) => IndexWith(i, level, M).layers[level] = M
    BY IndexWithOK
  <2> HIDE DEF J, N, L
  <2>8. CASE r.index = IndexWith(i, level, N)
    <3>1. r.index = IndexWith(i, level, N) /\ r.ok \in BOOLEAN
      BY <2>8, <2>6
    <3>2. r.index.layers[level] = N
      BY <3>1, <2>4, <2>7
    <3>3. InsertedAs(i, r, level, n, N)
      BY <3>1, <3>2, <2>5 DEF InsertedAs, L
    <3> QED
      BY <3>3
  <2>9. CASE r.index = IndexWith(i, level, J)
    <3>1. r.index = IndexWith(i, level, J) /\ r.ok \in BOOLEAN
      BY <2>9, <2>6
    <3>2. r.index.layers[level] = J
      BY <3>1, <2>1, <2>7
    <3>3. InsertedAs(i, r, level, n, J)
      BY <3>1, <3>2, <2>1 DEF InsertedAs, L
    <3> QED
      BY <3>3
  <2> QED
    BY <2>6, <2>8, <2>9
<1> QED
  BY <1>1, <1>2

\* An insertion among nodes whose vectors are all cached does not fail.
LEMMA InsertOk ==
  ASSUME NEW i, IndexOK(i), NEW level \in Levels, NEW id, NEW n \in Nat, LocalIds(i, id, level) = {n},
         n \notin NodesOf(i.layers[level]),
         \A x \in NodesOf(i.layers[level]) \cup {n} : GlobalIds(i, level, x) \cap DOMAIN i.cache # {}
  PROVE  InsertIntoLayer(i, id, level).ok = TRUE
<1>1. NodesOf(LayerWith(i, level, n)) = NodesOf(i.layers[level]) \cup {n}
  BY SearchParts
<1>2. KnownWith(i, level, n) = NodesOf(LayerWith(i, level, n))
  BY <1>1 DEF KnownWith, Known
<1>3. Entries(i, level, n) \subseteq KnownWith(i, level, n)
  BY <1>2, SearchParts
<1> QED
  BY <1>3, InsertCases DEF InsertResult

\* An insertion that would start from a node whose vector is not cached fails.
LEMMA InsertRefused ==
  ASSUME NEW i, IndexOK(i), NEW id, NEW n \in Nat, LocalIds(i, id, 0) = {n},
         NodesOf(i.layers[0]) # {}, NEW e \in Entries(i, 0, n), e \notin KnownWith(i, 0, n)
  PROVE  InsertIntoLayer(i, id, 0).ok = FALSE
<1>1. CASE n \in NodesOf(i.layers[0])
  BY <1>1, InsertCases DEF InsertResult
<1>2. CASE n \notin NodesOf(i.layers[0])
  <2>1. NodesOf(LayerWith(i, 0, n)) = NodesOf(i.layers[0]) \cup {n}
    BY <1>2, SearchParts, LevelFacts
  <2>2. NodesOf(LayerWith(i, 0, n)) # {n}
    BY <2>1, <1>2
  <2> QED
    BY <1>2, <2>2, InsertCases DEF InsertResult
<1> QED
  BY <1>1, <1>2

\* No search enters a layer at node g, and no link leads to it.
Off(L, g) == g \notin L.eps /\ \A x \in NodesOf(L) : g \notin L.links[x]

\* An insertion links to nothing that a search does not reach.
LEMMA InsertOff ==
  ASSUME NEW i, IndexOK(i), NEW id, NEW n \in Nat, LocalIds(i, id, 0) = {n},
         NEW g, g # n, Off(i.layers[0], g), g \notin ToLocal(i, Range(i.eps), 0),
         NEW M, M = InsertIntoLayer(i, id, 0).index.layers[0]
  PROVE  Off(M, g)
<1> DEFINE L == i.layers[0]
           J == LayerWith(i, 0, n)
           r == InsertIntoLayer(i, id, 0)
           N == Connect(J, n, Near(i, id, 0, n), 0)
<1>0. 0 \in Levels
  BY LevelFacts
<1>1. CASE n \in NodesOf(L)
  <2>1. r.index = i
    BY <1>1, InsertCases DEF InsertResult
  <2> QED
    BY <2>1
<1>2. CASE n \notin NodesOf(L)
  <2>1. LayerOK(L)
    BY <1>0 DEF IndexOK
  <2>2. /\ LayerOK(J) /\ NodesOf(J) = NodesOf(L) \cup {n}
        /\ J.links[n] = {} /\ \A x \in NodesOf(L) : J.links[x] = L.links[x]
        /\ J.eps \subseteq L.eps \cup {n}
    BY <1>2, <2>1, AddNodeOK DEF LayerWith
  <2>3. Off(J, g)
    BY <2>2 DEF Off
  <2>4. g \notin Entries(i, 0, n)
    <3>1. PICK j : j = IndexWith(i, 0, J)
      OBVIOUS
    <3>2. SameBesides(i, j) /\ j.layers[0] = J
      BY <3>1, <2>2, <1>0, IndexWithOK
    <3>3. ToLocal(j, Range(j.eps), 0) = ToLocal(i, Range(i.eps), 0)
      BY <3>2 DEF ToLocal, LocalIds, SameBesides
    <3>4. g \notin EntryNodes(j, 0)
      BY <3>2, <3>3, <2>3 DEF EntryNodes, Off
    <3> QED
      BY <3>1, <3>4 DEF Entries
  <2>5. Near(i, id, 0, n) \subseteq (NodesOf(J) \ {g}) \ {n}
    <3>1. Entries(i, 0, n) \subseteq NodesOf(J) \ {g} /\ KnownWith(i, 0, n) \subseteq NodesOf(J)
      BY <2>4, <1>0, <1>2, SearchParts
    <3>2. \A x \in NodesOf(J) \ {g} : J.links[x] \cap KnownWith(i, 0, n) \subseteq NodesOf(J) \ {g}
      BY <2>3, <3>1 DEF Off
    <3> QED
      <4>1. PICK C : C = NodesOf(J) \ {g}
        OBVIOUS
      <4>2. Near(i, id, 0, n) \subseteq C \ {n}
        BY <4>1, <3>1, <3>2, <1>0, <1>2, NearWithin
      <4> QED
        BY <4>1, <4>2
  <2>6. /\ NodesOf(N) = NodesOf(J) /\ N.eps = J.eps /\ N.links[n] = Near(i, id, 0, n)
        /\ \A x \in Near(i, id, 0, n) : N.links[x] \subseteq J.links[x] \cup {n}
        /\ \A x \in NodesOf(J) \ (Near(i, id, 0, n) \cup {n}) : N.links[x] = J.links[x]
    <3>1. n \in NodesOf(J) /\ Near(i, id, 0, n) \subseteq NodesOf(J) \ {n}
      BY <2>2, <2>5
    <3> HIDE DEF J
    <3> QED
      BY <2>2, <3>1, ConnectOK
  <2>7. Off(N, g)
    <3>1. \A x \in NodesOf(J) : x = n \/ x \in Near(i, id, 0, n) \/ x \in NodesOf(J) \ (Near(i, id, 0, n) \cup {n})
      OBVIOUS
    <3>2. \A x \in Near(i, id, 0, n) : x \in NodesOf(J) /\ x # g
      BY <2>5
    <3>3. g \notin N.links[n]
      BY <2>6, <3>2
    <3> HIDE DEF N, J
    <3> QED
      BY <2>3, <2>6, <3>1, <3>2, <3>3 DEF Off
  <2>8. /\ IndexWith(i, 0, J).layers[0] = J
        /\ LayerOK(N) => IndexWith(i, 0, N).layers[0] = N
    BY <2>2, <1>0, IndexWithOK
  <2>9. LayerOK(N)
    <3>1. n \in NodesOf(J) /\ Near(i, id, 0, n) \subseteq NodesOf(J) \ {n}
      BY <2>2, <2>5
    <3> HIDE DEF J
    <3> QED
      BY <2>2, <3>1, ConnectOK
  <2>10. r.index = IndexWith(i, 0, J) \/ r.index = IndexWith(i, 0, N)
    <3>1. InsertResult(i, id, 0, n, r)
      BY InsertCases
    <3> HIDE DEF r
    <3> QED
      BY <3>1, <1>2 DEF InsertResult
  <2> HIDE DEF J, N, r
  <2> QED
    BY <2>3, <2>7, <2>8, <2>9, <2>10 DEF r
<1> QED
  BY <1>1, <1>2

\* The new node is not reached through links: there are none to it yet.  If it
\* is an entry, the layer is at least two wide.
LEMMA NearOther ==
  ASSUME NEW i, IndexOK(i), NEW id, i.cache[id] \in Nat, NEW n \in Nat, n \notin NodesOf(i.layers[0]),
         Entries(i, 0, n) \subseteq KnownWith(i, 0, n),
         Entries(i, 0, n) \ {n} # {},
         n \in Entries(i, 0, n) => Width(0) >= 2
  PROVE  Near(i, id, 0, n) # {}
<1> DEFINE J == LayerWith(i, 0, n)
           L == i.layers[0]
           K == KnownWith(i, 0, n)
           E == Entries(i, 0, n)
           S == Reached(J, K, E)
           dist == Distances(i, id, 0, K)
<1>0. 0 \in Levels
  BY LevelFacts
<1>1. LayerOK(L)
  BY <1>0 DEF IndexOK
<1>2. /\ LayerOK(J) /\ NodesOf(J) = NodesOf(L) \cup {n}
      /\ J.links[n] = {} /\ \A x \in NodesOf(L) : J.links[x] = L.links[x]
  BY <1>1, AddNodeOK DEF LayerWith
<1>3. E \subseteq NodesOf(J) /\ K \subseteq NodesOf(J) /\ IsFiniteSet(K)
  BY <1>0, SearchParts
<1>4. \A x \in NodesOf(J) : J.links[x] \subseteq NodesOf(L)
  BY <1>1, <1>2 DEF LayerOK
<1>5. E \subseteq S /\ S \subseteq K /\ (n \in S => n \in E)
  <2>1. PICK C : C = IF n \in E THEN K ELSE K \ {n}
    OBVIOUS
  <2>2. E \subseteq C /\ \A x \in C : J.links[x] \cap K \subseteq C
    <3> HIDE DEF J, L, K, E
    <3>1. E \subseteq K /\ n \notin NodesOf(L)
      BY DEF E, K, L
    <3>2. CASE n \in E
      <4>1. C = K
        BY <3>2, <2>1
      <4> QED
        BY <4>1, <3>1
    <3>3. CASE n \notin E
      <4>1. C = K \ {n}
        BY <3>3, <2>1
      <4>2. \A x \in C : x \in NodesOf(J) /\ n \notin J.links[x]
        BY <4>1, <3>1, <1>3, <1>4
      <4> QED
        BY <4>1, <4>2, <3>1, <3>3
    <3> QED
      BY <3>2, <3>3
  <2>3. E \subseteq Reached(J, K, E) /\ Reached(J, K, E) \subseteq C
    <3> HIDE DEF J, L, K, E
    <3> QED
      BY <2>2, <1>3, ReachedWithin
  <2> QED
    BY <2>1, <2>3
<1>6. \A x \in K : dist[x] \in Nat
  <2>1. i.cache \in VectorMaps
    BY DEF IndexOK, Indexes
  <2>2. \A x \in K : Distance(i, i.cache, 0, x, i.cache[id]) \in Nat
    BY <2>1, DistanceNat DEF KnownWith
  <2>3. dist = [x \in K |-> Distance(i, i.cache, 0, x, i.cache[id])]
    BY DEF Distances
  <2> HIDE DEF dist, K
  <2> QED
    BY <2>2, <2>3
<1>7. Width(0) \in Nat \ {0}
  BY WidthFact
<1>8. Near(i, id, 0, n) = Nearest(S, dist, Width(0)) \ {n}
  BY DEF Near
<1>9. S \ {n} # {} /\ (n \in S => Width(0) >= 2) /\ \A x \in S : dist[x] \in Nat
  <2> HIDE DEF S, K, dist, J
  <2> QED
    BY <1>5, <1>6 DEF E
<1> HIDE DEF S, K, E, J, L, dist
<1> QED
  BY <1>7, <1>8, <1>9, NearestOther

\* A node that joins the base layer keeps it connected, if no link goes.
LEMMA InsertConnected ==
  ASSUME NEW i, IndexOK(i), NEW id, i.cache[id] \in Nat, NEW n \in Nat, LocalIds(i, id, 0) = {n},
         Connected(i.layers[0]),
         NEW r, r = InsertIntoLayer(i, id, 0), r.ok = TRUE,
         \A x \in NodesOf(i.layers[0]) : i.layers[0].links[x] \subseteq r.index.layers[0].links[x],
         NodesOf(i.layers[0]) # {} =>
           Entries(i, 0, n) \ {n} # {} /\ (n \in Entries(i, 0, n) => Width(0) >= 2)
  PROVE  Connected(r.index.layers[0])
<1> DEFINE L == i.layers[0]
           J == LayerWith(i, 0, n)
           N == Connect(J, n, Near(i, id, 0, n), 0)
           M == r.index.layers[0]
<1>0. 0 \in Levels /\ InsertResult(i, id, 0, n, r)
  BY LevelFacts, InsertCases
<1>1. n \notin NodesOf(L) /\ LayerOK(L)
  BY <1>0 DEF InsertResult, IndexOK
<1>2. /\ LayerOK(J) /\ NodesOf(J) = NodesOf(L) \cup {n}
      /\ J.links[n] = {} /\ \A x \in NodesOf(L) : J.links[x] = L.links[x]
  BY <1>1, AddNodeOK DEF LayerWith
<1>3. CASE NodesOf(L) = {}
  <2>1. M = J
    <3>1. r.index = IndexWith(i, 0, J)
      BY <1>0, <1>1, <1>2, <1>3 DEF InsertResult
    <3> HIDE DEF J
    <3> QED
      BY <3>1, <1>0, <1>2, IndexWithOK
  <2>2. NodesOf(M) = {n}
    BY <2>1, <1>2, <1>3
  <2>3. \A S \in SUBSET NodesOf(M) : S # {} => S = NodesOf(M)
    <3> HIDE DEF M
    <3> QED
      BY <2>2
  <2> QED
    BY <2>3 DEF Connected
<1>4. CASE NodesOf(L) # {}
  <2>1. Entries(i, 0, n) \subseteq KnownWith(i, 0, n) /\ r.index = IndexWith(i, 0, N)
    <3>1. NodesOf(J) # {n}
      BY <1>1, <1>2, <1>4
    <3> QED
      BY <3>1, <1>0, <1>1 DEF InsertResult
  <2>2. Near(i, id, 0, n) # {}
    BY <2>1, <1>1, <1>4, NearOther
  <2>3. Near(i, id, 0, n) \subseteq NodesOf(J) \ {n}
    <3>1. /\ Entries(i, 0, n) \subseteq NodesOf(J)
          /\ \A x \in NodesOf(J) : J.links[x] \cap KnownWith(i, 0, n) \subseteq NodesOf(J)
      BY <1>0, <1>1, SearchParts
    <3> QED
      BY <3>1, <1>0, <1>1, NearWithin
  <2>4. /\ LayerOK(N) /\ NodesOf(N) = NodesOf(J) /\ N.links[n] = Near(i, id, 0, n)
        /\ \A x \in Near(i, id, 0, n) : n \in N.links[x]
    <3>1. n \in NodesOf(J)
      BY <1>2
    <3> HIDE DEF J
    <3> QED
      BY <1>2, <2>3, <3>1, ConnectOK
  <2>5. M = N
    <3> HIDE DEF N
    <3> QED
      BY <2>1, <2>4, <1>0, IndexWithOK
  <2>6. ASSUME NEW S \in SUBSET NodesOf(M), S # {}, \A x \in S : M.links[x] \subseteq S
        PROVE  S = NodesOf(M)
    <3>1. NodesOf(M) = NodesOf(L) \cup {n} /\ Near(i, id, 0, n) \subseteq NodesOf(L)
      BY <2>3, <2>4, <2>5, <1>2
    <3>2. \E x \in S : x \in NodesOf(L)
      <4>1. CASE n \in S
        <5>1. M.links[n] \subseteq S /\ M.links[n] = Near(i, id, 0, n)
          BY <4>1, <2>6, <2>4, <2>5
        <5> QED
          BY <5>1, <2>2, <3>1
      <4>2. CASE n \notin S
        BY <4>2, <2>6, <3>1
      <4> QED
        BY <4>1, <4>2
    <3>3. S \cap NodesOf(L) = NodesOf(L)
      <4>1. \A x \in S \cap NodesOf(L) : L.links[x] \subseteq S \cap NodesOf(L)
        <5>1. \A x \in NodesOf(L) : L.links[x] \subseteq NodesOf(L) /\ L.links[x] \subseteq M.links[x]
          BY <1>1 DEF LayerOK
        <5> QED
          BY <5>1, <2>6
      <4>2. PICK T \in SUBSET NodesOf(L) : T = S \cap NodesOf(L)
        OBVIOUS
      <4>3. T # {} /\ \A x \in T : L.links[x] \subseteq T
        BY <4>1, <4>2, <3>2
      <4> QED
        BY <4>2, <4>3 DEF Connected
    <3>4. n \in S
      <4>1. PICK x \in Near(i, id, 0, n) : TRUE
        BY <2>2
      <4>2. x \in S /\ n \in M.links[x]
        BY <4>1, <3>1, <3>3, <2>4, <2>5
      <4> QED
        BY <4>2, <2>6
    <3> QED
      BY <3>1, <3>3, <3>4
  <2> QED
    BY <2>6 DEF Connected
<1> QED
  BY <1>3, <1>4

-----------------------------------------------------------------------------
(* The vector index: a vector joins the index *)

\* The node a new vector becomes.
NewNode(i, id, l) == IF i.multi THEN Len(i.maps[l]) ELSE id - 1

\* The index once the vector is cached and numbered.
Prepared(i, id, p, level) == Register([i EXCEPT !.cache = With(@, id, p)], id, level)

LEMMA LastPlace ==
  ASSUME NEW s \in Seq(Nat), NEW id \in Nat
  PROVE  LET places == {k \in DOMAIN Append(s, id) : Append(s, id)[k] = id}
         IN  places # {} /\ Max(places) = Len(s) + 1
<1> DEFINE t == Append(s, id)
           places == {k \in DOMAIN t : t[k] = id}
<1>1. Len(s) \in Nat /\ DOMAIN t = 1..(Len(s) + 1) /\ t[Len(s) + 1] = id
  OBVIOUS
<1>2. places \subseteq Nat /\ Len(s) + 1 \in places /\ \A x \in places : x <= Len(s) + 1
  <2> HIDE DEF t
  <2> QED
    BY <1>1
<1>3. Max(places) \in places /\ \A y \in places : y <= Max(places)
  <2> HIDE DEF places
  <2>1. places # {} /\ Len(s) + 1 \in Nat
    BY <1>1, <1>2
  <2> QED
    BY <1>2, <2>1, GreatestNatural
<1>4. Max(places) = Len(s) + 1
  <2>1. PICK m : m = Max(places)
    OBVIOUS
  <2>2. m \in Nat /\ m <= Len(s) + 1 /\ Len(s) + 1 <= m
    <3> HIDE DEF places
    <3> QED
      BY <1>2, <1>3, <2>1
  <2>3. m = Len(s) + 1
    BY <1>1, <2>2
  <2> QED
    BY <2>1, <2>3, Zenon
<1> QED
  BY <1>2, <1>4

PreparedAs(i, id, p, level, c) ==
  /\ IndexOK(c) /\ c.layers = i.layers
  /\ c.multi = i.multi /\ c.ml = i.ml /\ c.eps = i.eps /\ c.count = i.count
  /\ c.cache = With(i.cache, id, p)
  /\ i.multi => \A l \in Levels : c.maps[l] = IF l <= level THEN Append(i.maps[l], id) ELSE i.maps[l]
  /\ ~i.multi => c.maps = i.maps
LEMMA PreparedOK ==
  ASSUME NEW i, IndexOK(i), NEW id \in Nat \ {0}, NEW p \in Nat, NEW level \in LevelsOf(i)
  PROVE  PreparedAs(i, id, p, level, Prepared(i, id, p, level))
<1>0. PICK c : c = Prepared(i, id, p, level)
  OBVIOUS
<1>1. i \in Indexes
  BY DEF IndexOK
<1>2. i = [multi |-> i.multi, ml |-> i.ml, layers |-> i.layers, eps |-> i.eps, count |-> i.count,
           cache |-> i.cache, maps |-> i.maps]
  BY <1>1 DEF Indexes
<1>3. /\ i.multi \in BOOLEAN /\ i.ml \in 1..16 /\ i.layers \in [Levels -> Layers] /\ i.eps \in Seq(Nat)
      /\ i.count \in Nat /\ i.cache \in VectorMaps /\ i.maps \in [Levels -> Seq(Nat)]
  BY <1>1 DEF Indexes
<1> DEFINE cache == With(i.cache, id, p)
           numbered == [l \in DOMAIN i.maps |-> IF l <= level THEN Append(i.maps[l], id) ELSE i.maps[l]]
           maps == IF i.multi THEN numbered ELSE i.maps
<1>4. cache \in VectorMaps
  BY <1>3, WithVector
<1>5. maps \in [Levels -> Seq(Nat)]
  <2>1. \A s \in Seq(Nat) : Append(s, id) \in Seq(Nat)
    OBVIOUS
  <2>2. numbered \in [Levels -> Seq(Nat)]
    BY <2>1, <1>3
  <2> QED
    BY <2>2, <1>3
<1>6. c = [multi |-> i.multi, ml |-> i.ml, layers |-> i.layers, eps |-> i.eps, count |-> i.count,
           cache |-> cache, maps |-> maps]
  <2>1. PICK d : d = [i EXCEPT !.cache = cache]
    OBVIOUS
  <2>2. d = [multi |-> i.multi, ml |-> i.ml, layers |-> i.layers, eps |-> i.eps, count |-> i.count,
             cache |-> cache, maps |-> i.maps]
    <3> HIDE DEF cache
    <3> QED
      BY <1>2, <2>1
  <2>3. c = IF d.multi THEN [d EXCEPT !.maps = numbered] ELSE d
    <3>1. c = Register(d, id, level)
      BY <1>0, <2>1 DEF Prepared
    <3>2. d.maps = i.maps /\ d.multi = i.multi
      BY <2>2
    <3> QED
      BY <3>1, <3>2 DEF Register
  <2> HIDE DEF cache, numbered
  <2> QED
    BY <2>2, <2>3
<1>7. c \in Indexes
  <2> HIDE DEF cache, maps
  <2> QED
    BY <1>3, <1>4, <1>5, <1>6 DEF Indexes
<1>8. /\ c.layers = i.layers /\ c.multi = i.multi /\ c.ml = i.ml /\ c.eps = i.eps /\ c.count = i.count
      /\ c.cache = cache /\ c.maps = maps
  <2> HIDE DEF cache, maps
  <2> QED
    BY <1>6
<1>9. IndexOK(c)
  BY <1>7, <1>8 DEF IndexOK, LevelsOf
<1>10. i.multi => \A l \in Levels : maps[l] = IF l <= level THEN Append(i.maps[l], id) ELSE i.maps[l]
  BY <1>3
<1> HIDE DEF maps
<1>11. PreparedAs(i, id, p, level, c)
  BY <1>8, <1>9, <1>10 DEF maps, PreparedAs
<1> QED
  BY <1>0, <1>11

\* The levels up to the one the vector is put on.
LEMMA LevelsUpTo ==
  ASSUME NEW i, IndexOK(i), NEW level \in LevelsOf(i)
  PROVE  level \in Levels /\ 0..level \subseteq Levels /\ level \in Nat /\ (~i.multi => level = 0)
<1>1. level \in Levels
  BY LevelFacts DEF IndexOK, LevelsOf
<1>2. level \in Nat
  BY <1>1, LevelFacts
<1> QED
  BY <1>1, <1>2, LevelFacts DEF LevelsOf

LEMMA NumberOf ==
  ASSUME NEW i, IndexOK(i), NEW id \in Nat \ {0}, NEW p \in Nat, NEW level \in LevelsOf(i),
         NEW j, SameBesides(Prepared(i, id, p, level), j), NEW l \in 0..level
  PROVE  NewNode(i, id, l) \in Nat /\ LocalIds(j, id, l) = {NewNode(i, id, l)}
<1>1. PICK c : c = Prepared(i, id, p, level)
  OBVIOUS
<1>0. PreparedAs(i, id, p, level, c)
  BY <1>1, PreparedOK
<1>2. l \in Levels /\ l <= level
  BY LevelsUpTo
<1>3. CASE i.multi
  <2>1. i.maps[l] \in Seq(Nat)
    BY <1>2 DEF IndexOK, Indexes
  <2>2. j.multi /\ j.maps[l] = Append(i.maps[l], id)
    <3>1. /\ c.multi = i.multi
          /\ \A k \in Levels : c.maps[k] = IF k <= level THEN Append(i.maps[k], id) ELSE i.maps[k]
      BY <1>0, <1>3 DEF PreparedAs
    <3>2. c.maps[l] = Append(i.maps[l], id)
      BY <3>1, <1>2
    <3>3. j.multi = c.multi /\ j.maps = c.maps
      BY <1>1 DEF SameBesides
    <3> QED
      BY <3>1, <3>2, <3>3, <1>3
  <2>3. PICK places : places = {k \in DOMAIN Append(i.maps[l], id) : Append(i.maps[l], id)[k] = id}
    OBVIOUS
  <2>4. places # {} /\ Max(places) = Len(i.maps[l]) + 1
    BY <2>1, <2>3, LastPlace
  <2>5. LocalIds(j, id, l) = {Max(places) - 1}
    BY <2>2, <2>3, <2>4 DEF LocalIds
  <2>6. Len(i.maps[l]) \in Nat /\ Max(places) - 1 = Len(i.maps[l])
    BY <2>1, <2>4
  <2> QED
    BY <2>5, <2>6, <1>3 DEF NewNode
<1>4. CASE ~i.multi
  <2>1. ~j.multi
    BY <1>0, <1>1, <1>4 DEF SameBesides, PreparedAs
  <2> QED
    BY <2>1, <1>4 DEF LocalIds, NewNode
<1> QED
  BY <1>3, <1>4

\* The insertions of a vector, layer by layer.
JoinedUpTo(f, i, id, level, m) ==
  f = [k \in 0..m |->
         IF k = 0 THEN Done(i)
         ELSE IF f[k - 1].ok THEN InsertIntoLayer(f[k - 1].index, id, level + 1 - k) ELSE f[k - 1]]
LEMMA JoinedExists ==
  ASSUME NEW i, NEW id, NEW level \in Nat, NEW m0 \in Nat
  PROVE  \E f : JoinedUpTo(f, i, id, level, m0)
<1> DEFINE Bad == {m \in 0..m0 : \A f : ~JoinedUpTo(f, i, id, level, m)}
<1> SUFFICES ASSUME m0 \in Bad PROVE FALSE
  OBVIOUS
<1>1. Bad \subseteq Nat /\ Bad # {}
  OBVIOUS
<1>2. PICK m \in Bad : \A y \in Bad : m <= y
  <2> HIDE DEF Bad
  <2> QED
    BY <1>1, LeastNatural
<1>3. m \in 0..m0 /\ \A f : ~JoinedUpTo(f, i, id, level, m)
  BY <1>2
<1>4. m # 0
  <2> SUFFICES ASSUME m = 0 PROVE FALSE
    OBVIOUS
  <2> DEFINE f == [k \in 0..0 |-> Done(i)]
  <2>1. f = [k \in 0..0 |->
         IF k = 0 THEN Done(i)
         ELSE IF f[k - 1].ok THEN InsertIntoLayer(f[k - 1].index, id, level + 1 - k) ELSE f[k - 1]]
    OBVIOUS
  <2> QED
    BY <2>1, <1>3 DEF JoinedUpTo
<1>5. m - 1 \in 0..m0 /\ ~(m <= m - 1)
  BY <1>3, <1>4
<1>6. PICK g : JoinedUpTo(g, i, id, level, m - 1)
  BY <1>2, <1>5
<1> DEFINE f == [k \in 0..m |->
                   IF k = m THEN IF g[m - 1].ok THEN InsertIntoLayer(g[m - 1].index, id, level + 1 - m) ELSE g[m - 1]
                   ELSE g[k]]
<1>7. \A k \in 0..(m - 1) : g[k] =
         IF k = 0 THEN Done(i)
         ELSE IF g[k - 1].ok THEN InsertIntoLayer(g[k - 1].index, id, level + 1 - k) ELSE g[k - 1]
  BY <1>6 DEF JoinedUpTo
<1>8. \A k \in 0..m : f[k] =
         IF k = 0 THEN Done(i)
         ELSE IF f[k - 1].ok THEN InsertIntoLayer(f[k - 1].index, id, level + 1 - k) ELSE f[k - 1]
  <2> SUFFICES ASSUME NEW k \in 0..m
               PROVE  f[k] =
         IF k = 0 THEN Done(i)
         ELSE IF f[k - 1].ok THEN InsertIntoLayer(f[k - 1].index, id, level + 1 - k) ELSE f[k - 1]
    OBVIOUS
  <2>1. CASE k = m
    <3>1. m - 1 \in 0..m /\ m - 1 # m
      BY <1>3, <1>4
    <3>2. f[m - 1] = g[m - 1]
      BY <3>1
    <3> QED
      BY <3>2, <2>1, <1>4
  <2>2. CASE k # m
    <3>1. k \in 0..(m - 1) /\ f[k] = g[k]
      BY <2>2, <1>3
    <3>2. k # 0 => k - 1 \in 0..m /\ k - 1 # m /\ f[k - 1] = g[k - 1]
      BY <3>1, <1>3
    <3> QED
      BY <3>1, <3>2, <1>7
  <2> QED
    BY <2>1, <2>2
<1>9. JoinedUpTo(f, i, id, level, m)
  <2>1. f = [k \in 0..m |-> f[k]]
    OBVIOUS
  <2> HIDE DEF f
  <2> QED
    BY <2>1, <1>8 DEF JoinedUpTo
<1> QED
  BY <1>9, <1>3

Joins(f, i, id, level) ==
  /\ f[0] = Done(i)
  /\ \A k \in 1..(level + 1) :
       f[k] = IF f[k - 1].ok THEN InsertIntoLayer(f[k - 1].index, id, level + 1 - k) ELSE f[k - 1]
  /\ Joined(i, id, level) = f[level + 1]
LEMMA JoinedSteps ==
  ASSUME NEW i, NEW id, NEW level \in Nat
  PROVE  \E f : Joins(f, i, id, level)
<1> DEFINE m == level + 1
<1>1. m \in Nat /\ 0 \in 0..m /\ \A k \in 1..m : k \in 0..m /\ k # 0
  OBVIOUS
<1>2. PICK g : g = CHOOSE h : JoinedUpTo(h, i, id, level, m)
  OBVIOUS
<1>3. JoinedUpTo(g, i, id, level, m)
  <2>1. \E f : JoinedUpTo(f, i, id, level, m)
    <3> HIDE DEF m
    <3> QED
      BY <1>1, JoinedExists
  <2> QED
    BY <2>1, <1>2, Zenon
<1>4. Joined(i, id, level) = g[m]
  BY <1>2 DEF Joined, JoinedUpTo
<1>5. \A k \in 0..m : g[k] =
         IF k = 0 THEN Done(i)
         ELSE IF g[k - 1].ok THEN InsertIntoLayer(g[k - 1].index, id, level + 1 - k) ELSE g[k - 1]
  BY <1>3 DEF JoinedUpTo
<1>6. g[0] = Done(i)
  BY <1>1, <1>5
<1>7. \A k \in 1..m : g[k] =
         IF g[k - 1].ok THEN InsertIntoLayer(g[k - 1].index, id, level + 1 - k) ELSE g[k - 1]
  BY <1>1, <1>5
<1>8. Joins(g, i, id, level)
  BY <1>4, <1>6, <1>7 DEF Joins
<1> QED
  BY <1>8

\* In a multi-layer index the nodes of a layer are numbered in the order they
\* joined it, and the vector of every node is cached.
Numbered(i) ==
  i.multi => \A l \in Levels : /\ NodesOf(i.layers[l]) = 0..(Len(i.maps[l]) - 1)
                               /\ Range(i.maps[l]) \subseteq DOMAIN i.cache

\* Index j has a new node in the layers from lo to hi.
Growth(i, j, id, lo, hi) ==
  \A l \in Levels : IF lo <= l /\ l <= hi THEN Grown(i.layers[l], j.layers[l], NewNode(i, id, l))
                    ELSE j.layers[l] = i.layers[l]

\* A layer of a multi-layer index takes a new node.
TookNode(i, j, id, l, r) ==
  /\ r.ok = TRUE
  /\ \E M : /\ Grown(i.layers[l], M, NewNode(i, id, l)) /\ r.index = IndexWith(j, l, M)
            /\ r.index.layers[l] = M
LEMMA LayerJoins ==
  ASSUME NEW i, IndexOK(i), Numbered(i), i.multi, NEW id \in Nat \ {0}, NEW p \in Nat, NEW level \in LevelsOf(i),
         NEW j, IndexOK(j), SameBesides(Prepared(i, id, p, level), j), NEW l \in 0..level,
         j.layers[l] = i.layers[l]
  PROVE  TookNode(i, j, id, l, InsertIntoLayer(j, id, l))
<1> DEFINE n == NewNode(i, id, l)
<1>0. PICK r : r = InsertIntoLayer(j, id, l)
  OBVIOUS
<1>1. PICK c : c = Prepared(i, id, p, level)
  OBVIOUS
<1>2. PreparedAs(i, id, p, level, c)
  BY <1>1, PreparedOK
<1>3. l \in Levels /\ l <= level
  BY LevelsUpTo
<1>4. n \in Nat /\ LocalIds(j, id, l) = {n}
  BY NumberOf
<1>5. i.maps[l] \in Seq(Nat) /\ n = Len(i.maps[l])
  BY <1>3 DEF IndexOK, Indexes, NewNode
<1>6. NodesOf(j.layers[l]) = 0..(n - 1) /\ Range(i.maps[l]) \subseteq DOMAIN i.cache
  BY <1>3, <1>5 DEF Numbered
<1>7. j.multi /\ j.maps[l] = Append(i.maps[l], id) /\ j.cache = With(i.cache, id, p)
  BY <1>1, <1>2, <1>3 DEF PreparedAs, SameBesides
<1>8. \A x \in NodesOf(j.layers[l]) \cup {n} : GlobalIds(j, l, x) \cap DOMAIN j.cache # {}
  <2> SUFFICES ASSUME NEW x \in 0..n PROVE GlobalIds(j, l, x) \cap DOMAIN j.cache # {}
    BY <1>4, <1>6
  <2>1. x + 1 \in DOMAIN j.maps[l] /\ (x # n => x + 1 \in 1..Len(i.maps[l])) /\ x \in Nat
    BY <1>4, <1>5, <1>7
  <2>2. j.maps[l][x + 1] \in GlobalIds(j, l, x)
    BY <2>1, <1>7 DEF GlobalIds
  <2>3. DOMAIN j.cache = DOMAIN i.cache \cup {id}
    BY <1>7 DEF With
  <2>4. j.maps[l][x + 1] \in DOMAIN j.cache
    <3>1. CASE x = n
      <4>1. j.maps[l][x + 1] = id
        BY <3>1, <1>5, <1>7
      <4> QED
        BY <4>1, <2>3
    <3>2. CASE x # n
      <4>1. j.maps[l][x + 1] = i.maps[l][x + 1] /\ x + 1 \in DOMAIN i.maps[l]
        BY <3>2, <2>1, <1>5, <1>7
      <4>2. i.maps[l][x + 1] \in Range(i.maps[l])
        BY <4>1 DEF Range
      <4> QED
        BY <4>1, <4>2, <2>3, <1>6
    <3> QED
      BY <3>1, <3>2
  <2> QED
    BY <2>2, <2>4
<1>9. n \notin NodesOf(j.layers[l])
  BY <1>4, <1>6
<1>10. r.ok = TRUE
  <2> HIDE DEF n
  <2> QED
    BY <1>0, <1>3, <1>4, <1>8, <1>9, InsertOk
<1>11. PICK M : InsertedAs(j, r, l, n, M)
  <2> HIDE DEF n
  <2> QED
    BY <1>0, <1>3, <1>4, InsertEffect
<1>12. Grown(i.layers[l], M, n) /\ r.index = IndexWith(j, l, M) /\ r.index.layers[l] = M
  BY <1>10, <1>11 DEF InsertedAs
<1>13. TookNode(i, j, id, l, r)
  BY <1>10, <1>12 DEF TookNode
<1> QED
  BY <1>0, <1>13

\* A multi-layer index takes a vector in all its layers down from its level.
JoinedFrom(i, id, p, level, k, r) ==
  /\ r.ok = TRUE /\ IndexOK(r.index)
  /\ SameBesides(Prepared(i, id, p, level), r.index)
  /\ Growth(i, r.index, id, level + 1 - k, level)
LEMMA JoinsAll ==
  ASSUME NEW i, IndexOK(i), Numbered(i), i.multi, NEW id \in Nat \ {0}, NEW p \in Nat, NEW level \in LevelsOf(i),
         NEW f, Joins(f, Prepared(i, id, p, level), id, level)
  PROVE  \A k \in 0..(level + 1) : JoinedFrom(i, id, p, level, k, f[k])
<1> DEFINE Bad == {k \in 0..(level + 1) : ~JoinedFrom(i, id, p, level, k, f[k])}
<1>0. level \in Levels /\ 0..level \subseteq Levels /\ level \in Nat
  BY LevelsUpTo
<1>1. PICK c : c = Prepared(i, id, p, level)
  OBVIOUS
<1>2. PreparedAs(i, id, p, level, c)
  BY <1>1, PreparedOK
<1> SUFFICES ASSUME Bad # {} PROVE FALSE
  OBVIOUS
<1>3. Bad \subseteq Nat
  BY <1>0
<1>4. PICK m \in Bad : \A y \in Bad : m <= y
  <2> HIDE DEF Bad
  <2> QED
    BY <1>3, LeastNatural
<1>5. m \in 0..(level + 1) /\ ~JoinedFrom(i, id, p, level, m, f[m])
  BY <1>4
<1>6. m # 0
  <2>1. f[0].ok = TRUE /\ f[0].index = c
    BY <1>1 DEF Joins, Done
  <2>2. Growth(i, c, id, level + 1 - 0, level)
    <3>1. \A l \in Levels : ~(level + 1 - 0 <= l /\ l <= level)
      BY <1>0, LevelFacts
    <3> QED
      BY <3>1, <1>2 DEF Growth, PreparedAs
  <2>3. JoinedFrom(i, id, p, level, 0, f[0])
    BY <2>1, <2>2, <1>1, <1>2 DEF JoinedFrom, PreparedAs, SameBesides
  <2> QED
    BY <2>3, <1>5
<1>7. m \in 1..(level + 1) /\ m - 1 \in 0..(level + 1) /\ ~(m <= m - 1)
  BY <1>0, <1>5, <1>6
<1>8. JoinedFrom(i, id, p, level, m - 1, f[m - 1])
  BY <1>4, <1>7
<1> DEFINE l == level + 1 - m
<1>9. l \in 0..level /\ l \in Levels
  BY <1>0, <1>7
<1>10. PICK j : j = f[m - 1].index
  OBVIOUS
<1>11. /\ IndexOK(j) /\ SameBesides(c, j) /\ f[m - 1].ok = TRUE
       /\ \A h \in Levels : IF l + 1 <= h /\ h <= level THEN Grown(i.layers[h], j.layers[h], NewNode(i, id, h))
                            ELSE j.layers[h] = i.layers[h]
  <2>1. level + 1 - (m - 1) = l + 1
    BY <1>0, <1>7
  <2> QED
    BY <2>1, <1>8, <1>10, <1>1 DEF JoinedFrom, Growth
<1>12. f[m] = InsertIntoLayer(j, id, l)
  BY <1>7, <1>10, <1>11 DEF Joins
<1>13. j.layers[l] = i.layers[l]
  BY <1>9, <1>11
<1>14. PICK M : /\ Grown(i.layers[l], M, NewNode(i, id, l)) /\ f[m].index = IndexWith(j, l, M)
                /\ f[m].ok = TRUE
  <2>1. SameBesides(Prepared(i, id, p, level), j)
    BY <1>1, <1>11
  <2>2. TookNode(i, j, id, l, f[m])
    <3> HIDE DEF l
    <3> QED
      BY <2>1, <1>9, <1>11, <1>12, <1>13, LayerJoins
  <2> QED
    BY <2>2 DEF TookNode
<1>15. LayerOK(M)
  BY <1>14 DEF Grown
<1>16. /\ IndexOK(f[m].index) /\ SameBesides(j, f[m].index) /\ f[m].index.layers[l] = M
       /\ \A h \in Levels : h # l => f[m].index.layers[h] = j.layers[h]
  <2> HIDE DEF l
  <2> QED
    BY <1>9, <1>11, <1>14, <1>15, IndexWithOK
<1>17. Growth(i, f[m].index, id, l, level)
  <2> SUFFICES ASSUME NEW h \in Levels
               PROVE  IF l <= h /\ h <= level THEN Grown(i.layers[h], f[m].index.layers[h], NewNode(i, id, h))
                      ELSE f[m].index.layers[h] = i.layers[h]
    BY DEF Growth
  <2>1. h \in Nat /\ l \in Nat
    BY <1>9, LevelFacts
  <2>2. CASE h = l
    BY <2>2, <1>9, <1>14, <1>16
  <2>3. CASE h # l
    <3>1. f[m].index.layers[h] = j.layers[h]
      BY <2>3, <1>16
    <3>2. l <= h <=> l + 1 <= h
      BY <2>1, <2>3
    <3> QED
      BY <3>1, <3>2, <1>11
  <2> QED
    BY <2>2, <2>3
<1>18. SameBesides(c, f[m].index)
  BY <1>11, <1>16 DEF SameBesides
<1>19. JoinedFrom(i, id, p, level, m, f[m])
  BY <1>1, <1>14, <1>16, <1>17, <1>18 DEF JoinedFrom
<1> QED
  BY <1>5, <1>19

\* The entry points and the count of an index, changed.
EntryChangedTo(j, e, n, k) ==
  /\ IndexOK(k) /\ k.multi = j.multi /\ k.ml = j.ml /\ k.layers = j.layers
  /\ k.cache = j.cache /\ k.maps = j.maps /\ k.eps = e /\ k.count = n
WithEntry(j, e, n) == [j EXCEPT !.eps = e, !.count = n]
LEMMA EntryChanged ==
  ASSUME NEW j, IndexOK(j), NEW e \in Seq(Nat), NEW n \in Nat
  PROVE  EntryChangedTo(j, e, n, WithEntry(j, e, n))
<1>0. PICK k : k = WithEntry(j, e, n)
  OBVIOUS
<1>1. j \in Indexes
  BY DEF IndexOK
<1>2. /\ k \in Indexes /\ k.multi = j.multi /\ k.ml = j.ml /\ k.layers = j.layers
      /\ k.cache = j.cache /\ k.maps = j.maps /\ k.eps = e /\ k.count = n
  BY <1>0, <1>1 DEF Indexes, WithEntry
<1>3. EntryChangedTo(j, e, n, k)
  BY <1>2 DEF IndexOK, LevelsOf, EntryChangedTo
<1> QED
  BY <1>0, <1>3

\* What becomes of the base layer.
BaseJoined(i, id, p, level, r) ==
  \E j : /\ IndexOK(j) /\ SameBesides(Prepared(i, id, p, level), j) /\ j.layers[0] = i.layers[0]
         /\ r.ok = InsertIntoLayer(j, id, 0).ok
         /\ r.index.layers[0] = InsertIntoLayer(j, id, 0).index.layers[0]

\* What becomes of the index: a multi-layer index takes the vector, another one
\* may refuse it and then has at most a new node in its base layer.
LayersJoined(i, id, p, level, r) ==
  /\ r.ok \in BOOLEAN /\ IndexOK(r.index) /\ SameBesides(Prepared(i, id, p, level), r.index)
  /\ r.ok => Growth(i, r.index, id, 0, level)
  /\ ~r.ok => /\ ~i.multi
              /\ Growth(i, r.index, id, 0, 0) \/ \A l \in Levels : r.index.layers[l] = i.layers[l]
LEMMA JoinedOK ==
  ASSUME NEW i, IndexOK(i), Numbered(i), NEW id \in Nat \ {0}, NEW p \in Nat, NEW level \in LevelsOf(i),
         NEW r, r = Joined(Prepared(i, id, p, level), id, level)
  PROVE  LayersJoined(i, id, p, level, r) /\ BaseJoined(i, id, p, level, r)
<1>0. level \in Levels /\ 0..level \subseteq Levels /\ level \in Nat /\ (~i.multi => level = 0) /\ 0 \in Levels
  BY LevelsUpTo, LevelFacts
<1>1. PICK c : c = Prepared(i, id, p, level)
  OBVIOUS
<1>2. PreparedAs(i, id, p, level, c)
  BY <1>1, PreparedOK
<1>3. PICK f : Joins(f, c, id, level)
  BY <1>0, JoinedSteps
<1>4. r = f[level + 1]
  BY <1>1, <1>3 DEF Joins
<1>5. CASE i.multi
  <2>1. \A k \in 0..(level + 1) : JoinedFrom(i, id, p, level, k, f[k])
    BY <1>1, <1>3, <1>5, JoinsAll
  <2>2. level + 1 \in 0..(level + 1) /\ level \in 0..(level + 1) /\ level + 1 \in 1..(level + 1)
        /\ level + 1 - (level + 1) = 0 /\ level + 1 - level = 1 /\ (level + 1) - 1 = level
    BY <1>0
  <2>3. JoinedFrom(i, id, p, level, level + 1, r)
    BY <2>1, <2>2, <1>4
  <2>4. LayersJoined(i, id, p, level, r)
    BY <2>2, <2>3 DEF JoinedFrom, LayersJoined
  <2>5. JoinedFrom(i, id, p, level, level, f[level])
    BY <2>1, <2>2
  <2>6. PICK j : j = f[level].index
    OBVIOUS
  <2>7. r = InsertIntoLayer(j, id, 0)
    <3>1. f[level].ok = TRUE
      BY <2>5 DEF JoinedFrom
    <3>2. f[level + 1] = IF f[(level + 1) - 1].ok
                           THEN InsertIntoLayer(f[(level + 1) - 1].index, id, level + 1 - (level + 1))
                           ELSE f[(level + 1) - 1]
      BY <1>3, <2>2 DEF Joins
    <3> QED
      BY <3>1, <3>2, <2>2, <2>6, <1>4
  <2>8. IndexOK(j) /\ SameBesides(Prepared(i, id, p, level), j) /\ Growth(i, j, id, 1, level)
    BY <2>2, <2>5, <2>6 DEF JoinedFrom
  <2>9. j.layers[0] = i.layers[0]
    BY <2>8, <1>0 DEF Growth
  <2>10. BaseJoined(i, id, p, level, r)
    BY <2>7, <2>8, <2>9 DEF BaseJoined
  <2> QED
    BY <2>4, <2>10
<1>6. CASE ~i.multi
  <2>1. level = 0
    BY <1>0, <1>6
  <2>2. f[0].ok = TRUE /\ f[0].index = c
    BY <1>3 DEF Joins, Done
  <2>3. f[1] = InsertIntoLayer(c, id, 0)
    <3>1. 1 \in 1..(0 + 1) /\ 0 + 1 - 1 = 0 /\ 1 - 1 = 0
      OBVIOUS
    <3> QED
      BY <3>1, <2>1, <2>2, <1>3 DEF Joins
  <2>4. r = InsertIntoLayer(c, id, 0)
    BY <2>1, <2>3, <1>4
  <2>5. IndexOK(c) /\ SameBesides(c, c) /\ c.layers = i.layers
    BY <1>2 DEF PreparedAs, SameBesides
  <2>6. BaseJoined(i, id, p, level, r)
    BY <2>4, <2>5, <1>1 DEF BaseJoined
  <2>7. NewNode(i, id, 0) \in Nat /\ LocalIds(c, id, 0) = {NewNode(i, id, 0)}
    <3>1. 0 \in 0..level
      BY <1>0
    <3> QED
      BY <3>1, <2>5, <1>1, NumberOf
  <2>8. PICK M : InsertedAs(c, r, 0, NewNode(i, id, 0), M)
    <3>1. PICK n \in Nat : n = NewNode(i, id, 0)
      BY <2>7
    <3> QED
      BY <3>1, <2>4, <2>5, <2>7, <1>0, InsertEffect
  <2>9. r.index = IndexWith(c, 0, M) /\ r.ok \in BOOLEAN
        /\ ((M = i.layers[0] /\ ~r.ok) \/ Grown(i.layers[0], M, NewNode(i, id, 0)))
    BY <2>8, <2>5 DEF InsertedAs
  <2>10. LayerOK(M)
    BY <2>9, <1>0 DEF Grown, IndexOK
  <2>11. /\ IndexOK(r.index) /\ SameBesides(c, r.index) /\ r.index.layers[0] = M
         /\ \A l \in Levels : l # 0 => r.index.layers[l] = i.layers[l]
    BY <2>5, <2>9, <2>10, <1>0, IndexWithOK
  <2>12. Grown(i.layers[0], M, NewNode(i, id, 0)) => Growth(i, r.index, id, 0, 0)
    <3>1. \A l \in Levels : 0 <= l /\ l <= 0 <=> l = 0
      BY LevelFacts
    <3> QED
      BY <3>1, <2>11 DEF Growth
  <2>13. M = i.layers[0] => \A l \in Levels : r.index.layers[l] = i.layers[l]
    BY <2>11
  <2>14. LayersJoined(i, id, p, level, r)
    BY <2>1, <2>9, <2>11, <2>12, <2>13, <1>1, <1>6 DEF LayersJoined
  <2> QED
    BY <2>6, <2>14
<1> QED
  BY <1>5, <1>6

\* What becomes of an index and its entry points when a vector is added.
AddedAs(i, id, p, level, r) ==
  /\ r.ok \in BOOLEAN /\ IndexOK(r.index)
  /\ r.index.multi = i.multi /\ r.index.ml = i.ml /\ r.index.cache = With(i.cache, id, p)
  /\ r.index.maps = Prepared(i, id, p, level).maps
  /\ r.ok => /\ r.index.eps = IF level >= Len(i.eps) THEN Append(i.eps, id) ELSE i.eps
             /\ r.index.count = i.count + 1
             /\ Growth(i, r.index, id, 0, level)
  /\ ~r.ok => /\ ~i.multi /\ r.index.eps = i.eps /\ r.index.count = i.count
              /\ Growth(i, r.index, id, 0, 0) \/ \A l \in Levels : r.index.layers[l] = i.layers[l]
  /\ BaseJoined(i, id, p, level, r)
LEMMA AddVectorOK ==
  ASSUME NEW i, IndexOK(i), Numbered(i), NEW id \in Nat \ {0}, NEW p \in Nat, NEW level \in LevelsOf(i)
  PROVE  AddedAs(i, id, p, level, AddVector(i, id, p, level))
<1>0. level \in Nat
  BY LevelsUpTo
<1>1. PICK r : r = AddVector(i, id, p, level)
  OBVIOUS
<1>2. PICK c : c = Prepared(i, id, p, level)
  OBVIOUS
<1>3. PICK last : last = Joined(c, id, level)
  OBVIOUS
<1>4. LayersJoined(i, id, p, level, last) /\ BaseJoined(i, id, p, level, last)
  BY <1>2, <1>3, JoinedOK
<1>5. PreparedAs(i, id, p, level, c)
  BY <1>2, PreparedOK
<1>6. IndexOK(last.index) /\ SameBesides(c, last.index) /\ last.ok \in BOOLEAN
  BY <1>2, <1>4 DEF LayersJoined
<1>7. /\ last.index.eps = i.eps /\ last.index.count = i.count /\ last.index.multi = i.multi
      /\ last.index.ml = i.ml /\ last.index.cache = With(i.cache, id, p) /\ last.index.maps = c.maps
  BY <1>5, <1>6 DEF PreparedAs, SameBesides
<1> DEFINE e == IF level >= Len(last.index.eps) THEN Append(last.index.eps, id) ELSE last.index.eps
           j == WithEntry(last.index, e, last.index.count + 1)
<1>8. r = IF ~last.ok THEN last ELSE Done(j)
  <2>1. last.index = [last.index EXCEPT !.eps = last.index.eps]
    BY <1>6 DEF IndexOK, Indexes
  <2> QED
    BY <1>1, <1>2, <1>3 DEF AddVector, Prepared, WithEntry
<1>9. CASE ~last.ok
  <2>1. r = last
    BY <1>8, <1>9
  <2>2. AddedAs(i, id, p, level, r)
    BY <2>1, <1>2, <1>4, <1>6, <1>7, <1>9 DEF AddedAs, LayersJoined
  <2> QED
    BY <2>2, <1>1
<1>10. CASE last.ok
  <2>1. r.index = j /\ r.ok = TRUE
    <3> HIDE DEF j
    <3> QED
      BY <1>8, <1>10 DEF Done
  <2>2. e \in Seq(Nat) /\ last.index.count + 1 \in Nat
    <3>1. i.eps \in Seq(Nat) /\ i.count \in Nat
      BY DEF IndexOK, Indexes
    <3>2. Append(i.eps, id) \in Seq(Nat)
      BY <3>1
    <3> QED
      BY <3>1, <3>2, <1>7
  <2>3. /\ IndexOK(j) /\ j.multi = last.index.multi /\ j.ml = last.index.ml /\ j.layers = last.index.layers
        /\ j.cache = last.index.cache /\ j.maps = last.index.maps /\ j.eps = e /\ j.count = last.index.count + 1
    <3> HIDE DEF e
    <3>1. EntryChangedTo(last.index, e, last.index.count + 1, j)
      BY <2>2, <1>6, EntryChanged
    <3> HIDE DEF j
    <3> QED
      BY <3>1 DEF EntryChangedTo
  <2>4. e = IF level >= Len(i.eps) THEN Append(i.eps, id) ELSE i.eps
    BY <1>7
  <2> HIDE DEF j, e
  <2>5. Growth(i, j, id, 0, level)
    <3>1. Growth(i, last.index, id, 0, level)
      BY <1>4, <1>10 DEF LayersJoined
    <3> QED
      BY <3>1, <2>3 DEF Growth
  <2>6. BaseJoined(i, id, p, level, r)
    BY <2>1, <2>3, <1>4, <1>6, <1>10 DEF BaseJoined
  <2>7. AddedAs(i, id, p, level, r)
    BY <2>1, <2>3, <2>4, <2>5, <2>6, <1>2, <1>7 DEF AddedAs
  <2> QED
    BY <2>7, <1>1
<1> QED
  BY <1>6, <1>9, <1>10

-----------------------------------------------------------------------------
(* The vector index: what a call leaves in memory *)

\* The nodes keep their ids when a vector is added, and the new node has its own.
KeepsIds(i, j) ==
  \A l \in Levels : \A n \in NodesOf(i.layers[l]) : GlobalIds(i, l, n) \subseteq GlobalIds(j, l, n)
AddedIn(i, id, level, j) ==
  /\ Numbered(j) /\ KeepsIds(i, j)
  /\ \A l \in Levels : l <= level => id \in GlobalIds(j, l, NewNode(i, id, l))
  /\ i.multi => \A l \in Levels : j.maps[l] = IF l <= level THEN Append(i.maps[l], id) ELSE i.maps[l]
LEMMA AddedNumbers ==
  ASSUME NEW i, IndexOK(i), Numbered(i), NEW id \in Nat \ {0}, NEW p \in Nat, NEW level \in LevelsOf(i),
         NEW r, AddedAs(i, id, p, level, r)
  PROVE  AddedIn(i, id, level, r.index)
<1>1. PICK j : j = r.index
  OBVIOUS
<1>2. level \in Nat /\ 0..level \subseteq Levels
  BY LevelsUpTo
<1>3. j.multi = i.multi /\ j.cache = With(i.cache, id, p) /\ j.maps = Prepared(i, id, p, level).maps
  BY <1>1 DEF AddedAs
<1>4. CASE ~i.multi
  <2>1. \A l \in Levels : \A n \in NodesOf(i.layers[l]) : GlobalIds(i, l, n) = GlobalIds(j, l, n)
    BY <1>3, <1>4 DEF GlobalIds
  <2>2. \A l \in Levels : id \in GlobalIds(j, l, NewNode(i, id, l))
    BY <1>3, <1>4 DEF GlobalIds, NewNode
  <2>3. AddedIn(i, id, level, j)
    BY <2>1, <2>2, <1>3, <1>4 DEF AddedIn, KeepsIds, Numbered
  <2> QED
    BY <2>3, <1>1
<1>5. CASE i.multi
  <2>1. \A l \in Levels : j.maps[l] = IF l <= level THEN Append(i.maps[l], id) ELSE i.maps[l]
    BY <1>3, <1>5, PreparedOK DEF PreparedAs
  <2>2. \A l \in Levels : IF l <= level THEN Grown(i.layers[l], j.layers[l], NewNode(i, id, l))
                          ELSE j.layers[l] = i.layers[l]
    <3>1. Growth(i, j, id, 0, level)
      BY <1>1, <1>5 DEF AddedAs
    <3>2. \A l \in Levels : 0 <= l
      BY LevelFacts
    <3> QED
      BY <3>1, <3>2 DEF Growth
  <2>3. \A l \in Levels : /\ i.maps[l] \in Seq(Nat) /\ Len(i.maps[l]) \in Nat
                          /\ NodesOf(i.layers[l]) = 0..(Len(i.maps[l]) - 1)
                          /\ Range(i.maps[l]) \subseteq DOMAIN i.cache
    BY <1>5 DEF IndexOK, Indexes, Numbered
  <2>4. DOMAIN j.cache = DOMAIN i.cache \cup {id}
    BY <1>3 DEF With
  <2>5. ASSUME NEW l \in Levels
        PROVE  /\ NodesOf(j.layers[l]) = 0..(Len(j.maps[l]) - 1) /\ Range(j.maps[l]) \subseteq DOMAIN j.cache
               /\ \A n \in NodesOf(i.layers[l]) : GlobalIds(i, l, n) \subseteq GlobalIds(j, l, n)
               /\ l <= level => id \in GlobalIds(j, l, NewNode(i, id, l))
    <3>1. CASE ~(l <= level)
      BY <3>1, <2>1, <2>2, <2>3, <2>4, <1>3 DEF GlobalIds
    <3>2. CASE l <= level
      <4>1. PICK s \in Seq(Nat) : s = i.maps[l]
        BY <2>3
      <4>2. j.maps[l] = Append(s, id) /\ NodesOf(i.layers[l]) = 0..(Len(s) - 1) /\ Range(s) \subseteq DOMAIN i.cache
        BY <4>1, <3>2, <2>1, <2>3
      <4>3. NodesOf(j.layers[l]) = 0..Len(s)
        <5>1. NodesOf(j.layers[l]) = NodesOf(i.layers[l]) \cup {Len(s)}
          BY <4>1, <3>2, <2>2, <1>5 DEF Grown, NewNode
        <5>2. Len(s) \in Nat
          OBVIOUS
        <5>3. 0..(Len(s) - 1) \cup {Len(s)} = 0..Len(s)
          BY <5>2
        <5> QED
          BY <5>1, <5>3, <4>2
      <4>4. /\ Len(Append(s, id)) = Len(s) + 1 /\ Append(s, id)[Len(s) + 1] = id
            /\ DOMAIN Append(s, id) = 1..(Len(s) + 1) /\ DOMAIN s = 1..Len(s)
            /\ \A k \in DOMAIN s : Append(s, id)[k] = s[k]
        OBVIOUS
      <4>5. Range(j.maps[l]) \subseteq DOMAIN j.cache
        <5>1. Range(Append(s, id)) \subseteq Range(s) \cup {id}
          <6> SUFFICES ASSUME NEW k \in DOMAIN Append(s, id) PROVE Append(s, id)[k] \in Range(s) \cup {id}
            BY DEF Range
          <6>1. k = Len(s) + 1 \/ k \in DOMAIN s
            BY <4>4
          <6> QED
            BY <6>1, <4>4 DEF Range
        <5> QED
          BY <5>1, <4>2, <2>4
      <4>6. \A n \in NodesOf(i.layers[l]) : GlobalIds(i, l, n) \subseteq GlobalIds(j, l, n)
        <5> SUFFICES ASSUME NEW n \in 0..(Len(s) - 1) PROVE GlobalIds(i, l, n) \subseteq GlobalIds(j, l, n)
          BY <4>2
        <5>1. n + 1 \in DOMAIN s /\ n + 1 \in DOMAIN Append(s, id)
          BY <4>4
        <5>2. GlobalIds(i, l, n) = {s[n + 1]} /\ GlobalIds(j, l, n) = {Append(s, id)[n + 1]}
          BY <5>1, <4>1, <4>2, <1>3, <1>5 DEF GlobalIds
        <5> QED
          BY <5>1, <5>2, <4>4
      <4>7. id \in GlobalIds(j, l, NewNode(i, id, l))
        <5>1. Len(s) + 1 \in DOMAIN Append(s, id)
          BY <4>4
        <5>2. NewNode(i, id, l) = Len(s)
          BY <4>1, <1>5 DEF NewNode
        <5>3. GlobalIds(j, l, Len(s)) = {Append(s, id)[Len(s) + 1]}
          BY <5>1, <4>2, <1>3, <1>5 DEF GlobalIds
        <5> QED
          BY <5>2, <5>3, <4>4
      <4>8. Len(j.maps[l]) - 1 = Len(s)
        BY <4>2, <4>4
      <4> QED
        BY <4>3, <4>5, <4>6, <4>7, <4>8
    <3> QED
      BY <3>1, <3>2
  <2>6. AddedIn(i, id, level, j)
    BY <2>1, <2>5 DEF AddedIn, KeepsIds, Numbered
  <2> QED
    BY <2>6, <1>1
<1> QED
  BY <1>4, <1>5

\* An index whose marks are gone.
CleanAs(i, j) ==
  /\ IndexOK(j) /\ SameBesides(i, j) /\ (Numbered(i) => Numbered(j))
  /\ \A l \in Levels : /\ j.layers[l].links = i.layers[l].links /\ j.layers[l].eps = i.layers[l].eps
                       /\ j.layers[l].dirty = {}
LEMMA CleanOK ==
  ASSUME NEW i, IndexOK(i)
  PROVE  CleanAs(i, Clean(i))
<1>1. PICK j : j = Clean(i)
  OBVIOUS
<1>2. i \in Indexes /\ i.layers \in [Levels -> Layers] /\ \A l \in Levels : LayerOK(i.layers[l])
  BY DEF IndexOK, Indexes
<1> DEFINE layers == [l \in Levels |-> [i.layers[l] EXCEPT !.dirty = {}]]
<1>3. \A l \in Levels : layers[l] = [links |-> i.layers[l].links, eps |-> i.layers[l].eps, dirty |-> {}]
  BY <1>2 DEF Layers
<1>4. \A l \in Levels : LayerOK(layers[l])
  BY <1>2, <1>3 DEF LayerOK, Layers, NodesOf
<1>5. layers \in [Levels -> Layers]
  BY <1>4 DEF LayerOK
<1>6. j \in Indexes /\ j.layers = layers /\ SameBesides(i, j)
  <2>1. j = [i EXCEPT !.layers = layers]
    BY <1>1 DEF Clean
  <2> HIDE DEF layers
  <2> QED
    BY <2>1, <1>2, <1>5 DEF Indexes, SameBesides
<1>7. IndexOK(j)
  <2> HIDE DEF layers
  <2> QED
    BY <1>4, <1>6 DEF IndexOK, SameBesides, LevelsOf
<1>8. \A l \in Levels : /\ j.layers[l].links = i.layers[l].links /\ j.layers[l].eps = i.layers[l].eps
                        /\ j.layers[l].dirty = {}
  <2>1. \A l \in Levels : j.layers[l] = [links |-> i.layers[l].links, eps |-> i.layers[l].eps, dirty |-> {}]
    <3> HIDE DEF layers
    <3> QED
      BY <1>3, <1>6
  <2> SUFFICES ASSUME NEW l \in Levels
               PROVE  /\ j.layers[l].links = i.layers[l].links /\ j.layers[l].eps = i.layers[l].eps
                      /\ j.layers[l].dirty = {}
    OBVIOUS
  <2>2. PICK a, b : a = i.layers[l].links /\ b = i.layers[l].eps
    OBVIOUS
  <2>3. PICK M : M = [links |-> a, eps |-> b, dirty |-> {}]
    OBVIOUS
  <2>4. j.layers[l] = M
    BY <2>1, <2>2, <2>3
  <2>5. M.links = a /\ M.eps = b /\ M.dirty = {}
    BY <2>3
  <2> QED
    BY <2>2, <2>4, <2>5, Zenon
<1>9. Numbered(i) => Numbered(j)
  BY <1>6, <1>8 DEF Numbered, SameBesides, NodesOf
<1>10. CleanAs(i, j)
  BY <1>6, <1>7, <1>8, <1>9 DEF CleanAs
<1> QED
  BY <1>1, <1>10

-----------------------------------------------------------------------------
(* The vector index: the tables *)

\* The tables: vectors by id, rows of nodes by level, entry points, the next id.
IndexFiles == [stored : VectorMaps, rows : [Levels -> LinkMaps], entry : Seq(Nat), next : Nat \ {0}]
FileOK(d) ==
  /\ d \in IndexFiles
  /\ DOMAIN d.stored \subseteq 1..(d.next - 1)
  /\ \A l \in Levels : IsFiniteSet(DOMAIN d.rows[l])

\* A vector is stored.
StoredIn(d, id, p, e) ==
  /\ FileOK(e) /\ e.rows = d.rows /\ e.entry = d.entry /\ e.next = id + 1
  /\ e.stored = With(d.stored, id, p) /\ DOMAIN e.stored = DOMAIN d.stored \cup {id}
LEMMA StoreOK ==
  ASSUME NEW d, FileOK(d), NEW id \in Nat, d.next <= id, NEW p \in Nat
  PROVE  StoredIn(d, id, p, Store(d, id, p))
<1>1. PICK e : e = Store(d, id, p)
  OBVIOUS
<1>2. PICK vectors : vectors = With(d.stored, id, p)
  OBVIOUS
<1>3. d \in IndexFiles /\ d.next \in Nat \ {0} /\ d.stored \in VectorMaps
  BY DEF FileOK, IndexFiles
<1>4. id \in Nat \ {0}
  BY <1>3
<1>5. vectors \in VectorMaps /\ DOMAIN vectors = DOMAIN d.stored \cup {id}
  BY <1>2, <1>3, <1>4, WithVector DEF With
<1>6. e = [d EXCEPT !.stored = vectors, !.next = id + 1]
  BY <1>1, <1>2 DEF Store
<1>7. /\ e \in IndexFiles /\ e.rows = d.rows /\ e.entry = d.entry /\ e.next = id + 1 /\ e.stored = vectors
  <2>1. PICK c : c = id + 1
    OBVIOUS
  <2>2. c \in Nat \ {0}
    BY <2>1, <1>4
  <2>3. e = [d EXCEPT !.stored = vectors, !.next = c]
    BY <2>1, <1>6
  <2>4. /\ e \in IndexFiles /\ e.rows = d.rows /\ e.entry = d.entry /\ e.next = c /\ e.stored = vectors
    BY <2>2, <2>3, <1>3, <1>5 DEF IndexFiles
  <2> QED
    BY <2>1, <2>4
<1>8. DOMAIN vectors \subseteq 1..id
  <2>1. DOMAIN d.stored \subseteq 1..(d.next - 1)
    BY DEF FileOK
  <2> QED
    BY <2>1, <1>3, <1>4, <1>5
<1>9. DOMAIN e.stored \subseteq 1..(e.next - 1)
  <2>1. (id + 1) - 1 = id
    OBVIOUS
  <2> QED
    BY <1>7, <1>8, <2>1
<1>10. FileOK(e)
  BY <1>7, <1>9 DEF FileOK
<1>11. StoredIn(d, id, p, e)
  BY <1>2, <1>5, <1>7, <1>10 DEF StoredIn
<1> QED
  BY <1>1, <1>11

\* The links are saved.
SavedAs(i, d, e) ==
  /\ FileOK(e) /\ e.stored = d.stored /\ e.next = d.next /\ e.entry = i.eps
  /\ \A l \in Levels :
       /\ DOMAIN e.rows[l] = DOMAIN d.rows[l] \cup i.layers[l].dirty
       /\ \A n \in i.layers[l].dirty : e.rows[l][n] = i.layers[l].links[n]
       /\ \A n \in DOMAIN d.rows[l] \ i.layers[l].dirty : e.rows[l][n] = d.rows[l][n]
LEMMA SavedOK ==
  ASSUME NEW i, IndexOK(i), NEW d, FileOK(d)
  PROVE  SavedAs(i, d, Saved(i, d))
<1>1. PICK e : e = Saved(i, d)
  OBVIOUS
<1> DEFINE row(l) == [n \in SavedNodes(i, d, l) |->
                        IF n \in i.layers[l].dirty THEN i.layers[l].links[n] ELSE d.rows[l][n]]
           rows == [l \in Levels |-> row(l)]
<1>2. d \in IndexFiles /\ i.eps \in Seq(Nat)
  BY DEF FileOK, IndexOK, Indexes
<1>3. ASSUME NEW l \in Levels
      PROVE  /\ row(l) \in LinkMaps /\ IsFiniteSet(DOMAIN row(l))
             /\ DOMAIN row(l) = DOMAIN d.rows[l] \cup i.layers[l].dirty
             /\ \A n \in i.layers[l].dirty : row(l)[n] = i.layers[l].links[n]
             /\ \A n \in DOMAIN d.rows[l] \ i.layers[l].dirty : row(l)[n] = d.rows[l][n]
  <2>1. /\ LayerOK(i.layers[l]) /\ d.rows[l] \in LinkMaps /\ IsFiniteSet(DOMAIN d.rows[l])
    BY <1>2 DEF IndexOK, FileOK, IndexFiles
  <2>2. /\ i.layers[l].links \in LinkMaps /\ i.layers[l].dirty \subseteq NodesOf(i.layers[l])
        /\ IsFiniteSet(NodesOf(i.layers[l]))
    BY <2>1 DEF LayerOK, Layers
  <2>3. \A n \in NodesOf(i.layers[l]) : n \in Nat /\ i.layers[l].links[n] \subseteq Nat
    BY <2>2, LinkMapFacts DEF NodesOf
  <2>4. \A n \in DOMAIN d.rows[l] : n \in Nat /\ d.rows[l][n] \subseteq Nat
    BY <2>1, LinkMapFacts
  <2>5. SavedNodes(i, d, l) = DOMAIN d.rows[l] \cup i.layers[l].dirty
    BY DEF SavedNodes
  <2>6. IsFiniteSet(SavedNodes(i, d, l))
    <3>1. IsFiniteSet(i.layers[l].dirty)
      BY <2>2, FS_Subset
    <3> QED
      BY <2>1, <2>5, <3>1, FS_Union
  <2>7. SavedNodes(i, d, l) \subseteq Nat
    BY <2>2, <2>3, <2>4, <2>5
  <2>8. row(l) \in [SavedNodes(i, d, l) -> SUBSET Nat]
    <3> SUFFICES ASSUME NEW n \in SavedNodes(i, d, l)
                 PROVE  (IF n \in i.layers[l].dirty THEN i.layers[l].links[n] ELSE d.rows[l][n]) \in SUBSET Nat
      OBVIOUS
    <3> QED
      BY <2>2, <2>3, <2>4, <2>5
  <2>9. row(l) \in LinkMaps
    <3>1. PICK g : g = row(l)
      OBVIOUS
    <3>2. g \in LinkMaps
      BY <3>1, <2>7, <2>8, LinkMapFacts
    <3> QED
      BY <3>1, <3>2
  <2> QED
    BY <2>5, <2>6, <2>9
<1>4. rows \in [Levels -> LinkMaps]
  <2> HIDE DEF row
  <2> QED
    BY <1>3
<1>5. /\ e \in IndexFiles /\ e.stored = d.stored /\ e.next = d.next /\ e.entry = i.eps /\ e.rows = rows
  <2>1. e = [d EXCEPT !.rows = rows, !.entry = i.eps]
    BY <1>1 DEF Saved
  <2> HIDE DEF rows
  <2> QED
    BY <2>1, <1>2, <1>4 DEF IndexFiles
<1>6. \A l \in Levels : e.rows[l] = row(l)
  BY <1>5
<1> HIDE DEF row, rows
<1>7. FileOK(e)
  BY <1>3, <1>5, <1>6 DEF FileOK
<1>8. SavedAs(i, d, e)
  BY <1>3, <1>5, <1>6, <1>7 DEF SavedAs
<1> QED
  BY <1>1, <1>8

\* An index as it is made.
NewAs(multi, ml, i) ==
  /\ IndexOK(i) /\ Numbered(i) /\ i.multi = multi /\ i.ml = ml
  /\ \A l \in Levels : i.layers[l] = EmptyLayer /\ i.maps[l] = <<>>
  /\ i.eps = <<>> /\ i.count = 0 /\ i.cache = NoVectors
LEMMA NewIndexOK ==
  ASSUME NEW multi \in BOOLEAN, NEW ml \in 1..16,
         multi => LevelsOf([multi |-> multi, ml |-> ml]) \subseteq Levels
  PROVE  NewAs(multi, ml, NewIndex(multi, ml))
<1>1. PICK i : i = NewIndex(multi, ml)
  OBVIOUS
<1> DEFINE layers == [l \in Levels |-> EmptyLayer]
           maps == [l \in Levels |-> <<>>]
<1>2. /\ i.multi = multi /\ i.ml = ml /\ i.layers = layers /\ i.eps = <<>> /\ i.count = 0
      /\ i.cache = NoVectors /\ i.maps = maps
  BY <1>1 DEF NewIndex
<1>3. NoVectors \in VectorMaps
  <2>1. NoVectors \in [{} -> Nat]
    BY DEF NoVectors
  <2> QED
    BY <2>1, VectorMapFacts
<1>4. layers \in [Levels -> Layers]
  BY EmptyLayerOK DEF LayerOK
<1>5. <<>> \in Seq(Nat) /\ maps \in [Levels -> Seq(Nat)] /\ 0 \in Nat
  OBVIOUS
<1>6. i \in Indexes
  <2>1. i = [multi |-> multi, ml |-> ml, layers |-> layers, eps |-> <<>>, count |-> 0,
             cache |-> NoVectors, maps |-> maps]
    BY <1>1 DEF NewIndex
  <2> HIDE DEF layers, maps
  <2> QED
    BY <2>1, <1>3, <1>4, <1>5 DEF Indexes
<1>7. \A l \in Levels : i.layers[l] = EmptyLayer /\ i.maps[l] = <<>>
  BY <1>2
<1>8. IndexOK(i)
  BY <1>2, <1>6, <1>7, EmptyLayerOK DEF IndexOK, LevelsOf
<1>9. Numbered(i)
  <2>1. Len(<<>>) - 1 = -1 /\ 0..(-1) = {} /\ Range(<<>>) = {}
    BY DEF Range
  <2> QED
    BY <2>1, <1>7, EmptyLayerOK DEF Numbered
<1>10. NewAs(multi, ml, i)
  BY <1>2, <1>7, <1>8, <1>9 DEF NewAs
<1> QED
  BY <1>1, <1>10

\* The lowest of some nodes are some.
LEMMA LowestOne ==
  ASSUME NEW S, S \subseteq Nat, S # {}, NEW k \in Nat \ {0}
  PROVE  Lowest(S, k) # {}
<1>1. PICK x \in S : \A y \in S : x <= y
  BY LeastNatural
<1>2. {y \in S : y < x} = {}
  <2> SUFFICES ASSUME NEW y \in S, y < x PROVE FALSE
    OBVIOUS
  <2>1. x \in Nat /\ y \in Nat /\ x <= y
    BY <1>1
  <2> QED
    BY <2>1
<1>3. Cardinality({y \in S : y < x}) < k
  BY <1>2, FS_EmptySet
<1> QED
  BY <1>3 DEF Lowest

\* A layer as it is read back.
LEMMA RestoredLayerOK ==
  ASSUME NEW rows \in LinkMaps, IsFiniteSet(DOMAIN rows), NEW level,
         NEW L, L = RestoredLayer(rows, level)
  PROVE  /\ LayerOK(L) /\ NodesOf(L) = DOMAIN rows /\ L.dirty = {}
         /\ DOMAIN rows # {} => L.eps # {}
<1>1. DOMAIN rows \subseteq Nat
  BY LinkMapFacts
<1> DEFINE links == [n \in DOMAIN rows |-> RestoredLinks(rows, n, level)]
           eps == Lowest(DOMAIN rows, Width(level))
<1>2. \A n \in DOMAIN rows : RestoredLinks(rows, n, level) \subseteq DOMAIN rows
  BY LowestFact DEF RestoredLinks, Lowest
<1>3. eps \subseteq DOMAIN rows
  BY LowestFact
<1>4. L = [links |-> links, eps |-> eps, dirty |-> {}]
  BY DEF RestoredLayer
<1>5. links \in [DOMAIN rows -> SUBSET Nat] /\ \A n \in DOMAIN rows : links[n] \subseteq DOMAIN rows
  BY <1>1, <1>2
<1>6. DOMAIN rows # {} => eps # {}
  BY <1>1, WidthFact, LowestOne
<1>7. LayerOK(L)
  <2>1. PICK S : S = DOMAIN rows
    OBVIOUS
  <2> HIDE DEF links, eps
  <2>2. LayerOK([links |-> links, eps |-> eps, dirty |-> {}])
    BY <2>1, <1>1, <1>3, <1>5, LayerIs
  <2> QED
    BY <2>2, <1>4
<1>8. NodesOf(L) = DOMAIN rows
  BY <1>4 DEF NodesOf
<1> QED
  BY <1>4, <1>6, <1>7, <1>8

\* An index as it is read back.
RestoredAs(d, low, i) ==
  /\ IndexOK(i) /\ Numbered(i) /\ ~i.multi /\ i.ml = LoadedMl
  /\ \A l \in Levels : i.layers[l] = RestoredLayer(d.rows[l], l)
  /\ i.eps = d.entry /\ i.count = Cardinality(DOMAIN d.rows[0])
  /\ i.cache = IF low THEN NoVectors ELSE d.stored
LEMMA RestoredOK ==
  ASSUME NEW d, FileOK(d), NEW low \in BOOLEAN
  PROVE  RestoredAs(d, low, Restored(d, low))
<1>1. PICK i : i = Restored(d, low)
  OBVIOUS
<1>2. PICK b : b = NewIndex(FALSE, LoadedMl)
  OBVIOUS
<1>3. LoadedMl \in 1..16
  BY DEF LoadedMl
<1>4. NewAs(FALSE, LoadedMl, b)
  BY <1>2, <1>3, NewIndexOK
<1>5. b \in Indexes /\ ~b.multi /\ b.ml = LoadedMl /\ b.cache = NoVectors
  BY <1>4 DEF NewAs, IndexOK
<1> DEFINE layers == [l \in Levels |-> RestoredLayer(d.rows[l], l)]
           cache == IF low THEN NoVectors ELSE d.stored
           count == Cardinality(DOMAIN d.rows[0])
<1>6. i = [b EXCEPT !.layers = layers, !.eps = d.entry, !.count = count, !.cache = cache]
  BY <1>1, <1>2 DEF Restored
<1>7. d \in IndexFiles
  BY DEF FileOK
<1>8. \A l \in Levels : LayerOK(layers[l])
  BY <1>7, RestoredLayerOK DEF FileOK, IndexFiles
<1>9. layers \in [Levels -> Layers]
  BY <1>8 DEF LayerOK
<1>10. cache \in VectorMaps /\ d.entry \in Seq(Nat) /\ count \in Nat
  <2>1. IsFiniteSet(DOMAIN d.rows[0])
    BY LevelFacts DEF FileOK
  <2> QED
    BY <2>1, <1>5, <1>7, FS_CardinalityType DEF IndexFiles, Indexes
<1>11. /\ i \in Indexes /\ ~i.multi /\ i.ml = LoadedMl /\ i.layers = layers /\ i.eps = d.entry
       /\ i.count = count /\ i.cache = cache
  <2> HIDE DEF layers, cache, count
  <2> QED
    BY <1>5, <1>6, <1>9, <1>10 DEF Indexes
<1>12. \A l \in Levels : i.layers[l] = RestoredLayer(d.rows[l], l)
  BY <1>11
<1>13. IndexOK(i) /\ Numbered(i)
  <2> HIDE DEF layers
  <2> QED
    BY <1>8, <1>11 DEF IndexOK, Numbered
<1>14. RestoredAs(d, low, i)
  BY <1>11, <1>12, <1>13 DEF RestoredAs
<1> QED
  BY <1>1, <1>14

\* An index a vector is removed from.
RemovedAs(i, id, n, j) ==
  /\ IndexOK(j) /\ (Numbered(i) => Numbered(j))
  /\ j.multi = i.multi /\ j.ml = i.ml /\ j.cache = i.cache /\ j.maps = i.maps
  /\ \A l \in Levels : j.layers[l] = RemoveNode(i.layers[l], n)
  /\ j.eps = Without(i.eps, id)
WithRemoved(i, id, n) ==
  [i EXCEPT !.layers = [l \in Levels |-> RemoveNode(@[l], n)],
            !.eps = Without(@, id),
            !.count = IF @ = 0 THEN 0 ELSE @ - 1]
LEMMA RemovedOK ==
  ASSUME NEW i, IndexOK(i), NEW id, NEW n
  PROVE  RemovedAs(i, id, n, WithRemoved(i, id, n))
<1>1. PICK j : j = WithRemoved(i, id, n)
  OBVIOUS
<1>2. i \in Indexes
  BY DEF IndexOK
<1> DEFINE layers == [l \in Levels |-> RemoveNode(i.layers[l], n)]
           count == IF i.count = 0 THEN 0 ELSE i.count - 1
<1>3. PICK e : e = Without(i.eps, id)
  OBVIOUS
<1>4. e \in Seq(Nat) /\ count \in Nat
  BY <1>2, <1>3, WithoutFacts DEF Indexes
<1>5. \A l \in Levels : LayerOK(layers[l]) /\ NodesOf(layers[l]) = NodesOf(i.layers[l])
  BY RemoveNodeOK DEF IndexOK
<1>6. layers \in [Levels -> Layers]
  BY <1>5 DEF LayerOK
<1>7. j = [i EXCEPT !.layers = layers, !.eps = e, !.count = count]
  BY <1>1, <1>3 DEF WithRemoved
<1>8. /\ j \in Indexes /\ j.multi = i.multi /\ j.ml = i.ml /\ j.cache = i.cache /\ j.maps = i.maps
      /\ j.layers = layers /\ j.eps = e
  <2> HIDE DEF layers, count
  <2> QED
    BY <1>2, <1>4, <1>6, <1>7 DEF Indexes
<1>9. \A l \in Levels : j.layers[l] = RemoveNode(i.layers[l], n)
  BY <1>8
<1>10. IndexOK(j) /\ (Numbered(i) => Numbered(j))
  <2> HIDE DEF layers
  <2> QED
    BY <1>5, <1>8 DEF IndexOK, Numbered, LevelsOf
<1>11. RemovedAs(i, id, n, j)
  BY <1>3, <1>8, <1>9, <1>10 DEF RemovedAs
<1> QED
  BY <1>1, <1>11

\* An index built anew, vector by vector.
RebuildStart == [index |-> NewIndex(FALSE, LoadedMl), pruned |-> FALSE]
RebuildStep(d, id, x) ==
  IF id \notin DOMAIN d.stored THEN x
  ELSE [index  |-> AddVector(x.index, id, d.stored[id], 0).index,
        pruned |-> x.pruned \/ Shrinks(x.index, AddVector(x.index, id, d.stored[id], 0).index)]
RebuiltUpTo(f, d, m) ==
  f = [id \in 0..m |-> IF id = 0 THEN RebuildStart ELSE RebuildStep(d, id, f[id - 1])]
LEMMA RebuiltExists ==
  ASSUME NEW d, NEW m0 \in Nat
  PROVE  \E f : RebuiltUpTo(f, d, m0)
<1> DEFINE Bad == {m \in 0..m0 : \A f : ~RebuiltUpTo(f, d, m)}
<1> SUFFICES ASSUME m0 \in Bad PROVE FALSE
  OBVIOUS
<1>1. Bad \subseteq Nat /\ Bad # {}
  OBVIOUS
<1>2. PICK m \in Bad : \A y \in Bad : m <= y
  <2> HIDE DEF Bad
  <2> QED
    BY <1>1, LeastNatural
<1>3. m \in 0..m0 /\ \A f : ~RebuiltUpTo(f, d, m)
  BY <1>2
<1>4. m # 0
  <2> SUFFICES ASSUME m = 0 PROVE FALSE
    OBVIOUS
  <2> DEFINE f == [k \in 0..0 |-> RebuildStart]
  <2>1. f = [k \in 0..0 |-> IF k = 0 THEN RebuildStart ELSE RebuildStep(d, k, f[k - 1])]
    OBVIOUS
  <2> QED
    BY <2>1, <1>3 DEF RebuiltUpTo
<1>5. m - 1 \in 0..m0 /\ ~(m <= m - 1)
  BY <1>3, <1>4
<1>6. PICK g : RebuiltUpTo(g, d, m - 1)
  BY <1>2, <1>5
<1> DEFINE f == [k \in 0..m |-> IF k = m THEN RebuildStep(d, m, g[m - 1]) ELSE g[k]]
<1>7. \A k \in 0..(m - 1) : g[k] = IF k = 0 THEN RebuildStart ELSE RebuildStep(d, k, g[k - 1])
  BY <1>6 DEF RebuiltUpTo
<1>8. ASSUME NEW k \in 0..m
      PROVE  f[k] = IF k = 0 THEN RebuildStart ELSE RebuildStep(d, k, f[k - 1])
  <2>1. CASE k = m
    <3>1. m - 1 \in 0..m /\ m - 1 # m
      BY <1>3, <1>4
    <3>2. f[m - 1] = g[m - 1]
      BY <3>1
    <3> QED
      BY <3>2, <2>1, <1>4
  <2>2. CASE k # m
    <3>1. k \in 0..(m - 1) /\ f[k] = g[k]
      BY <2>2, <1>3
    <3>2. k # 0 => k - 1 \in 0..m /\ k - 1 # m /\ f[k - 1] = g[k - 1]
      BY <3>1, <1>3
    <3> QED
      BY <3>1, <3>2, <1>7
  <2> QED
    BY <2>1, <2>2
<1>9. RebuiltUpTo(f, d, m)
  <2>1. f = [k \in 0..m |-> f[k]]
    OBVIOUS
  <2> HIDE DEF f
  <2> QED
    BY <2>1, <1>8 DEF RebuiltUpTo
<1> QED
  BY <1>9, <1>3

Rebuilds(f, d) ==
  /\ f[0] = RebuildStart
  /\ \A id \in 1..(d.next - 1) : f[id] = RebuildStep(d, id, f[id - 1])
  /\ Rebuilt(d) = [f[d.next - 1] EXCEPT !.index = Clean(@)]
LEMMA RebuildSteps ==
  ASSUME NEW d, FileOK(d)
  PROVE  \E f : Rebuilds(f, d)
<1> DEFINE m == d.next - 1
<1>0. m \in Nat
  BY DEF FileOK, IndexFiles
<1>1. 0 \in 0..m /\ \A k \in 1..m : k \in 0..m /\ k # 0
  BY <1>0
<1>2. PICK g : g = CHOOSE h : RebuiltUpTo(h, d, m)
  OBVIOUS
<1>3. RebuiltUpTo(g, d, m)
  <2>1. \E f : RebuiltUpTo(f, d, m)
    <3> HIDE DEF m
    <3> QED
      BY <1>0, RebuiltExists
  <2> QED
    BY <2>1, <1>2, Zenon
<1>4. Rebuilt(d) = [g[m] EXCEPT !.index = Clean(@)]
  BY <1>2 DEF Rebuilt, RebuiltUpTo, RebuildStart, RebuildStep
<1>5. \A k \in 0..m : g[k] = IF k = 0 THEN RebuildStart ELSE RebuildStep(d, k, g[k - 1])
  BY <1>3 DEF RebuiltUpTo
<1>6. g[0] = RebuildStart
  BY <1>1, <1>5
<1>7. \A k \in 1..m : g[k] = RebuildStep(d, k, g[k - 1])
  BY <1>1, <1>5
<1>8. Rebuilds(g, d)
  BY <1>4, <1>6, <1>7 DEF Rebuilds
<1> QED
  BY <1>8

\* An index built anew is an index, and caches only what is stored.
RebuiltFrom(d, x) ==
  /\ IndexOK(x.index) /\ Numbered(x.index) /\ ~x.index.multi /\ x.index.ml = LoadedMl
  /\ DOMAIN x.index.cache \subseteq DOMAIN d.stored
  /\ x = [index |-> x.index, pruned |-> x.pruned]
LEMMA RebuildStepOK ==
  ASSUME NEW d, FileOK(d), NEW id \in 1..(d.next - 1), NEW x, RebuiltFrom(d, x)
  PROVE  RebuiltFrom(d, RebuildStep(d, id, x))
<1>1. PICK y : y = RebuildStep(d, id, x)
  OBVIOUS
<1>2. CASE id \notin DOMAIN d.stored
  BY <1>1, <1>2 DEF RebuildStep
<1>3. CASE id \in DOMAIN d.stored
  <2>1. PICK i : i = x.index
    OBVIOUS
  <2>2. PICK p : p = d.stored[id]
    OBVIOUS
  <2>3. PICK r : r = AddVector(i, id, p, 0)
    OBVIOUS
  <2>4. d \in IndexFiles /\ id \in Nat \ {0}
    BY DEF FileOK, IndexFiles
  <2>5. p \in Nat
    BY <2>2, <2>4, <1>3, VectorMapFacts DEF IndexFiles
  <2>6. IndexOK(i) /\ Numbered(i) /\ ~i.multi /\ i.ml = LoadedMl /\ DOMAIN i.cache \subseteq DOMAIN d.stored
    BY <2>1 DEF RebuiltFrom
  <2>7. 0 \in LevelsOf(i)
    BY <2>6 DEF LevelsOf
  <2>8. AddedAs(i, id, p, 0, r)
    BY <2>3, <2>4, <2>5, <2>6, <2>7, AddVectorOK
  <2>9. IndexOK(r.index) /\ r.index.multi = i.multi /\ r.index.ml = i.ml /\ r.index.cache = With(i.cache, id, p)
    BY <2>8 DEF AddedAs
  <2>10. DOMAIN r.index.cache \subseteq DOMAIN d.stored
    BY <2>6, <2>9, <1>3 DEF With
  <2>11. y = [index |-> r.index, pruned |-> x.pruned \/ Shrinks(i, r.index)]
    BY <2>1, <2>2, <2>3, <1>1, <1>3 DEF RebuildStep
  <2>12. y.index = r.index /\ y = [index |-> y.index, pruned |-> y.pruned]
    BY <2>11
  <2>13. RebuiltFrom(d, y)
    BY <2>6, <2>9, <2>10, <2>12 DEF RebuiltFrom, Numbered
  <2> QED
    BY <2>13, <1>1
<1> QED
  BY <1>2, <1>3

LEMMA RebuildAll ==
  ASSUME NEW d, FileOK(d), NEW f, Rebuilds(f, d)
  PROVE  \A k \in 0..(d.next - 1) : RebuiltFrom(d, f[k])
<1> DEFINE N == d.next - 1
           Bad == {k \in 0..N : ~RebuiltFrom(d, f[k])}
<1>0. N \in Nat
  BY DEF FileOK, IndexFiles
<1>1. ASSUME Bad # {} PROVE FALSE
  <2>1. Bad \subseteq Nat
    OBVIOUS
  <2>2. PICK m \in Bad : \A y \in Bad : m <= y
    <3> HIDE DEF Bad
    <3> QED
      BY <2>1, <1>1, LeastNatural
  <2>3. m \in 0..N /\ ~RebuiltFrom(d, f[m])
    BY <2>2
  <2>4. m # 0
    <3>1. f[0] = RebuildStart
      BY DEF Rebuilds
    <3>2. NewAs(FALSE, LoadedMl, NewIndex(FALSE, LoadedMl))
      <4>1. LoadedMl \in 1..16
        BY DEF LoadedMl
      <4> QED
        BY <4>1, NewIndexOK
    <3>3. PICK i : i = NewIndex(FALSE, LoadedMl)
      OBVIOUS
    <3>4. IndexOK(i) /\ Numbered(i) /\ ~i.multi /\ i.ml = LoadedMl /\ DOMAIN i.cache = {}
      BY <3>2, <3>3 DEF NewAs, NoVectors
    <3>5. RebuiltFrom(d, f[0])
      <4>1. f[0] = [index |-> i, pruned |-> FALSE]
        BY <3>1, <3>3 DEF RebuildStart
      <4>2. PICK x : x = f[0]
        OBVIOUS
      <4>3. x.index = i /\ x.pruned = FALSE
        BY <4>1, <4>2
      <4>4. x = [index |-> x.index, pruned |-> x.pruned]
        BY <4>1, <4>2, <4>3
      <4>5. RebuiltFrom(d, x)
        BY <3>4, <4>3, <4>4 DEF RebuiltFrom
      <4> QED
        BY <4>2, <4>5
    <3> QED
      BY <2>3, <3>5
  <2>5. m \in 1..N /\ m - 1 \in 0..N /\ ~(m <= m - 1)
    BY <2>3, <2>4, <1>0
  <2>6. RebuiltFrom(d, f[m - 1])
    BY <2>2, <2>5
  <2>7. f[m] = RebuildStep(d, m, f[m - 1])
    BY <2>5 DEF Rebuilds
  <2>8. RebuiltFrom(d, f[m])
    BY <2>5, <2>6, <2>7, RebuildStepOK
  <2> QED
    BY <2>3, <2>8
<1> QED
  BY <1>1

LEMMA RebuiltOK ==
  ASSUME NEW d, FileOK(d)
  PROVE  \E x : /\ RebuiltFrom(d, x) /\ CleanAs(x.index, Rebuilt(d).index) /\ Rebuilt(d).pruned = x.pruned
                /\ (DOMAIN d.stored = {} => x = RebuildStart)
                /\ \E f : Rebuilds(f, d) /\ x = f[d.next - 1]
<1>0. d.next - 1 \in Nat /\ d.next - 1 \in 0..(d.next - 1)
  BY DEF FileOK, IndexFiles
<1>1. PICK f : Rebuilds(f, d)
  BY RebuildSteps
<1>2. PICK x : x = f[d.next - 1]
  OBVIOUS
<1>3. RebuiltFrom(d, x)
  BY <1>0, <1>1, <1>2, RebuildAll
<1>4. Rebuilt(d) = [x EXCEPT !.index = Clean(@)]
  BY <1>1, <1>2 DEF Rebuilds
<1>5. Rebuilt(d) = [index |-> Clean(x.index), pruned |-> x.pruned]
  <2>1. x = [index |-> x.index, pruned |-> x.pruned]
    BY <1>3 DEF RebuiltFrom
  <2>2. PICK i, b : i = x.index /\ b = x.pruned
    OBVIOUS
  <2>3. x = [index |-> i, pruned |-> b]
    BY <2>1, <2>2
  <2>4. PICK j : j = Clean(i)
    OBVIOUS
  <2>5. [x EXCEPT !.index = j] = [index |-> j, pruned |-> b]
    BY <2>3
  <2> QED
    BY <1>4, <2>2, <2>4, <2>5
<1>6. CleanAs(x.index, Rebuilt(d).index) /\ Rebuilt(d).pruned = x.pruned
  <2>1. CleanAs(x.index, Clean(x.index))
    BY <1>3, CleanOK DEF RebuiltFrom
  <2> QED
    BY <2>1, <1>5
<1>7. ASSUME DOMAIN d.stored = {} PROVE x = RebuildStart
  <2> DEFINE Bad == {k \in 0..(d.next - 1) : f[k] # RebuildStart}
  <2>1. ASSUME Bad # {} PROVE FALSE
    <3>1. Bad \subseteq Nat
      OBVIOUS
    <3>2. PICK m \in Bad : \A y \in Bad : m <= y
      <4> HIDE DEF Bad
      <4> QED
        BY <3>1, <2>1, LeastNatural
    <3>3. m \in 0..(d.next - 1) /\ f[m] # RebuildStart
      BY <3>2
    <3>4. m # 0
      BY <3>3, <1>1 DEF Rebuilds
    <3>5. m \in 1..(d.next - 1) /\ m - 1 \in 0..(d.next - 1) /\ ~(m <= m - 1)
      BY <3>3, <3>4, <1>0
    <3>6. f[m - 1] = RebuildStart /\ f[m] = RebuildStep(d, m, f[m - 1])
      BY <3>2, <3>5, <1>1 DEF Rebuilds
    <3>7. f[m] = f[m - 1]
      BY <3>6, <1>7 DEF RebuildStep
    <3> QED
      BY <3>3, <3>6, <3>7
  <2> QED
    BY <2>1, <1>0, <1>2
<1> QED
  BY <1>1, <1>2, <1>3, <1>6, <1>7

-----------------------------------------------------------------------------
(* The vector index: what is saved *)

\* Every node is saved as it is, or marked.
NodesSaved(i, d) ==
  \A l \in Levels :
    /\ DOMAIN d.rows[l] \subseteq NodesOf(i.layers[l])
    /\ \A n \in NodesOf(i.layers[l]) \ i.layers[l].dirty :
         n \in DOMAIN d.rows[l] /\ d.rows[l][n] = i.layers[l].links[n]

\* The entry points, in memory and saved, are nodes of the base layer.
EntriesSaved(i, d) ==
  /\ \A id \in Range(i.eps) : \E n \in NodesOf(i.layers[0]) : id \in GlobalIds(i, 0, n)
  /\ \A id \in Range(d.entry) : \E n \in DOMAIN d.rows[0] : id \in GlobalIds(i, 0, n)
AllClean(i) == \A l \in Levels : i.layers[l].dirty = {}
Written(i, d) ==
  /\ NodesSaved(i, d)
  /\ EntriesSaved(i, d)
  /\ AllClean(i) => d.entry = i.eps

\* A vector changes a layer by a new node, or not.
LayersGrow(i, j, id) ==
  \A l \in Levels : j.layers[l] = i.layers[l] \/ Grown(i.layers[l], j.layers[l], NewNode(i, id, l))
LEMMA AddedGrows ==
  ASSUME NEW i, NEW id, NEW p, NEW level \in Nat, NEW r, AddedAs(i, id, p, level, r)
  PROVE  /\ LayersGrow(i, r.index, id)
         /\ r.ok => Grown(i.layers[0], r.index.layers[0], NewNode(i, id, 0))
<1>1. r.ok => Growth(i, r.index, id, 0, level)
  BY DEF AddedAs
<1>2. ~r.ok => Growth(i, r.index, id, 0, 0) \/ \A l \in Levels : r.index.layers[l] = i.layers[l]
  BY DEF AddedAs
<1>3. r.ok \in BOOLEAN
  BY DEF AddedAs
<1>4. LayersGrow(i, r.index, id)
  BY <1>1, <1>2, <1>3 DEF Growth, LayersGrow
<1>5. 0 \in Levels /\ 0 <= 0 /\ 0 <= level
  BY LevelFacts
<1> QED
  BY <1>1, <1>4, <1>5 DEF Growth

LEMMA RangeAppend ==
  ASSUME NEW s \in Seq(Nat), NEW id
  PROVE  Range(Append(s, id)) = Range(s) \cup {id}
<1>1. /\ DOMAIN Append(s, id) = DOMAIN s \cup {Len(s) + 1} /\ Append(s, id)[Len(s) + 1] = id
      /\ \A k \in DOMAIN s : Append(s, id)[k] = s[k]
  OBVIOUS
<1> QED
  BY <1>1 DEF Range

LEMMA WrittenAdded ==
  ASSUME NEW i, IndexOK(i), Numbered(i), NEW id \in Nat \ {0}, NEW p \in Nat, NEW level \in LevelsOf(i),
         NEW r, AddedAs(i, id, p, level, r), NEW d, Written(i, d)
  PROVE  Written(r.index, d)
<1>1. PICK j : j = r.index
  OBVIOUS
<1>2. level \in Nat /\ 0 \in Levels
  BY LevelsUpTo, LevelFacts
<1>3. LayersGrow(i, j, id) /\ (r.ok => Grown(i.layers[0], j.layers[0], NewNode(i, id, 0)))
  BY <1>1, <1>2, AddedGrows
<1>4. KeepsIds(i, j) /\ id \in GlobalIds(j, 0, NewNode(i, id, 0))
  BY <1>1, <1>2, AddedNumbers DEF AddedIn
<1>5. NodesSaved(j, d)
  <2> SUFFICES ASSUME NEW l \in Levels
               PROVE  /\ DOMAIN d.rows[l] \subseteq NodesOf(j.layers[l])
                      /\ \A n \in NodesOf(j.layers[l]) \ j.layers[l].dirty :
                           n \in DOMAIN d.rows[l] /\ d.rows[l][n] = j.layers[l].links[n]
    BY DEF NodesSaved
  <2>1. /\ DOMAIN d.rows[l] \subseteq NodesOf(i.layers[l])
        /\ \A n \in NodesOf(i.layers[l]) \ i.layers[l].dirty :
             n \in DOMAIN d.rows[l] /\ d.rows[l][n] = i.layers[l].links[n]
    BY DEF Written, NodesSaved
  <2>2. CASE j.layers[l] = i.layers[l]
    BY <2>1, <2>2
  <2>3. CASE Grown(i.layers[l], j.layers[l], NewNode(i, id, l))
    <3>1. PICK L, M, m : L = i.layers[l] /\ M = j.layers[l] /\ m = NewNode(i, id, l)
      OBVIOUS
    <3>2. /\ NodesOf(M) = NodesOf(L) \cup {m} /\ L.dirty \cup {m} \subseteq M.dirty
          /\ \A x \in NodesOf(L) : x \notin M.dirty => M.links[x] = L.links[x]
      BY <2>3, <3>1 DEF Grown
    <3> QED
      BY <2>1, <3>1, <3>2
  <2> QED
    BY <2>2, <2>3, <1>3 DEF LayersGrow
<1>6. r.ok \in BOOLEAN /\ (~r.ok => j.eps = i.eps)
      /\ (r.ok => j.eps = IF level >= Len(i.eps) THEN Append(i.eps, id) ELSE i.eps)
  BY <1>1 DEF AddedAs
<1>7. NodesOf(i.layers[0]) \subseteq NodesOf(j.layers[0])
  BY <1>2, <1>3 DEF LayersGrow, Grown
<1>8. EntriesSaved(j, d)
  <2>1. \A n \in NodesOf(i.layers[0]) : GlobalIds(i, 0, n) \subseteq GlobalIds(j, 0, n)
    BY <1>2, <1>4 DEF KeepsIds
  <2>2. EntriesSaved(i, d) /\ DOMAIN d.rows[0] \subseteq NodesOf(i.layers[0])
    BY <1>2 DEF Written, NodesSaved
  <2>3. \A e \in Range(i.eps) : \E n \in NodesOf(j.layers[0]) : e \in GlobalIds(j, 0, n)
    BY <2>1, <2>2, <1>7 DEF EntriesSaved
  <2>4. r.ok => \E n \in NodesOf(j.layers[0]) : id \in GlobalIds(j, 0, n)
    BY <1>3, <1>4 DEF Grown
  <2>5. Range(j.eps) \subseteq Range(i.eps) \cup (IF r.ok THEN {id} ELSE {})
    <3>1. i.eps \in Seq(Nat)
      BY DEF IndexOK, Indexes
    <3> QED
      BY <3>1, <1>6, RangeAppend
  <2>6. \A e \in Range(j.eps) : \E n \in NodesOf(j.layers[0]) : e \in GlobalIds(j, 0, n)
    BY <2>3, <2>4, <2>5
  <2>7. \A e \in Range(d.entry) : \E n \in DOMAIN d.rows[0] : e \in GlobalIds(j, 0, n)
    BY <2>1, <2>2 DEF EntriesSaved
  <2> QED
    BY <2>6, <2>7 DEF EntriesSaved
<1>9. AllClean(j) => d.entry = j.eps
  <2> SUFFICES ASSUME AllClean(j) PROVE d.entry = j.eps
    OBVIOUS
  <2>1. \A l \in Levels : j.layers[l] = i.layers[l]
    <3>1. \A l \in Levels : ~Grown(i.layers[l], j.layers[l], NewNode(i, id, l))
      BY DEF AllClean, Grown
    <3> QED
      BY <3>1, <1>3 DEF LayersGrow
  <2>2. ~r.ok
    BY <1>2, <1>3 DEF AllClean, Grown
  <2>3. AllClean(i)
    BY <2>1 DEF AllClean
  <2> QED
    BY <2>2, <2>3, <1>6 DEF Written
<1>10. Written(j, d)
  BY <1>5, <1>8, <1>9 DEF Written
<1> QED
  BY <1>1, <1>10

LEMMA WrittenSaved ==
  ASSUME NEW i, IndexOK(i), NEW d, Written(i, d), NEW e, SavedAs(i, d, e), NEW j, CleanAs(i, j)
  PROVE  Written(j, e)
<1>0. 0 \in Levels
  BY LevelFacts
<1>1. \A l \in Levels : /\ NodesOf(j.layers[l]) = NodesOf(i.layers[l]) /\ j.layers[l].dirty = {}
                        /\ j.layers[l].links = i.layers[l].links
                        /\ i.layers[l].dirty \subseteq NodesOf(i.layers[l])
  BY DEF CleanAs, NodesOf, IndexOK, LayerOK
<1>2. ASSUME NEW l \in Levels
      PROVE  /\ DOMAIN e.rows[l] = NodesOf(i.layers[l])
             /\ \A n \in NodesOf(i.layers[l]) : e.rows[l][n] = i.layers[l].links[n]
  <2>1. PICK D : D = i.layers[l].dirty
    OBVIOUS
  <2>2. /\ DOMAIN d.rows[l] \subseteq NodesOf(i.layers[l])
        /\ \A n \in NodesOf(i.layers[l]) \ D :
             n \in DOMAIN d.rows[l] /\ d.rows[l][n] = i.layers[l].links[n]
    BY <2>1 DEF Written, NodesSaved
  <2>3. /\ DOMAIN e.rows[l] = DOMAIN d.rows[l] \cup D
        /\ \A n \in D : e.rows[l][n] = i.layers[l].links[n]
        /\ \A n \in DOMAIN d.rows[l] \ D : e.rows[l][n] = d.rows[l][n]
    BY <2>1 DEF SavedAs
  <2>4. D \subseteq NodesOf(i.layers[l])
    BY <1>1, <2>1
  <2>5. DOMAIN e.rows[l] = NodesOf(i.layers[l])
    BY <2>2, <2>3, <2>4
  <2>6. \A n \in NodesOf(i.layers[l]) : n \in D \/ (n \in DOMAIN d.rows[l] \ D /\ d.rows[l][n] = i.layers[l].links[n])
    BY <2>2
  <2> QED
    BY <2>3, <2>5, <2>6
<1>3. NodesSaved(j, e)
  BY <1>1, <1>2 DEF NodesSaved
<1>4. e.entry = i.eps /\ j.eps = i.eps /\ j.multi = i.multi /\ j.maps = i.maps
  BY DEF SavedAs, CleanAs, SameBesides
<1>5. \A n : GlobalIds(j, 0, n) = GlobalIds(i, 0, n)
  BY <1>4 DEF GlobalIds
<1>6. EntriesSaved(j, e)
  <2>1. \A id \in Range(i.eps) : \E n \in NodesOf(i.layers[0]) : id \in GlobalIds(i, 0, n)
    BY DEF Written, EntriesSaved
  <2> QED
    BY <2>1, <1>0, <1>1, <1>2, <1>4, <1>5 DEF EntriesSaved
<1> QED
  BY <1>3, <1>4, <1>6 DEF Written

\* persist_topology leaves everything saved, or nothing changed, or nothing
\* marked although nothing was saved.
Persisted(i, d, j, e) ==
  /\ IndexOK(j) /\ Numbered(j) /\ SameBesides(i, j)
  /\ \A l \in Levels : j.layers[l].links = i.layers[l].links /\ j.layers[l].eps = i.layers[l].eps
  /\ FileOK(e) /\ e.stored = d.stored /\ e.next = d.next
  /\ \/ e.entry = d.entry /\ e.rows = d.rows
     \/ /\ e.entry = i.eps
        /\ \A l \in Levels : DOMAIN e.rows[l] \subseteq DOMAIN d.rows[l] \cup NodesOf(i.layers[l])
  /\ Written(i, d) => Written(j, e) \/ "commit lost" \in events'
LEMMA PersistOK ==
  ASSUME NEW i, IndexOK(i), Numbered(i), NEW d, FileOK(d), NEW saved \in SaveOutcomes, Persist(i, d, saved),
         saved = "commit lost" => "commit lost" \in events'
  PROVE  Persisted(i, d, ix', db')
<1>1. CASE saved = "saved"
  <2>1. ix' = Clean(i) /\ db' = Saved(i, d)
    BY <1>1 DEF Persist
  <2>2. CleanAs(i, ix') /\ SavedAs(i, d, db')
    BY <2>1, CleanOK, SavedOK
  <2>3. Written(i, d) => Written(ix', db')
    BY <2>2, WrittenSaved
  <2>4. \A l \in Levels : DOMAIN db'.rows[l] \subseteq DOMAIN d.rows[l] \cup NodesOf(i.layers[l])
    BY <2>2 DEF SavedAs, IndexOK, LayerOK
  <2> QED
    BY <2>2, <2>3, <2>4 DEF Persisted, CleanAs, SavedAs
<1>2. CASE saved = "failed"
  <2>1. ix' = i /\ db' = d
    BY <1>2 DEF Persist
  <2> QED
    BY <2>1 DEF Persisted, SameBesides
<1>3. CASE saved = "commit lost"
  <2>1. ix' = Clean(i) /\ db' = d
    BY <1>3 DEF Persist
  <2>2. CleanAs(i, ix')
    BY <2>1, CleanOK
  <2> QED
    BY <2>1, <2>2, <1>3 DEF Persisted, CleanAs
<1> QED
  BY <1>1, <1>2, <1>3 DEF SaveOutcomes

LEMMA WrittenRemoved ==
  ASSUME NEW i, IndexOK(i), NEW id, NEW n, NEW j, RemovedAs(i, id, n, j), NEW d, Written(i, d),
         id \in Range(i.eps) => n \in NodesOf(i.layers[0])
  PROVE  Written(j, d)
<1>0. 0 \in Levels
  BY LevelFacts
<1>1. ASSUME NEW l \in Levels
      PROVE  /\ NodesOf(j.layers[l]) = NodesOf(i.layers[l]) /\ i.layers[l].dirty \subseteq j.layers[l].dirty
             /\ n \in NodesOf(i.layers[l]) => n \in j.layers[l].dirty
             /\ \A x \in NodesOf(i.layers[l]) \ j.layers[l].dirty : j.layers[l].links[x] = i.layers[l].links[x]
  <2>1. j.layers[l] = RemoveNode(i.layers[l], n) /\ LayerOK(i.layers[l])
    BY DEF RemovedAs, IndexOK
  <2> QED
    BY <2>1, RemoveNodeOK
<1>2. NodesSaved(j, d)
  BY <1>1 DEF Written, NodesSaved
<1>3. j.multi = i.multi /\ j.maps = i.maps /\ j.eps = Without(i.eps, id) /\ i.eps \in Seq(Nat)
  BY DEF RemovedAs, IndexOK, Indexes
<1>4. \A x : GlobalIds(j, 0, x) = GlobalIds(i, 0, x)
  BY <1>3 DEF GlobalIds
<1>5. Range(j.eps) \subseteq Range(i.eps) /\ (id \notin Range(i.eps) => j.eps = i.eps)
  BY <1>3, WithoutFacts
<1>6. EntriesSaved(j, d)
  BY <1>0, <1>1, <1>4, <1>5 DEF Written, EntriesSaved
<1>7. AllClean(j) => d.entry = j.eps
  <2> SUFFICES ASSUME AllClean(j) PROVE d.entry = j.eps
    OBVIOUS
  <2>1. AllClean(i)
    BY <1>1 DEF AllClean
  <2>2. n \notin NodesOf(i.layers[0])
    BY <1>0, <1>1 DEF AllClean
  <2> QED
    BY <2>1, <2>2, <1>5 DEF Written
<1> QED
  BY <1>2, <1>6, <1>7 DEF Written

LEMMA WrittenRestored ==
  ASSUME NEW i, NEW d, FileOK(d), EntriesSaved(i, d),
         i.multi => \A k \in DOMAIN i.maps[0] : i.maps[0][k] = k,
         NEW low, NEW j, RestoredAs(d, low, j), ~Unsaved(j, d)
  PROVE  Written(j, d)
<1>0. 0 \in Levels
  BY LevelFacts
<1>1. \A l \in Levels : d.rows[l] = j.layers[l].links
  BY DEF Unsaved
<1>2. NodesSaved(j, d)
  BY <1>1 DEF NodesSaved, NodesOf
<1>3. ~j.multi /\ j.eps = d.entry
  BY DEF RestoredAs
<1>4. \A n \in DOMAIN d.rows[0] : GlobalIds(i, 0, n) \subseteq GlobalIds(j, 0, n)
  BY <1>3 DEF GlobalIds
<1>5. NodesOf(j.layers[0]) = DOMAIN d.rows[0]
  BY <1>0, <1>1 DEF NodesOf
<1>6. EntriesSaved(j, d)
  BY <1>3, <1>4, <1>5 DEF EntriesSaved
<1> QED
  BY <1>2, <1>3, <1>6 DEF Written

\* Nothing saved, nothing built.
LEMMA WrittenNothing ==
  ASSUME NEW i, NEW d, FileOK(d), EntriesSaved(i, d), ~HasLayers(d), DOMAIN d.stored = {}
  PROVE  Written(Rebuilt(d).index, d)
<1>0. 0 \in Levels
  BY LevelFacts
<1>1. PICK j : j = Rebuilt(d).index
  OBVIOUS
<1>2. PICK x : x = RebuildStart /\ CleanAs(x.index, j)
  BY <1>1, RebuiltOK
<1>3. PICK b : b = NewIndex(FALSE, LoadedMl)
  OBVIOUS
<1>4. NewAs(FALSE, LoadedMl, b)
  <2>1. LoadedMl \in 1..16
    BY DEF LoadedMl
  <2> QED
    BY <2>1, <1>3, NewIndexOK
<1>5. x.index = b
  BY <1>2, <1>3 DEF RebuildStart
<1>6. j.eps = <<>> /\ \A l \in Levels : NodesOf(j.layers[l]) = {}
  <2>1. b.eps = <<>> /\ \A l \in Levels : NodesOf(b.layers[l]) = {}
    BY <1>4, EmptyLayerOK DEF NewAs
  <2> QED
    BY <2>1, <1>2, <1>5 DEF CleanAs, SameBesides, NodesOf
<1>7. \A l \in Levels : DOMAIN d.rows[l] = {}
  BY DEF HasLayers
<1>8. Range(d.entry) = {}
  BY <1>0, <1>7 DEF EntriesSaved
<1>9. d.entry = <<>>
  <2>1. d.entry \in Seq(Nat)
    BY DEF FileOK, IndexFiles
  <2>2. PICK s \in Seq(Nat) : s = d.entry
    BY <2>1
  <2>3. Range(s) = {} => s = <<>>
    <3> SUFFICES ASSUME s # <<>> PROVE Range(s) # {}
      OBVIOUS
    <3>1. 1 \in DOMAIN s
      OBVIOUS
    <3> QED
      BY <3>1 DEF Range
  <2> QED
    BY <2>2, <2>3, <1>8
<1>10. Range(j.eps) = {}
  BY <1>6, <1>8, <1>9
<1>11. NodesSaved(j, d) /\ EntriesSaved(j, d)
  BY <1>6, <1>7, <1>8, <1>10 DEF NodesSaved, EntriesSaved
<1>12. Written(j, d)
  BY <1>6, <1>9, <1>11 DEF Written
<1> QED
  BY <1>1, <1>12

-----------------------------------------------------------------------------
(* The vector index: the calls *)

IndexTypes ==
  /\ IndexOK(ix) /\ Numbered(ix) /\ FileOK(db)

LEMMA PersistedSelf ==
  ASSUME NEW i, IndexOK(i), Numbered(i), NEW d, FileOK(d)
  PROVE  Persisted(i, d, i, d)
BY DEF Persisted, SameBesides

\* insert_vector: what it adds, what it stores, what becomes of both.
Inserts(p, level, r, d) ==
  /\ level \in LevelsOf(ix)
  /\ AddedAs(ix, db.next, p, level, r) /\ AddedIn(ix, db.next, level, r.index)
  /\ StoredIn(db, db.next, p, d)
  /\ Persisted(r.index, d, ix', db')
  /\ events \subseteq events'
  /\ ~r.ok => "failed" \in events'
  /\ Shrinks(ix, r.index) => "pruned" \in events'
LEMMA InsertStep ==
  ASSUME IndexTypes, NEW p \in Positions, NEW level \in Levels, NEW saved \in SaveOutcomes,
         InsertVector(p, level, saved)
  PROVE  \E r : \E d : Inserts(p, level, r, d)
<1> DEFINE id == db.next
<1>1. PICK r : r = AddVector(ix, id, p, level)
  OBVIOUS
<1>2. PICK d : d = Store(db, id, p)
  OBVIOUS
<1>3. p \in Nat /\ id \in Nat \ {0} /\ id \in Nat /\ db.next <= id
  <2>1. id \in Nat \ {0}
    BY DEF IndexTypes, FileOK, IndexFiles
  <2> QED
    BY <2>1, HnswAssumption
<1>4. level \in LevelsOf(ix)
  BY DEF InsertVector
<1>5. IndexOK(ix) /\ Numbered(ix) /\ FileOK(db)
  BY DEF IndexTypes
<1>6. AddedAs(ix, id, p, level, r)
  BY <1>1, <1>3, <1>4, <1>5, AddVectorOK
<1>7. AddedIn(ix, id, level, r.index)
  BY <1>3, <1>4, <1>5, <1>6, AddedNumbers
<1>8. StoredIn(db, id, p, d)
  <2> HIDE DEF id
  <2> QED
    BY <1>2, <1>3, <1>5, StoreOK
<1>9. IndexOK(r.index) /\ Numbered(r.index) /\ FileOK(d)
  BY <1>6, <1>7, <1>8 DEF AddedAs, AddedIn, StoredIn
<1>10. /\ IF r.ok THEN Persist(r.index, d, saved) ELSE ix' = r.index /\ db' = d
       /\ events' = events \cup (IF r.ok THEN {saved} \cap {"commit lost"} ELSE {"failed"})
                           \cup (IF Shrinks(ix, r.index) THEN {"pruned"} ELSE {})
  BY <1>1, <1>2 DEF InsertVector
<1>11. Persisted(r.index, d, ix', db')
  <2>1. CASE r.ok
    <3>1. Persist(r.index, d, saved) /\ (saved = "commit lost" => "commit lost" \in events')
      BY <2>1, <1>10
    <3> QED
      BY <3>1, <1>9, PersistOK
  <2>2. CASE ~r.ok
    BY <2>2, <1>9, <1>10, PersistedSelf
  <2> QED
    BY <2>1, <2>2
<1>12. Inserts(p, level, r, d)
  BY <1>4, <1>6, <1>7, <1>8, <1>10, <1>11 DEF Inserts
<1> QED
  BY <1>12

\* batch_insert_vectors: both vectors are added and stored, or the file is as it was.
Batched(p1, p2, r1, r2, d1, d2) ==
  /\ AddedAs(ix, db.next, p1, 0, r1) /\ AddedIn(ix, db.next, 0, r1.index)
  /\ AddedAs(r1.index, db.next + 1, p2, 0, r2) /\ AddedIn(r1.index, db.next + 1, 0, r2.index)
  /\ StoredIn(db, db.next, p1, d1) /\ StoredIn(d1, db.next + 1, p2, d2)
  /\ events \subseteq events'
  /\ \/ /\ r1.ok /\ r2.ok /\ Persisted(r2.index, d2, ix', db')
        /\ Shrinks(ix, r1.index) \/ Shrinks(r1.index, r2.index) => "pruned" \in events'
     \/ /\ "rolled back" \in events'
        /\ Persisted(r1.index, db, ix', db') \/ Persisted(r2.index, db, ix', db')
LEMMA BatchStep ==
  ASSUME IndexTypes, NEW p1 \in Positions, NEW p2 \in Positions,
         NEW stored \in Storings, NEW saved \in SaveOutcomes, BatchInsert(p1, p2, stored, saved)
  PROVE  \E r1 : \E r2 : \E d1 : \E d2 : Batched(p1, p2, r1, r2, d1, d2)
<1>1. PICK id : id = db.next
  OBVIOUS
<1>2. PICK r1 : r1 = AddVector(ix, id, p1, 0)
  OBVIOUS
<1>3. PICK r2 : r2 = AddVector(r1.index, id + 1, p2, 0)
  OBVIOUS
<1>4. PICK d1 : d1 = Store(db, id, p1)
  OBVIOUS
<1>5. PICK d2 : d2 = Store(d1, id + 1, p2)
  OBVIOUS
<1>6. id \in Nat \ {0} /\ id + 1 \in Nat \ {0} /\ id \in Nat /\ id + 1 \in Nat
  <2>1. id \in Nat \ {0}
    BY <1>1 DEF IndexTypes, FileOK, IndexFiles
  <2> QED
    BY <2>1
<1>7. p1 \in Nat /\ p2 \in Nat
  BY HnswAssumption
<1>8. IndexOK(ix) /\ Numbered(ix) /\ FileOK(db)
  BY DEF IndexTypes
<1>9. \A i : IndexOK(i) => 0 \in LevelsOf(i)
  <2> SUFFICES ASSUME NEW i, IndexOK(i) PROVE 0 \in LevelsOf(i)
    OBVIOUS
  <2>1. i.ml \in 1..16
    BY DEF IndexOK, Indexes
  <2> QED
    BY <2>1 DEF LevelsOf
<1>10. AddedAs(ix, id, p1, 0, r1) /\ AddedIn(ix, id, 0, r1.index)
  <2>1. AddedAs(ix, id, p1, 0, r1)
    BY <1>2, <1>6, <1>7, <1>8, <1>9, AddVectorOK
  <2> QED
    BY <2>1, <1>6, <1>7, <1>8, <1>9, AddedNumbers
<1>11. IndexOK(r1.index) /\ Numbered(r1.index)
  BY <1>10 DEF AddedAs, AddedIn
<1>12. AddedAs(r1.index, id + 1, p2, 0, r2) /\ AddedIn(r1.index, id + 1, 0, r2.index)
  <2>1. PICK i, k : i = r1.index /\ k = id + 1
    OBVIOUS
  <2>2. AddedAs(i, k, p2, 0, r2)
    BY <2>1, <1>3, <1>6, <1>7, <1>9, <1>11, AddVectorOK
  <2>3. AddedIn(i, k, 0, r2.index)
    BY <2>1, <2>2, <1>6, <1>7, <1>9, <1>11, AddedNumbers
  <2> QED
    BY <2>1, <2>2, <2>3
<1>13. IndexOK(r2.index) /\ Numbered(r2.index)
  BY <1>12 DEF AddedAs, AddedIn
<1>14. StoredIn(db, id, p1, d1)
  BY <1>1, <1>4, <1>6, <1>7, <1>8, StoreOK
<1>15. StoredIn(d1, id + 1, p2, d2)
  <2>1. FileOK(d1) /\ d1.next = id + 1
    BY <1>14 DEF StoredIn
  <2>2. PICK k : k = id + 1
    OBVIOUS
  <2>3. k \in Nat /\ d1.next <= k
    BY <2>1, <2>2, <1>6
  <2>4. StoredIn(d1, k, p2, d2)
    BY <2>1, <2>2, <2>3, <1>5, <1>7, StoreOK
  <2> QED
    BY <2>2, <2>4
<1>16. FileOK(d2)
  BY <1>15 DEF StoredIn
<1>17. PICK last : last = IF r1.ok /\ stored # "first" THEN r2 ELSE r1
  OBVIOUS
<1>18. PICK d : d = Store(Store(db, db.next, p1), db.next + 1, p2)
  OBVIOUS
<1>19. d = d2
  BY <1>1, <1>4, <1>5, <1>18
<1>20. /\ IF r1.ok /\ r2.ok /\ stored = "committed" THEN Persist(last.index, d, saved)
          ELSE ix' = last.index /\ UNCHANGED db
       /\ events' = events \cup (IF r1.ok /\ r2.ok /\ stored = "committed"
                                   THEN {saved} \cap {"commit lost"} ELSE {"rolled back"})
                           \cup (IF Shrinks(ix, r1.index) \/ Shrinks(r1.index, last.index)
                                   THEN {"pruned"} ELSE {})
  BY <1>1, <1>2, <1>3, <1>17, <1>18 DEF BatchInsert
<1>21. events \subseteq events'
  BY <1>20
<1>22. CASE r1.ok /\ r2.ok /\ stored = "committed"
  <2>1. last = r2
    BY <1>17, <1>22
  <2>2. Persisted(r2.index, d2, ix', db')
    <3>1. Persist(r2.index, d2, saved) /\ (saved = "commit lost" => "commit lost" \in events')
      BY <2>1, <1>19, <1>20, <1>22
    <3> QED
      BY <3>1, <1>13, <1>16, PersistOK
  <2>3. Shrinks(ix, r1.index) \/ Shrinks(r1.index, r2.index) => "pruned" \in events'
    BY <2>1, <1>20
  <2> QED
    BY <2>2, <2>3, <1>1, <1>10, <1>12, <1>14, <1>15, <1>21, <1>22 DEF Batched
<1>23. CASE ~(r1.ok /\ r2.ok /\ stored = "committed")
  <2>1. last = r1 \/ last = r2
    BY <1>17
  <2>2. "rolled back" \in events' /\ ix' = last.index /\ db' = db
    BY <1>20, <1>23
  <2>3. Persisted(last.index, db, ix', db')
    BY <2>1, <2>2, <1>8, <1>11, <1>13, PersistedSelf
  <2> QED
    BY <2>1, <2>2, <2>3, <1>1, <1>10, <1>12, <1>14, <1>15, <1>21 DEF Batched
<1> QED
  BY <1>22, <1>23

\* delete_vector: the vector is no longer stored, its node no longer linked.
Deletes(id, j, d) ==
  /\ RemovedAs(ix, id, RemovedNode(id), j)
  /\ FileOK(d) /\ d.rows = db.rows /\ d.entry = db.entry /\ d.next = db.next
  /\ DOMAIN d.stored = DOMAIN db.stored \ {id}
  /\ Persisted(j, d, ix', db')
  /\ events \cup {IF ix.multi THEN "deleted in layers" ELSE "deleted",
                  IF id \in DOMAIN db.stored THEN "deleted" ELSE "deleted nothing"} \subseteq events'
LEMMA DeleteStep ==
  ASSUME IndexTypes, NEW id \in 1..MaxVector, NEW saved \in SaveOutcomes, DeleteVector(id, saved)
  PROVE  \E j : \E d : Deletes(id, j, d)
<1>1. PICK n : n = RemovedNode(id)
  OBVIOUS
<1>2. PICK j : j = WithRemoved(ix, id, n)
  OBVIOUS
<1>3. PICK vectors : vectors = Restrict(db.stored, DOMAIN db.stored \ {id})
  OBVIOUS
<1>4. PICK d : d = [db EXCEPT !.stored = vectors]
  OBVIOUS
<1>5. IndexOK(ix) /\ Numbered(ix) /\ FileOK(db) /\ db \in IndexFiles
  BY DEF IndexTypes, FileOK
<1>6. vectors \in VectorMaps /\ DOMAIN vectors = DOMAIN db.stored \ {id}
  <2>1. /\ DOMAIN db.stored \subseteq Nat \ {0} /\ \A x \in DOMAIN db.stored : db.stored[x] \in Nat
    BY <1>5, VectorMapFacts DEF IndexFiles
  <2>2. PICK S : S = DOMAIN db.stored \ {id}
    OBVIOUS
  <2>3. vectors = [x \in S |-> db.stored[x]]
    BY <1>3, <2>2 DEF Restrict
  <2>4. vectors \in [S -> Nat] /\ S \subseteq Nat \ {0}
    BY <2>1, <2>2, <2>3
  <2> QED
    BY <2>2, <2>3, <2>4, VectorMapFacts
<1>7. /\ d \in IndexFiles /\ d.rows = db.rows /\ d.entry = db.entry /\ d.next = db.next /\ d.stored = vectors
  BY <1>4, <1>5, <1>6 DEF IndexFiles
<1>8. FileOK(d)
  BY <1>5, <1>6, <1>7 DEF FileOK
<1>9. RemovedAs(ix, id, n, j)
  BY <1>2, <1>5, RemovedOK
<1>10. Persist(j, d, saved)
  BY <1>1, <1>2, <1>3, <1>4 DEF DeleteVector, WithRemoved
<1>11. Persisted(j, d, ix', db')
  <2>1. IndexOK(j) /\ Numbered(j)
    BY <1>5, <1>9 DEF RemovedAs
  <2>2. saved = "commit lost" => "commit lost" \in events'
    BY DEF DeleteVector
  <2> QED
    BY <2>1, <2>2, <1>8, <1>10, PersistOK
<1>12. events \cup {IF ix.multi THEN "deleted in layers" ELSE "deleted",
                    IF id \in DOMAIN db.stored THEN "deleted" ELSE "deleted nothing"} \subseteq events'
  BY DEF DeleteVector
<1>13. Deletes(id, j, d)
  BY <1>1, <1>6, <1>7, <1>8, <1>9, <1>11, <1>12 DEF Deletes
<1> QED
  BY <1>13

\* The graph is opened again: the index is read back, or built anew.
Reopens(low) ==
  /\ db' = db /\ events \subseteq events'
  /\ HasLayers(db) => /\ RestoredAs(db, low, ix')
                      /\ Unsaved(ix, db) => "unsaved" \in events'
                      /\ Unsaved(ix', db) => "restored otherwise" \in events'
  /\ ~HasLayers(db) => /\ ix' = Rebuilt(db).index /\ IndexOK(ix') /\ Numbered(ix')
                       /\ DOMAIN db.stored # {} => "rebuilt" \in events'
                       /\ Rebuilt(db).pruned => "pruned" \in events'
  /\ ix.multi /\ (\E k \in DOMAIN ix.maps[0] : ix.maps[0][k] # k) => "renumbered" \in events'
LEMMA ReopenStep ==
  ASSUME IndexTypes, NEW low \in BOOLEAN, Reopen(low)
  PROVE  Reopens(low)
<1>1. FileOK(db)
  BY DEF IndexTypes
<1>2. /\ db' = db
      /\ ix' = IF HasLayers(db) THEN Restored(db, low) ELSE Rebuilt(db).index
      /\ events' = events
           \cup (IF HasLayers(db) /\ Unsaved(ix, db) THEN {"unsaved"} ELSE {})
           \cup (IF ~HasLayers(db) /\ DOMAIN db.stored # {} THEN {"rebuilt"} ELSE {})
           \cup (IF ~HasLayers(db) /\ Rebuilt(db).pruned THEN {"pruned"} ELSE {})
           \cup (IF ix.multi /\ \E k \in DOMAIN ix.maps[0] : ix.maps[0][k] # k THEN {"renumbered"} ELSE {})
           \cup (IF HasLayers(db) /\ Unsaved(ix', db) THEN {"restored otherwise"} ELSE {})
  BY DEF Reopen
<1>3. HasLayers(db) => RestoredAs(db, low, ix')
  BY <1>1, <1>2, RestoredOK
<1>4. IndexOK(Rebuilt(db).index) /\ Numbered(Rebuilt(db).index)
  BY <1>1, RebuiltOK DEF CleanAs, RebuiltFrom
<1>5. ~HasLayers(db) => ix' = Rebuilt(db).index /\ IndexOK(ix') /\ Numbered(ix')
  BY <1>2, <1>4
<1>6. events \subseteq events'
  BY <1>2
<1>7. /\ HasLayers(db) /\ Unsaved(ix, db) => "unsaved" \in events'
      /\ HasLayers(db) /\ Unsaved(ix', db) => "restored otherwise" \in events'
      /\ ~HasLayers(db) /\ DOMAIN db.stored # {} => "rebuilt" \in events'
      /\ ~HasLayers(db) /\ Rebuilt(db).pruned => "pruned" \in events'
      /\ ix.multi /\ (\E k \in DOMAIN ix.maps[0] : ix.maps[0][k] # k) => "renumbered" \in events'
  BY <1>2
<1> QED
  BY <1>2, <1>3, <1>5, <1>6, <1>7 DEF Reopens

\* The index has its layers, its nodes and its file in order at the start.
LEMMA IndexStarts ==
  ASSUME IndexInit
  PROVE  /\ IndexTypes /\ db.stored = NoVectors /\ db.entry = <<>> /\ db.next = 1
         /\ \A l \in Levels : DOMAIN db.rows[l] = {}
         /\ \E multi \in BOOLEAN : \E ml : NewAs(multi, ml, ix)
<1>1. PICK c \in Configs : ix = NewIndex(c.multi, c.ml)
  BY DEF IndexInit
<1>2. NewAs(c.multi, c.ml, ix)
  <2>1. c.multi \in BOOLEAN /\ c.ml \in 1..16 /\ LevelsOf(c) \subseteq Levels
    BY LevelFacts
  <2>2. PICK multi, ml : multi = c.multi /\ ml = c.ml
    OBVIOUS
  <2>3. LevelsOf([multi |-> multi, ml |-> ml]) = LevelsOf(c)
    BY <2>2 DEF LevelsOf
  <2> QED
    BY <1>1, <2>1, <2>2, <2>3, NewIndexOK
<1>3. db = [stored |-> NoVectors, rows |-> [l \in Levels |-> EmptyLayer.links], entry |-> <<>>, next |-> 1]
  BY DEF IndexInit
<1> DEFINE rows == [l \in Levels |-> EmptyLayer.links]
<1>4. NoVectors \in VectorMaps /\ DOMAIN NoVectors = {}
  <2>1. NoVectors \in [{} -> Nat]
    BY DEF NoVectors
  <2> QED
    BY <2>1, VectorMapFacts
<1>5. EmptyLayer.links \in LinkMaps /\ DOMAIN EmptyLayer.links = {} /\ IsFiniteSet({})
  BY EmptyLayerOK, FS_EmptySet DEF LayerOK, Layers, NodesOf
<1>6. rows \in [Levels -> LinkMaps] /\ \A l \in Levels : DOMAIN rows[l] = {}
  BY <1>5
<1>7. db \in IndexFiles /\ db.stored = NoVectors /\ db.entry = <<>> /\ db.next = 1 /\ db.rows = rows
  <2>1. <<>> \in Seq(Nat) /\ 1 \in Nat \ {0}
    OBVIOUS
  <2> HIDE DEF rows
  <2>2. db = [stored |-> NoVectors, rows |-> rows, entry |-> <<>>, next |-> 1]
    BY <1>3 DEF rows
  <2> QED
    BY <2>1, <2>2, <1>4, <1>6 DEF IndexFiles
<1>8. FileOK(db)
  <2> HIDE DEF rows
  <2> QED
    BY <1>4, <1>5, <1>6, <1>7 DEF FileOK
<1>9. IndexTypes
  BY <1>2, <1>8 DEF IndexTypes, NewAs
<1> HIDE DEF rows
<1>10. \A l \in Levels : DOMAIN db.rows[l] = {}
  BY <1>6, <1>7
<1>11. c.multi \in BOOLEAN
  BY LevelFacts
<1> QED
  BY <1>2, <1>7, <1>9, <1>10, <1>11

\* Another index takes an id.
LEMMA OtherIndexStep ==
  ASSUME IndexTypes, OtherIndexInserts
  PROVE  /\ ix' = ix /\ events' = events /\ FileOK(db') /\ db'.stored = db.stored /\ db'.rows = db.rows
         /\ db'.entry = db.entry /\ db'.next = db.next + 1
<1>1. db \in IndexFiles /\ DOMAIN db.stored \subseteq 1..(db.next - 1) /\ \A l \in Levels : IsFiniteSet(DOMAIN db.rows[l])
  BY DEF IndexTypes, FileOK
<1>2. PICK n : n = db.next + 1
  OBVIOUS
<1>3. n \in Nat \ {0} /\ db.next \in Nat
  BY <1>1, <1>2 DEF IndexFiles
<1>4. db' = [db EXCEPT !.next = n]
  BY <1>2 DEF OtherIndexInserts
<1>5. /\ db' \in IndexFiles /\ db'.stored = db.stored /\ db'.rows = db.rows /\ db'.entry = db.entry /\ db'.next = n
  BY <1>1, <1>3, <1>4 DEF IndexFiles
<1>6. DOMAIN db'.stored \subseteq 1..(db'.next - 1)
  BY <1>1, <1>2, <1>3, <1>5
<1>7. FileOK(db')
  BY <1>1, <1>5, <1>6 DEF FileOK
<1> QED
  BY <1>2, <1>5, <1>7 DEF OtherIndexInserts

LEMMA IndexTypesStep ==
  ASSUME IndexTypes, [IndexNext]_indexVars
  PROVE  IndexTypes'
<1>1. ASSUME NEW p \in Positions, NEW level \in Levels, NEW saved \in SaveOutcomes, InsertVector(p, level, saved)
      PROVE  IndexTypes'
  BY <1>1, InsertStep DEF Inserts, Persisted, IndexTypes
<1>2. ASSUME NEW batch \in Batches, NEW stored \in Storings, NEW saved \in SaveOutcomes,
             BatchInsert(batch[1], batch[2], stored, saved)
      PROVE  IndexTypes'
  <2>1. batch[1] \in Positions /\ batch[2] \in Positions
    BY HnswAssumption
  <2>2. PICK r1, r2, d1, d2 : Batched(batch[1], batch[2], r1, r2, d1, d2)
    BY <1>2, <2>1, BatchStep
  <2> QED
    BY <2>2 DEF Batched, Persisted, IndexTypes
<1>3. CASE OtherIndexInserts
  BY <1>3, OtherIndexStep DEF IndexTypes
<1>4. ASSUME NEW id \in 1..MaxVector, NEW saved \in SaveOutcomes, DeleteVector(id, saved)
      PROVE  IndexTypes'
  BY <1>4, DeleteStep DEF Deletes, Persisted, IndexTypes
<1>5. ASSUME NEW low \in BOOLEAN, Reopen(low)
      PROVE  IndexTypes'
  <2>1. Reopens(low)
    BY <1>5, ReopenStep
  <2>2. FileOK(db') /\ IndexOK(ix') /\ Numbered(ix')
    BY <2>1 DEF Reopens, RestoredAs, IndexTypes
  <2> QED
    BY <2>2 DEF IndexTypes
<1>6. CASE UNCHANGED indexVars
  BY <1>6 DEF indexVars, IndexTypes
<1> QED
  BY <1>1, <1>2, <1>3, <1>4, <1>5, <1>6 DEF IndexNext

-----------------------------------------------------------------------------
(* The vector index: SavedIsCurrent *)

NothingElse == {"commit lost", "rebuilt", "renumbered", "restored otherwise"}
SavedInv == events \cap NothingElse = {} => Written(ix, db)

LEMMA WrittenSame ==
  ASSUME NEW i, NEW d, Written(i, d), NEW e, e.rows = d.rows, e.entry = d.entry
  PROVE  Written(i, e)
BY DEF Written, NodesSaved, EntriesSaved

\* The node of an entry point is the one that goes with it.
LEMMA EntryNode ==
  ASSUME IndexTypes, Written(ix, db), NEW id \in Range(ix.eps)
  PROVE  RemovedNode(id) \in NodesOf(ix.layers[0])
<1>0. 0 \in Levels /\ IndexOK(ix) /\ Numbered(ix)
  BY LevelFacts DEF IndexTypes
<1>1. PICK n \in NodesOf(ix.layers[0]) : id \in GlobalIds(ix, 0, n)
  BY DEF Written, EntriesSaved
<1>2. n \in Nat
  BY <1>0, <1>1, LinkMapFacts DEF IndexOK, LayerOK, Layers, NodesOf
<1>3. CASE ~ix.multi
  <2>1. id = n + 1 /\ LocalIds(ix, id, 0) = {id - 1}
    BY <1>1, <1>3 DEF GlobalIds, LocalIds
  <2>2. RemovedNode(id) = n
    BY <2>1, <1>2, <1>3 DEF RemovedNode
  <2> QED
    BY <2>2, <1>1
<1>4. CASE ix.multi
  <2>1. PICK s \in Seq(Nat) : s = ix.maps[0]
    BY <1>0 DEF IndexOK, Indexes
  <2> DEFINE places == {k \in DOMAIN s : s[k] = id}
  <2>2. n + 1 \in places
    BY <1>1, <1>4, <2>1 DEF GlobalIds
  <2>3. places \subseteq Nat /\ (\A k \in places : k <= Len(s)) /\ Len(s) \in Nat
    OBVIOUS
  <2>4. Max(places) \in places
    <3> HIDE DEF places
    <3> QED
      BY <2>2, <2>3, GreatestNatural
  <2>5. LocalIds(ix, id, 0) = {Max(places) - 1}
    <3>1. places = {k \in DOMAIN ix.maps[0] : ix.maps[0][k] = id} /\ places # {}
      BY <2>1, <2>2
    <3> HIDE DEF places
    <3> QED
      BY <3>1, <1>4 DEF LocalIds
  <2>6. RemovedNode(id) = Max(places) - 1
    <3> HIDE DEF places
    <3> QED
      BY <2>5 DEF RemovedNode
  <2>7. Max(places) - 1 \in 0..(Len(s) - 1)
    <3>1. PICK m : m = Max(places)
      OBVIOUS
    <3>2. m \in 1..Len(s)
      BY <2>4, <3>1
    <3> QED
      BY <3>1, <3>2, <2>3
  <2>8. NodesOf(ix.layers[0]) = 0..(Len(s) - 1)
    BY <1>0, <1>4, <2>1 DEF Numbered
  <2> QED
    BY <2>6, <2>7, <2>8
<1> QED
  BY <1>3, <1>4

LEMMA SavedStep ==
  ASSUME IndexTypes, SavedInv, [IndexNext]_indexVars
  PROVE  SavedInv'
<1>1. SUFFICES ASSUME events' \cap NothingElse = {} PROVE Written(ix', db')
  BY DEF SavedInv
<1>2. ASSUME events \subseteq events' PROVE Written(ix, db)
  BY <1>1, <1>2 DEF SavedInv
<1>3. IndexOK(ix) /\ Numbered(ix) /\ FileOK(db) /\ db.next \in Nat \ {0}
  BY DEF IndexTypes, FileOK, IndexFiles
<1>4. ASSUME NEW p \in Positions, NEW level \in Levels, NEW saved \in SaveOutcomes, InsertVector(p, level, saved)
      PROVE  Written(ix', db')
  <2>1. PICK r, d : Inserts(p, level, r, d)
    BY <1>4, InsertStep
  <2>2. events \subseteq events'
    BY <2>1 DEF Inserts
  <2>3. p \in Nat
    BY HnswAssumption
  <2>4. Written(r.index, db)
    <3>1. level \in LevelsOf(ix) /\ AddedAs(ix, db.next, p, level, r)
      BY <2>1 DEF Inserts
    <3> QED
      BY <2>2, <2>3, <3>1, <1>2, <1>3, WrittenAdded
  <2>5. Written(r.index, d)
    BY <2>1, <2>4, WrittenSame DEF Inserts, StoredIn
  <2> QED
    BY <2>1, <2>5, <1>1 DEF Inserts, Persisted, NothingElse
<1>5. ASSUME NEW batch \in Batches, NEW stored \in Storings, NEW saved \in SaveOutcomes,
             BatchInsert(batch[1], batch[2], stored, saved)
      PROVE  Written(ix', db')
  <2>1. batch[1] \in Positions /\ batch[2] \in Positions
    BY HnswAssumption
  <2>2. PICK p1, p2 : p1 = batch[1] /\ p2 = batch[2]
    OBVIOUS
  <2>3. p1 \in Nat /\ p2 \in Nat
    BY <2>1, <2>2, HnswAssumption
  <2>4. PICK r1, r2, d1, d2 : Batched(p1, p2, r1, r2, d1, d2)
    BY <1>5, <2>1, <2>2, BatchStep
  <2>5. Written(ix, db)
    BY <2>4, <1>2 DEF Batched
  <2>6. 0 \in LevelsOf(ix)
    <3>1. ix.ml \in 1..16
      BY <1>3 DEF IndexOK, Indexes
    <3> QED
      BY <3>1 DEF LevelsOf
  <2>7. AddedAs(ix, db.next, p1, 0, r1) /\ AddedIn(ix, db.next, 0, r1.index)
        /\ AddedAs(r1.index, db.next + 1, p2, 0, r2)
    BY <2>4 DEF Batched
  <2>8. Written(r1.index, db)
    BY <2>3, <2>5, <2>6, <2>7, <1>3, WrittenAdded
  <2>9. IndexOK(r1.index) /\ Numbered(r1.index)
    BY <2>7 DEF AddedAs, AddedIn
  <2>10. Written(r2.index, db)
    <3>1. PICK i, k : i = r1.index /\ k = db.next + 1
      OBVIOUS
    <3>2. k \in Nat \ {0}
      BY <3>1, <1>3
    <3>3. 0 \in LevelsOf(i)
      <4>1. i.ml \in 1..16
        BY <2>9, <3>1 DEF IndexOK, Indexes
      <4> QED
        BY <4>1 DEF LevelsOf
    <3> QED
      BY <2>3, <2>7, <2>8, <2>9, <3>1, <3>2, <3>3, WrittenAdded
  <2>11. Written(r2.index, d2)
    <3>1. d2.rows = db.rows /\ d2.entry = db.entry
      BY <2>4 DEF Batched, StoredIn
    <3> QED
      BY <2>10, <3>1, WrittenSame
  <2> QED
    BY <2>4, <2>8, <2>10, <2>11, <1>1 DEF Batched, Persisted, NothingElse
<1>6. CASE OtherIndexInserts
  BY <1>6, <1>2, OtherIndexStep, WrittenSame
<1>7. ASSUME NEW id \in 1..MaxVector, NEW saved \in SaveOutcomes, DeleteVector(id, saved)
      PROVE  Written(ix', db')
  <2>1. PICK j, d : Deletes(id, j, d)
    BY <1>7, DeleteStep
  <2>2. Written(ix, db)
    BY <2>1, <1>2 DEF Deletes
  <2>3. Written(j, db)
    <3>1. PICK n : n = RemovedNode(id)
      OBVIOUS
    <3>2. id \in Range(ix.eps) => n \in NodesOf(ix.layers[0])
      BY <2>2, <3>1, EntryNode
    <3>3. RemovedAs(ix, id, n, j)
      BY <2>1, <3>1 DEF Deletes
    <3> QED
      BY <2>2, <3>2, <3>3, <1>3, WrittenRemoved
  <2>4. Written(j, d)
    BY <2>1, <2>3, WrittenSame DEF Deletes
  <2> QED
    BY <2>1, <2>4, <1>1 DEF Deletes, Persisted, NothingElse
<1>8. ASSUME NEW low \in BOOLEAN, Reopen(low)
      PROVE  Written(ix', db')
  <2>1. Reopens(low)
    BY <1>8, ReopenStep
  <2>2. Written(ix, db)
    BY <2>1, <1>2 DEF Reopens
  <2>3. EntriesSaved(ix, db)
    BY <2>2 DEF Written
  <2>4. db' = db
    BY <2>1 DEF Reopens
  <2>5. CASE HasLayers(db)
    <3>1. RestoredAs(db, low, ix') /\ ~Unsaved(ix', db)
      BY <2>1, <2>5, <1>1 DEF Reopens, NothingElse
    <3>2. ix.multi => \A k \in DOMAIN ix.maps[0] : ix.maps[0][k] = k
      BY <2>1, <1>1 DEF Reopens, NothingElse
    <3> QED
      BY <2>3, <2>4, <3>1, <3>2, <1>3, WrittenRestored
  <2>6. CASE ~HasLayers(db)
    <3>1. ix' = Rebuilt(db).index /\ DOMAIN db.stored = {}
      BY <2>1, <2>6, <1>1 DEF Reopens, NothingElse
    <3> QED
      BY <2>3, <2>4, <2>6, <3>1, <1>3, WrittenNothing
  <2> QED
    BY <2>5, <2>6
<1>9. CASE UNCHANGED indexVars
  BY <1>2, <1>9 DEF indexVars
<1> QED
  BY <1>4, <1>5, <1>6, <1>7, <1>8, <1>9 DEF IndexNext

\* With nothing left to save, the file holds the links and the entry points of
\* the index: persist_topology saves what insert_vector and delete_vector
\* marked, and takes marks off without saving only when its COMMIT fails, whose
\* result it drops.
THEOREM LinksAreSaved == IndexSpec => []SavedIsCurrent
<1>1. IndexInit => IndexTypes /\ SavedInv
  <2> SUFFICES ASSUME IndexInit PROVE IndexTypes /\ SavedInv
    OBVIOUS
  <2>0. 0 \in Levels
    BY LevelFacts
  <2>1. /\ IndexTypes /\ db.entry = <<>> /\ \A l \in Levels : DOMAIN db.rows[l] = {}
    BY IndexStarts
  <2>2. ix.eps = <<>> /\ \A l \in Levels : NodesOf(ix.layers[l]) = {}
    BY IndexStarts, EmptyLayerOK DEF NewAs
  <2>3. Range(<<>>) = {}
    BY DEF Range
  <2>4. Written(ix, db)
    BY <2>1, <2>2, <2>3 DEF Written, NodesSaved, EntriesSaved
  <2> QED
    BY <2>1, <2>4 DEF SavedInv
<1>2. IndexTypes /\ SavedInv /\ [IndexNext]_indexVars => (IndexTypes /\ SavedInv)'
  BY IndexTypesStep, SavedStep
<1>3. IndexTypes /\ SavedInv => SavedIsCurrent
  <2> SUFFICES ASSUME IndexTypes, Written(ix, db), AllClean(ix)
               PROVE  (\A l \in Levels : db.rows[l] = ix.layers[l].links) /\ db.entry = ix.eps
    BY DEF SavedInv, SavedIsCurrent, AllClean, NothingElse
  <2>1. ASSUME NEW l \in Levels PROVE db.rows[l] = ix.layers[l].links
    <3>1. PICK f, g : f = db.rows[l] /\ g = ix.layers[l].links
      OBVIOUS
    <3>2. DOMAIN f \subseteq DOMAIN g /\ \A n \in DOMAIN g : n \in DOMAIN f /\ f[n] = g[n]
      BY <3>1 DEF Written, NodesSaved, AllClean, NodesOf
    <3>3. f \in LinkMaps /\ g \in LinkMaps
      BY <3>1 DEF IndexTypes, FileOK, IndexFiles, IndexOK, LayerOK, Layers
    <3>4. f = [n \in DOMAIN f |-> f[n]] /\ g = [n \in DOMAIN g |-> g[n]]
      BY <3>3 DEF LinkMaps
    <3>5. DOMAIN f = DOMAIN g
      BY <3>2
    <3> QED
      BY <3>1, <3>2, <3>4, <3>5
  <2> QED
    BY <2>1 DEF Written
<1> QED
  BY <1>1, <1>2, <1>3, PTL DEF IndexSpec

-----------------------------------------------------------------------------
(* The vector index: FindsOnlyStored *)

\* A vector no longer stored is cut off: it is no entry point and no node that
\* a search comes to links to it.
Gone(i, stored) == DOMAIN i.cache \ stored
CutOff(i, stored, next) ==
  /\ DOMAIN i.cache \subseteq 1..(next - 1)
  /\ \A g \in Gone(i, stored) :
       ~i.multi /\ g \notin Range(i.eps) /\ \A l \in Levels : Off(i.layers[l], g - 1)
OnlyInv == events \cap {"rolled back", "deleted in layers"} = {} => CutOff(ix, DOMAIN db.stored, db.next)

LEMMA CutOffAdded ==
  ASSUME NEW i, IndexOK(i), Numbered(i), NEW id \in Nat \ {0}, NEW p \in Nat, NEW level \in LevelsOf(i),
         NEW r, AddedAs(i, id, p, level, r), NEW S, CutOff(i, S, id)
  PROVE  CutOff(r.index, S \cup {id}, id + 1)
<1>1. PICK j : j = r.index
  OBVIOUS
<1>2. level \in Nat /\ 0 \in Levels /\ (~i.multi => level = 0)
  BY LevelsUpTo, LevelFacts
<1>3. j.multi = i.multi /\ j.cache = With(i.cache, id, p) /\ DOMAIN j.cache = DOMAIN i.cache \cup {id}
  BY <1>1 DEF AddedAs, With
<1>4. DOMAIN i.cache \subseteq 1..(id - 1)
  BY DEF CutOff
<1>5. DOMAIN j.cache \subseteq 1..((id + 1) - 1)
  BY <1>3, <1>4
<1>6. ASSUME NEW g \in Gone(j, S \cup {id})
      PROVE  ~j.multi /\ g \notin Range(j.eps) /\ \A l \in Levels : Off(j.layers[l], g - 1)
  <2>1. g \in Gone(i, S) /\ g # id /\ g \in Nat
    BY <1>3, <1>4 DEF Gone
  <2>2. ~i.multi /\ g \notin Range(i.eps) /\ \A l \in Levels : Off(i.layers[l], g - 1)
    BY <2>1 DEF CutOff
  <2>3. level = 0
    BY <1>2, <2>2
  <2>4. g \notin Range(j.eps)
    <3>1. i.eps \in Seq(Nat)
      BY DEF IndexOK, Indexes
    <3>2. j.eps = i.eps \/ j.eps = Append(i.eps, id)
      BY <1>1 DEF AddedAs
    <3> QED
      BY <2>1, <2>2, <3>1, <3>2, RangeAppend
  <2>5. \A l \in Levels : l # 0 => j.layers[l] = i.layers[l]
    <3>1. \A l \in Levels : (0 <= l /\ l <= 0) <=> l = 0
      BY LevelFacts
    <3>2. Growth(i, j, id, 0, 0) \/ \A l \in Levels : j.layers[l] = i.layers[l]
      BY <1>1, <2>3 DEF AddedAs
    <3> QED
      BY <3>1, <3>2 DEF Growth
  <2>6. Off(j.layers[0], g - 1)
    <3>1. PICK b : /\ IndexOK(b) /\ SameBesides(Prepared(i, id, p, level), b) /\ b.layers[0] = i.layers[0]
                   /\ j.layers[0] = InsertIntoLayer(b, id, 0).index.layers[0]
      BY <1>1 DEF AddedAs, BaseJoined
    <3>2. PICK c : c = Prepared(i, id, p, level)
      OBVIOUS
    <3>3. PreparedAs(i, id, p, level, c)
      BY <3>2, PreparedOK
    <3>4. ~b.multi /\ b.eps = i.eps
      BY <2>2, <3>1, <3>2, <3>3 DEF PreparedAs, SameBesides
    <3>5. LocalIds(b, id, 0) = {id - 1}
      BY <3>4 DEF LocalIds
    <3>6. i.eps \in Seq(Nat) /\ Range(i.eps) \subseteq Nat
      BY DEF IndexOK, Indexes, Range
    <3>7. g - 1 \notin ToLocal(b, Range(b.eps), 0)
      <4> SUFFICES ASSUME NEW e \in Range(i.eps), g - 1 \in LocalIds(b, e, 0) PROVE FALSE
        BY <3>4 DEF ToLocal
      <4>1. g - 1 = e - 1 /\ e \in Nat
        BY <3>4, <3>6 DEF LocalIds
      <4> QED
        BY <4>1, <2>1, <2>2
    <3>8. PICK n, h : n = id - 1 /\ h = g - 1
      OBVIOUS
    <3>9. n \in Nat /\ h # n /\ Off(b.layers[0], h)
      BY <1>2, <2>1, <2>2, <3>1, <3>8
    <3>10. PICK M : M = j.layers[0]
      OBVIOUS
    <3>11. Off(M, h)
      BY <3>1, <3>5, <3>7, <3>8, <3>9, <3>10, InsertOff
    <3> QED
      BY <3>8, <3>10, <3>11
  <2> QED
    BY <1>3, <2>2, <2>4, <2>5, <2>6
<1>7. CutOff(j, S \cup {id}, id + 1)
  BY <1>5, <1>6 DEF CutOff
<1> QED
  BY <1>1, <1>7

LEMMA CutOffPersisted ==
  ASSUME NEW i, NEW d, NEW j, NEW e, Persisted(i, d, j, e), NEW S, NEW next, CutOff(i, S, next)
  PROVE  CutOff(j, S, next)
<1>1. /\ j.multi = i.multi /\ j.eps = i.eps /\ j.cache = i.cache
      /\ \A l \in Levels : j.layers[l].links = i.layers[l].links /\ j.layers[l].eps = i.layers[l].eps
  BY DEF Persisted, SameBesides
<1> QED
  BY <1>1 DEF CutOff, Gone, Off, NodesOf

LEMMA CutOffRemoved ==
  ASSUME NEW i, IndexOK(i), ~i.multi, NEW id \in Nat, NEW j, RemovedAs(i, id, id - 1, j),
         NEW S, NEW next, CutOff(i, S, next)
  PROVE  CutOff(j, S \ {id}, next)
<1>1. /\ j.multi = i.multi /\ j.cache = i.cache /\ j.eps = Without(i.eps, id) /\ i.eps \in Seq(Nat)
  BY DEF RemovedAs, IndexOK, Indexes
<1>2. Range(j.eps) \subseteq Range(i.eps) \ {id}
  BY <1>1, WithoutFacts
<1>3. ASSUME NEW l \in Levels
      PROVE  /\ Off(j.layers[l], id - 1)
             /\ \A h : Off(i.layers[l], h) => Off(j.layers[l], h)
  <2>1. PICK L, M, n : L = i.layers[l] /\ M = j.layers[l] /\ n = id - 1
    OBVIOUS
  <2>2. LayerOK(L) /\ M = RemoveNode(L, n)
    BY <2>1 DEF IndexOK, RemovedAs
  <2>3. /\ NodesOf(M) = NodesOf(L) /\ M.eps = L.eps \ {n}
        /\ \A x \in NodesOf(L) : n \notin M.links[x] /\ M.links[x] \subseteq L.links[x]
    BY <2>2, RemoveNodeOK
  <2>4. Off(M, n) /\ \A h : Off(L, h) => Off(M, h)
    BY <2>3 DEF Off
  <2> QED
    BY <2>1, <2>4
<1>4. ASSUME NEW g \in Gone(j, S \ {id})
      PROVE  ~j.multi /\ g \notin Range(j.eps) /\ \A l \in Levels : Off(j.layers[l], g - 1)
  <2>1. g = id \/ g \in Gone(i, S)
    BY <1>1 DEF Gone
  <2> QED
    BY <2>1, <1>1, <1>2, <1>3 DEF CutOff
<1> QED
  BY <1>1, <1>4 DEF CutOff

LEMMA OnlyStep ==
  ASSUME IndexTypes, OnlyInv, [IndexNext]_indexVars
  PROVE  OnlyInv'
<1>1. SUFFICES ASSUME events' \cap {"rolled back", "deleted in layers"} = {}
               PROVE  CutOff(ix', DOMAIN db'.stored, db'.next)
  BY DEF OnlyInv
<1>2. ASSUME events \subseteq events' PROVE CutOff(ix, DOMAIN db.stored, db.next)
  BY <1>1, <1>2 DEF OnlyInv
<1>3. IndexOK(ix) /\ Numbered(ix) /\ FileOK(db) /\ db.next \in Nat \ {0}
  BY DEF IndexTypes, FileOK, IndexFiles
<1>4. ASSUME NEW p \in Positions, NEW level \in Levels, NEW saved \in SaveOutcomes, InsertVector(p, level, saved)
      PROVE  CutOff(ix', DOMAIN db'.stored, db'.next)
  <2>1. PICK r, d : Inserts(p, level, r, d)
    BY <1>4, InsertStep
  <2>2. /\ events \subseteq events' /\ level \in LevelsOf(ix) /\ AddedAs(ix, db.next, p, level, r)
        /\ StoredIn(db, db.next, p, d) /\ Persisted(r.index, d, ix', db')
    BY <2>1 DEF Inserts
  <2>3. p \in Nat
    BY HnswAssumption
  <2>4. PICK id, S : id = db.next /\ S = DOMAIN db.stored
    OBVIOUS
  <2>5. CutOff(ix, S, id)
    BY <1>2, <2>2, <2>4
  <2>6. CutOff(r.index, S \cup {id}, id + 1)
    BY <1>3, <2>2, <2>3, <2>4, <2>5, CutOffAdded
  <2>7. db'.stored = d.stored /\ db'.next = d.next /\ DOMAIN d.stored = S \cup {id} /\ d.next = id + 1
    BY <2>2, <2>4 DEF StoredIn, Persisted
  <2>8. CutOff(ix', S \cup {id}, id + 1)
    <3>1. PICK T, n : T = S \cup {id} /\ n = id + 1
      OBVIOUS
    <3>2. CutOff(ix', T, n)
      BY <3>1, <2>2, <2>6, CutOffPersisted
    <3> QED
      BY <3>1, <3>2
  <2> QED
    BY <2>7, <2>8
<1>5. ASSUME NEW batch \in Batches, NEW stored \in Storings, NEW saved \in SaveOutcomes,
             BatchInsert(batch[1], batch[2], stored, saved)
      PROVE  CutOff(ix', DOMAIN db'.stored, db'.next)
  <2>1. batch[1] \in Positions /\ batch[2] \in Positions
    BY HnswAssumption
  <2>2. PICK p1, p2 : p1 = batch[1] /\ p2 = batch[2]
    OBVIOUS
  <2>3. p1 \in Nat /\ p2 \in Nat
    BY <2>1, <2>2, HnswAssumption
  <2>4. PICK r1, r2, d1, d2 : Batched(p1, p2, r1, r2, d1, d2)
    BY <1>5, <2>1, <2>2, BatchStep
  <2>5. PICK id, k, S, T : id = db.next /\ k = id + 1 /\ S = DOMAIN db.stored /\ T = S \cup {id}
    OBVIOUS
  <2>6. /\ AddedAs(ix, id, p1, 0, r1) /\ AddedIn(ix, id, 0, r1.index)
        /\ AddedAs(r1.index, k, p2, 0, r2) /\ StoredIn(db, id, p1, d1) /\ StoredIn(d1, k, p2, d2)
        /\ events \subseteq events' /\ Persisted(r2.index, d2, ix', db')
    BY <2>4, <2>5, <1>1 DEF Batched
  <2>7. CutOff(ix, S, id) /\ id \in Nat \ {0} /\ k \in Nat \ {0}
    BY <1>2, <1>3, <2>5, <2>6
  <2>8. 0 \in LevelsOf(ix)
    <3>1. ix.ml \in 1..16
      BY <1>3 DEF IndexOK, Indexes
    <3> QED
      BY <3>1 DEF LevelsOf
  <2>9. CutOff(r1.index, T, k)
    BY <1>3, <2>3, <2>5, <2>6, <2>7, <2>8, CutOffAdded
  <2>10. PICK i : i = r1.index
    OBVIOUS
  <2>11. IndexOK(i) /\ Numbered(i) /\ 0 \in LevelsOf(i)
    <3>1. IndexOK(i) /\ Numbered(i)
      BY <2>6, <2>10 DEF AddedAs, AddedIn
    <3>2. i.ml \in 1..16
      BY <3>1 DEF IndexOK, Indexes
    <3> QED
      BY <3>1, <3>2 DEF LevelsOf
  <2>12. CutOff(r2.index, T \cup {k}, k + 1)
    BY <2>3, <2>6, <2>7, <2>9, <2>10, <2>11, CutOffAdded
  <2>13. db'.stored = d2.stored /\ db'.next = d2.next /\ DOMAIN d2.stored = T \cup {k} /\ d2.next = k + 1
    BY <2>5, <2>6 DEF StoredIn, Persisted
  <2>14. CutOff(ix', T \cup {k}, k + 1)
    <3>1. PICK U, n : U = T \cup {k} /\ n = k + 1
      OBVIOUS
    <3>2. CutOff(ix', U, n)
      BY <3>1, <2>6, <2>12, CutOffPersisted
    <3> QED
      BY <3>1, <3>2
  <2> QED
    BY <2>13, <2>14
<1>6. CASE OtherIndexInserts
  <2>1. CutOff(ix, DOMAIN db.stored, db.next)
    BY <1>6, <1>2, OtherIndexStep
  <2>2. CutOff(ix, DOMAIN db.stored, db.next + 1)
    <3>1. 1..(db.next - 1) \subseteq 1..((db.next + 1) - 1)
      BY <1>3
    <3> QED
      BY <2>1, <3>1 DEF CutOff
  <2> QED
    BY <1>6, <2>2, OtherIndexStep
<1>7. ASSUME NEW id \in 1..MaxVector, NEW saved \in SaveOutcomes, DeleteVector(id, saved)
      PROVE  CutOff(ix', DOMAIN db'.stored, db'.next)
  <2>1. PICK j, d : Deletes(id, j, d)
    BY <1>7, DeleteStep
  <2>2. /\ RemovedAs(ix, id, RemovedNode(id), j) /\ d.next = db.next
        /\ DOMAIN d.stored = DOMAIN db.stored \ {id} /\ Persisted(j, d, ix', db')
        /\ events \subseteq events' /\ (ix.multi => "deleted in layers" \in events')
    BY <2>1 DEF Deletes
  <2>3. ~ix.multi /\ CutOff(ix, DOMAIN db.stored, db.next)
    BY <1>1, <1>2, <2>2
  <2>4. RemovedNode(id) = id - 1
    BY <2>3 DEF RemovedNode, LocalIds
  <2>5. CutOff(j, DOMAIN db.stored \ {id}, db.next)
    <3>1. id \in Nat
      OBVIOUS
    <3>2. PICK S : S = DOMAIN db.stored
      OBVIOUS
    <3>3. CutOff(j, S \ {id}, db.next)
      BY <1>3, <2>2, <2>3, <2>4, <3>1, <3>2, CutOffRemoved
    <3> QED
      BY <3>2, <3>3
  <2>6. CutOff(j, DOMAIN d.stored, d.next)
    BY <2>2, <2>5
  <2>7. CutOff(ix', DOMAIN d.stored, d.next)
    BY <2>2, <2>6, CutOffPersisted
  <2>8. db'.stored = d.stored /\ db'.next = d.next
    BY <2>2 DEF Persisted
  <2> QED
    BY <2>7, <2>8
<1>8. ASSUME NEW low \in BOOLEAN, Reopen(low)
      PROVE  CutOff(ix', DOMAIN db'.stored, db'.next)
  <2>1. Reopens(low)
    BY <1>8, ReopenStep
  <2>2. db' = db /\ DOMAIN db.stored \subseteq 1..(db.next - 1)
    BY <2>1, <1>3 DEF Reopens, FileOK
  <2>3. DOMAIN ix'.cache \subseteq DOMAIN db.stored
    <3>1. CASE HasLayers(db)
      BY <2>1, <3>1 DEF Reopens, RestoredAs, NoVectors
    <3>2. CASE ~HasLayers(db)
      <4>1. ix' = Rebuilt(db).index
        BY <2>1, <3>2 DEF Reopens
      <4>2. PICK x : RebuiltFrom(db, x) /\ CleanAs(x.index, Rebuilt(db).index)
        BY <1>3, RebuiltOK
      <4> QED
        BY <4>1, <4>2 DEF RebuiltFrom, CleanAs, SameBesides
    <3> QED
      BY <3>1, <3>2
  <2>4. Gone(ix', DOMAIN db'.stored) = {}
    BY <2>2, <2>3 DEF Gone
  <2>5. DOMAIN ix'.cache \subseteq 1..(db'.next - 1)
    BY <2>2, <2>3
  <2> QED
    BY <2>4, <2>5 DEF CutOff
<1>9. CASE UNCHANGED indexVars
  BY <1>2, <1>9 DEF indexVars
<1> QED
  BY <1>4, <1>5, <1>6, <1>7, <1>8, <1>9 DEF IndexNext

-----------------------------------------------------------------------------
(* The vector index: a search *)

\* What a search has in hand between two layers: one vector, or none.
OneOf == {s \in SUBSET Nat : \A g, h \in s : g = h}
KnownIn(level) == Known(ix, Vectors, level, NodesOf(ix.layers[level]))

LEMMA VectorsOK ==
  ASSUME IndexTypes
  PROVE  /\ Vectors \in VectorMaps
         /\ \A l \in Levels : /\ KnownIn(l) \subseteq NodesOf(ix.layers[l]) /\ IsFiniteSet(KnownIn(l))
                              /\ KnownIn(l) \subseteq Nat
<1>1. ix.cache \in VectorMaps /\ db.stored \in VectorMaps
  BY DEF IndexTypes, IndexOK, Indexes, FileOK, IndexFiles
<1>2. Vectors \in VectorMaps
  BY <1>1 DEF Vectors
<1>3. ASSUME NEW l \in Levels
      PROVE  /\ KnownIn(l) \subseteq NodesOf(ix.layers[l]) /\ IsFiniteSet(KnownIn(l)) /\ KnownIn(l) \subseteq Nat
  <2>1. LayerOK(ix.layers[l])
    BY DEF IndexTypes, IndexOK
  <2>2. IsFiniteSet(NodesOf(ix.layers[l])) /\ NodesOf(ix.layers[l]) \subseteq Nat
    BY <2>1, LinkMapFacts DEF LayerOK, Layers, NodesOf
  <2>3. KnownIn(l) \subseteq NodesOf(ix.layers[l])
    BY DEF KnownIn, Known
  <2> QED
    BY <2>2, <2>3, FS_Subset
<1> QED
  BY <1>2, <1>3

LEMMA LocalOne ==
  ASSUME NEW i, NEW at, \A g, h \in at : g = h, NEW level
  PROVE  \A m, n \in ToLocal(i, at, level) : m = n
<1> SUFFICES ASSUME NEW g \in at, NEW m \in LocalIds(i, g, level), NEW n \in LocalIds(i, g, level) PROVE m = n
  BY DEF ToLocal
<1>1. PICK k : LocalIds(i, g, level) = {k} \/ LocalIds(i, g, level) = {}
  BY DEF LocalIds
<1> QED
  BY <1>1

\* Where the descent through a layer leads: C is closed under known links.
Descended(at, level, C, r) ==
  LET start == ToLocal(ix, at, level)
      nodes == NodesOf(ix.layers[level])
  IN  /\ nodes = {} => r = at
      /\ nodes # {} /\ (start = {} \/ ~(start \cap nodes \subseteq KnownIn(level))) => r = {}
      /\ nodes # {} /\ start # {} /\ start \cap nodes \subseteq KnownIn(level) =>
           /\ start \cap nodes = {} => r = at
           /\ start \cap nodes # {} => \E n \in C : r = GlobalIds(ix, level, n)
LEMMA DescendCases ==
  ASSUME IndexTypes, NEW level \in Levels, NEW q \in Nat, NEW at \in OneOf,
         NEW C, C \subseteq KnownIn(level), ToLocal(ix, at, level) \cap KnownIn(level) \subseteq C,
         \A x \in C : ix.layers[level].links[x] \cap KnownIn(level) \subseteq C
  PROVE  Descended(at, level, C, Descend(at, level, q))
<1>1. PICK r : r = Descend(at, level, q)
  OBVIOUS
<1>2. PICK start : start = ToLocal(ix, at, level)
  OBVIOUS
<1>3. PICK layer : layer = ix.layers[level]
  OBVIOUS
<1>4. PICK known : known = KnownIn(level)
  OBVIOUS
<1>5. PICK dist : dist = [x \in known |-> Distance(ix, Vectors, level, x, q)]
  OBVIOUS
<1>6. r = IF NodesOf(layer) = {} THEN at
          ELSE IF start = {} \/ ~(start \cap NodesOf(layer) \subseteq known) THEN {}
          ELSE IF start \cap NodesOf(layer) = {} THEN at
          ELSE GlobalIds(ix, level, Climbed(layer, known, dist, AnyOf(start)))
  BY <1>1, <1>2, <1>3, <1>4, <1>5 DEF Descend, KnownIn, AnyOf
<1>7. ASSUME start \cap NodesOf(layer) \subseteq known, start \cap NodesOf(layer) # {}
      PROVE  Climbed(layer, known, dist, AnyOf(start)) \in C
  <2>1. \A m, n \in start : m = n
    BY <1>2, LocalOne DEF OneOf
  <2>2. AnyOf(start) \in start
    BY <1>7, AnyOfIn
  <2>3. AnyOf(start) \in start \cap known
    BY <2>1, <2>2, <1>7
  <2>4. AnyOf(start) \in C
    BY <2>3, <1>2, <1>4
  <2>5. \A x \in C : dist[x] \in Nat
    <3> SUFFICES ASSUME NEW x \in C PROVE dist[x] \in Nat
      OBVIOUS
    <3>1. x \in known /\ dist[x] = Distance(ix, Vectors, level, x, q)
      BY <1>4, <1>5
    <3>2. PICK vectors \in VectorMaps : vectors = Vectors
      BY VectorsOK
    <3>3. PICK nodes : nodes = NodesOf(ix.layers[level])
      OBVIOUS
    <3>4. x \in Known(ix, vectors, level, nodes)
      BY <3>1, <3>2, <3>3, <1>4 DEF KnownIn
    <3>5. Distance(ix, vectors, level, x, q) \in Nat
      BY <3>4, DistanceNat
    <3> QED
      BY <3>1, <3>2, <3>5
  <2>6. IsFiniteSet(known)
    BY <1>4, VectorsOK
  <2>7. \A x \in C : layer.links[x] \cap known \subseteq C
    BY <1>3, <1>4
  <2>8. PICK from : from = AnyOf(start)
    OBVIOUS
  <2> QED
    BY <2>4, <2>5, <2>6, <2>7, <2>8, ClimbedWithin
<1>8. Descended(at, level, C, r)
  BY <1>2, <1>3, <1>4, <1>6, <1>7 DEF Descended
<1> QED
  BY <1>1, <1>8

LEMMA GlobalNat ==
  ASSUME NEW i, IndexOK(i), NEW level \in Levels, NEW n \in Nat
  PROVE  GlobalIds(i, level, n) \in OneOf
<1>1. \A g, h \in GlobalIds(i, level, n) : g = h
  BY GlobalOne
<1>2. GlobalIds(i, level, n) \subseteq Nat
  <2>1. CASE i.multi
    <3>1. PICK s \in Seq(Nat) : s = i.maps[level]
      BY DEF IndexOK, Indexes
    <3>2. \A k \in DOMAIN s : s[k] \in Nat
      OBVIOUS
    <3>3. GlobalIds(i, level, n) = {s[k] : k \in DOMAIN s \cap {n + 1}}
      BY <2>1, <3>1 DEF GlobalIds
    <3> QED
      BY <3>2, <3>3
  <2>2. CASE ~i.multi
    BY <2>2 DEF GlobalIds
  <2> QED
    BY <2>1, <2>2
<1> QED
  BY <1>1, <1>2 DEF OneOf

LEMMA DescendOne ==
  ASSUME IndexTypes, NEW level \in Levels, NEW q \in Nat, NEW at \in OneOf
  PROVE  Descend(at, level, q) \in OneOf
<1>1. PICK C : C = KnownIn(level)
  OBVIOUS
<1>2. PICK r : r = Descend(at, level, q)
  OBVIOUS
<1>3. Descended(at, level, C, r)
  BY <1>1, <1>2, DescendCases
<1>4. r = at \/ r = {} \/ \E n \in C : r = GlobalIds(ix, level, n)
  BY <1>3 DEF Descended
<1>5. \A n \in C : GlobalIds(ix, level, n) \in OneOf
  BY <1>1, VectorsOK, GlobalNat DEF IndexTypes
<1>6. {} \in OneOf
  BY DEF OneOf
<1> QED
  BY <1>2, <1>4, <1>5, <1>6

\* The layers there are.
Top == Max(Levels)
LEMMA TopLevel == Top \in Levels /\ Top \in Nat /\ 0..Top = Levels
<1>1. Levels \subseteq Nat /\ Levels # {} /\ 15 \in Nat /\ \A l \in Levels : l <= 15
  BY LevelFacts
<1>2. Top \in Levels /\ \A l \in Levels : l <= Top
  <2>1. PICK S : S = Levels
    OBVIOUS
  <2>2. Max(S) \in S /\ \A l \in S : l <= Max(S)
    BY <1>1, <2>1, GreatestNatural
  <2> QED
    BY <2>1, <2>2 DEF Top
<1>3. 0..Top \subseteq Levels
  BY <1>2, LevelFacts
<1>4. Levels \subseteq 0..Top
  BY <1>1, <1>2
<1> QED
  BY <1>1, <1>2, <1>3, <1>4

\* The answer from where the descent ended.
SearchedFrom(at) ==
  LET base == ix.layers[0]
      start == ToLocal(ix, at, 0)
  IN  IF start = {} \/ ~(start \cap NodesOf(base) \subseteq KnownIn(0)) THEN Failure
      ELSE Answer(TRUE, UNION {GlobalIds(ix, 0, n) : n \in Reached(base, KnownIn(0), start \cap NodesOf(base))})

\* A search, layer by layer.
DescendsTo(f, q, m) ==
  f = [k \in 0..m |-> IF k = 0 THEN {ix.eps[Len(ix.eps)]} ELSE Descend(f[k - 1], m + 1 - k, q)]
Descends(f, q) ==
  /\ f[0] = {ix.eps[Len(ix.eps)]}
  /\ \A k \in 1..Top : f[k] = Descend(f[k - 1], Top + 1 - k, q)
  /\ \A k \in 0..Top : f[k] \in OneOf
  /\ Search(q) = SearchedFrom(f[Top])
LEMMA SearchSteps ==
  ASSUME IndexTypes, NEW q \in Nat, ix.count # 0, ix.eps # <<>>
  PROVE  \E f : Descends(f, q)
<1>1. PICK e : e = ix.eps[Len(ix.eps)]
  OBVIOUS
<1>2. PICK m \in Nat : m = Top
  BY TopLevel
<1>3. {e} \in OneOf
  <2>1. PICK s \in Seq(Nat) : s = ix.eps
    BY DEF IndexTypes, IndexOK, Indexes
  <2>2. s # <<>> => s[Len(s)] \in Nat
    OBVIOUS
  <2> QED
    BY <1>1, <2>1, <2>2 DEF OneOf
<1>4. \A k \in 1..m : m + 1 - k \in Levels
  <2>1. \A k \in 1..m : m + 1 - k \in 0..m
    OBVIOUS
  <2> QED
    BY <2>1, <1>2, TopLevel
<1> DEFINE F == [a \in (1..m) \X OneOf |-> Descend(a[2], m + 1 - a[1], q)]
<1>5. F \in [(1..m) \X OneOf -> OneOf]
  <2> SUFFICES ASSUME NEW k \in 1..m, NEW s \in OneOf PROVE Descend(s, m + 1 - k, q) \in OneOf
    OBVIOUS
  <2>1. PICK l \in Levels : l = m + 1 - k
    BY <1>4
  <2> QED
    BY <2>1, DescendOne
<1>6. PICK f : Repeats(f, m, OneOf, {e}, F)
  <2> HIDE DEF F
  <2> QED
    BY <1>3, <1>5, Repeated, Zenon
<1>7. f \in [0..m -> OneOf] /\ \A n \in 0..m : f[n] = IF n = 0 THEN {e} ELSE F[<<n, f[n - 1]>>]
  BY <1>6 DEF Repeats
<1>8. ASSUME NEW n \in 1..m PROVE F[<<n, f[n - 1]>>] = Descend(f[n - 1], m + 1 - n, q)
  <2>1. n - 1 \in 0..m
    OBVIOUS
  <2>2. f[n - 1] \in OneOf
    BY <2>1, <1>7
  <2>3. <<n, f[n - 1]>> \in (1..m) \X OneOf
    BY <2>2
  <2> QED
    BY <2>3
<1>9. DescendsTo(f, q, m)
  <2>1. f = [k \in 0..m |-> f[k]]
    BY <1>7
  <2>2. \A n \in 0..m : n = 0 \/ n \in 1..m
    OBVIOUS
  <2>3. \A n \in 0..m : f[n] = IF n = 0 THEN {e} ELSE Descend(f[n - 1], m + 1 - n, q)
    <3> HIDE DEF F
    <3> QED
      BY <1>7, <1>8, <2>2
  <2> HIDE DEF F
  <2> QED
    BY <1>1, <2>1, <2>3 DEF DescendsTo
<1>10. PICK g : g = CHOOSE h : DescendsTo(h, q, m)
  OBVIOUS
<1>11. DescendsTo(g, q, m)
  BY <1>9, <1>10, Zenon
<1>12. \A k \in 0..m : g[k] = IF k = 0 THEN {e} ELSE Descend(g[k - 1], m + 1 - k, q)
  BY <1>1, <1>11 DEF DescendsTo
<1>13. g[0] = {e} /\ \A k \in 1..m : g[k] = Descend(g[k - 1], m + 1 - k, q)
  <2>1. 0 \in 0..m /\ \A k \in 1..m : k \in 0..m /\ k # 0
    OBVIOUS
  <2> QED
    BY <1>12, <2>1
<1>14. Search(q) = SearchedFrom(g[m])
  <2>1. Search(q) =
          IF ToLocal(ix, g[m], 0) = {} \/ ~(ToLocal(ix, g[m], 0) \cap NodesOf(ix.layers[0])
                                              \subseteq Known(ix, Vectors, 0, NodesOf(ix.layers[0])))
            THEN Failure
          ELSE Answer(TRUE, UNION {GlobalIds(ix, 0, n) : n \in
                 Reached(ix.layers[0], Known(ix, Vectors, 0, NodesOf(ix.layers[0])),
                         ToLocal(ix, g[m], 0) \cap NodesOf(ix.layers[0]))})
    BY <1>2, <1>10 DEF Search, DescendsTo, Top
  <2> QED
    BY <2>1 DEF SearchedFrom, KnownIn
<1>15. \A k \in 0..m : g[k] \in OneOf
  <2> DEFINE Bad == {k \in 0..m : g[k] \notin OneOf}
  <2>1. ASSUME Bad # {} PROVE FALSE
    <3>1. Bad \subseteq Nat
      OBVIOUS
    <3>2. PICK k \in Bad : \A y \in Bad : k <= y
      <4> HIDE DEF Bad
      <4> QED
        BY <3>1, <2>1, LeastNatural
    <3>3. k \in 0..m /\ g[k] \notin OneOf
      BY <3>2
    <3>4. k # 0
      BY <3>3, <1>3, <1>13
    <3>5. k \in 1..m /\ k - 1 \in 0..m /\ ~(k <= k - 1)
      BY <3>3, <3>4
    <3>6. g[k - 1] \in OneOf
      BY <3>2, <3>5
    <3>7. PICK l \in Levels : l = m + 1 - k
      BY <3>5, <1>4
    <3>8. g[k] = Descend(g[k - 1], l, q)
      BY <3>5, <3>7, <1>13
    <3>9. PICK s \in OneOf : s = g[k - 1]
      BY <3>6
    <3> QED
      BY <3>3, <3>8, <3>9, DescendOne
  <2> QED
    BY <2>1
<1>16. Descends(g, q)
  BY <1>1, <1>2, <1>13, <1>14, <1>15 DEF Descends
<1> QED
  BY <1>16

\* A vector that is not stored is in no one's hand.
LEMMA DescendKept ==
  ASSUME IndexTypes, CutOff(ix, DOMAIN db.stored, db.next), NEW level \in Levels, NEW q \in Nat, NEW at \in OneOf,
         at \cap Gone(ix, DOMAIN db.stored) = {}
  PROVE  Descend(at, level, q) \cap Gone(ix, DOMAIN db.stored) = {}
<1>1. PICK G : G = Gone(ix, DOMAIN db.stored)
  OBVIOUS
<1>2. /\ ix.multi => G = {}
      /\ \A g \in G : Off(ix.layers[level], g - 1) /\ g \in Nat
  BY <1>1 DEF CutOff, Gone
<1>3. PICK C : C = {n \in KnownIn(level) : GlobalIds(ix, level, n) \cap G = {}}
  OBVIOUS
<1>4. C \subseteq KnownIn(level) /\ KnownIn(level) \subseteq Nat /\ KnownIn(level) \subseteq NodesOf(ix.layers[level])
  BY <1>3, VectorsOK
<1>5. ToLocal(ix, at, level) \cap KnownIn(level) \subseteq C
  <2> SUFFICES ASSUME ~ix.multi, NEW id \in at, NEW n \in LocalIds(ix, id, level), n \in KnownIn(level) PROVE n \in C
    BY <1>2, <1>3 DEF ToLocal
  <2>1. id \in Nat /\ n = id - 1
    BY DEF OneOf, LocalIds
  <2>2. GlobalIds(ix, level, n) = {id}
    BY <2>1 DEF GlobalIds
  <2> QED
    BY <2>2, <1>1, <1>3
<1>6. \A x \in C : ix.layers[level].links[x] \cap KnownIn(level) \subseteq C
  <2> SUFFICES ASSUME NEW x \in C, NEW y \in ix.layers[level].links[x], y \in KnownIn(level) PROVE y \in C
    OBVIOUS
  <2>1. CASE ix.multi
    BY <2>1, <1>2, <1>3
  <2>2. CASE ~ix.multi
    <3>1. y \in Nat /\ x \in NodesOf(ix.layers[level]) /\ GlobalIds(ix, level, y) = {y + 1}
      BY <2>2, <1>4 DEF GlobalIds
    <3>2. y + 1 \notin G
      <4> SUFFICES ASSUME y + 1 \in G PROVE FALSE
        OBVIOUS
      <4>1. Off(ix.layers[level], (y + 1) - 1) /\ (y + 1) - 1 = y
        BY <1>2, <3>1
      <4> QED
        BY <4>1, <3>1 DEF Off
    <3> QED
      BY <3>1, <3>2, <1>3
  <2> QED
    BY <2>1, <2>2
<1>7. PICK r : r = Descend(at, level, q)
  OBVIOUS
<1>8. Descended(at, level, C, r)
  BY <1>4, <1>5, <1>6, <1>7, DescendCases
<1>9. r = at \/ r = {} \/ \E n \in C : r = GlobalIds(ix, level, n)
  BY <1>8 DEF Descended
<1> QED
  BY <1>1, <1>3, <1>7, <1>9

LEMMA SearchKept ==
  ASSUME IndexTypes, CutOff(ix, DOMAIN db.stored, db.next), NEW at \in OneOf,
         at \cap Gone(ix, DOMAIN db.stored) = {}
  PROVE  SearchedFrom(at).found \subseteq DOMAIN db.stored
<1>0. 0 \in Levels
  BY LevelFacts
<1>1. PICK G : G = Gone(ix, DOMAIN db.stored)
  OBVIOUS
<1>2. /\ ix.multi => G = {}
      /\ \A g \in G : Off(ix.layers[0], g - 1) /\ g \in Nat
  BY <1>0, <1>1 DEF CutOff, Gone
<1>3. PICK C : C = {n \in KnownIn(0) : GlobalIds(ix, 0, n) \cap G = {}}
  OBVIOUS
<1>4. C \subseteq KnownIn(0) /\ KnownIn(0) \subseteq Nat /\ KnownIn(0) \subseteq NodesOf(ix.layers[0])
      /\ IsFiniteSet(KnownIn(0))
  BY <1>0, <1>3, VectorsOK
<1>5. PICK from : from = ToLocal(ix, at, 0) \cap NodesOf(ix.layers[0])
  OBVIOUS
<1>6. ASSUME from \subseteq KnownIn(0)
      PROVE  UNION {GlobalIds(ix, 0, n) : n \in Reached(ix.layers[0], KnownIn(0), from)} \subseteq DOMAIN db.stored
  <2>1. from \subseteq C
    <3> SUFFICES ASSUME ~ix.multi, NEW id \in at, NEW n \in LocalIds(ix, id, 0), n \in KnownIn(0) PROVE n \in C
      BY <1>2, <1>3, <1>5, <1>6 DEF ToLocal
    <3>1. id \in Nat /\ n = id - 1
      BY DEF OneOf, LocalIds
    <3>2. GlobalIds(ix, 0, n) = {id}
      BY <3>1 DEF GlobalIds
    <3> QED
      BY <3>2, <1>1, <1>3
  <2>2. \A x \in C : ix.layers[0].links[x] \cap KnownIn(0) \subseteq C
    <3> SUFFICES ASSUME NEW x \in C, NEW y \in ix.layers[0].links[x], y \in KnownIn(0) PROVE y \in C
      OBVIOUS
    <3>1. CASE ix.multi
      BY <3>1, <1>2, <1>3
    <3>2. CASE ~ix.multi
      <4>1. y \in Nat /\ x \in NodesOf(ix.layers[0]) /\ GlobalIds(ix, 0, y) = {y + 1}
        BY <3>2, <1>4 DEF GlobalIds
      <4>2. y + 1 \notin G
        <5> SUFFICES ASSUME y + 1 \in G PROVE FALSE
          OBVIOUS
        <5>1. Off(ix.layers[0], (y + 1) - 1) /\ (y + 1) - 1 = y
          BY <1>2, <4>1
        <5> QED
          BY <5>1, <4>1 DEF Off
      <4> QED
        BY <4>1, <4>2, <1>3
    <3> QED
      BY <3>1, <3>2
  <2>3. PICK K, L : K = KnownIn(0) /\ L = ix.layers[0]
    OBVIOUS
  <2>4. Reached(L, K, from) \subseteq C
    BY <2>1, <2>2, <2>3, <1>4, ReachedWithin
  <2> SUFFICES ASSUME NEW n \in C, NEW g \in GlobalIds(ix, 0, n) PROVE g \in DOMAIN db.stored
    BY <2>3, <2>4
  <2>5. GlobalIds(ix, 0, n) \cap DOMAIN Vectors # {} /\ g \notin G
    BY <1>3 DEF KnownIn, Known
  <2>6. g \in DOMAIN Vectors
    BY <2>5, GlobalOne
  <2> QED
    BY <2>5, <2>6, <1>1 DEF Vectors, Gone
<1>7. SearchedFrom(at) =
        IF ToLocal(ix, at, 0) = {} \/ ~(from \subseteq KnownIn(0)) THEN Failure
        ELSE Answer(TRUE, UNION {GlobalIds(ix, 0, n) : n \in Reached(ix.layers[0], KnownIn(0), from)})
  BY <1>5 DEF SearchedFrom
<1> QED
  BY <1>6, <1>7 DEF Failure, Answer

LEMMA SearchFindsStored ==
  ASSUME IndexTypes, CutOff(ix, DOMAIN db.stored, db.next), NEW q \in Nat
  PROVE  Search(q).found \subseteq DOMAIN db.stored
<1>1. CASE ix.count = 0 \/ ix.eps = <<>>
  <2>1. Search(q) = Answer(TRUE, {}) \/ Search(q) = Failure
    BY <1>1 DEF Search
  <2> QED
    BY <2>1 DEF Answer, Failure
<1>2. CASE ix.count # 0 /\ ix.eps # <<>>
  <2>1. PICK f : Descends(f, q)
    BY <1>2, SearchSteps
  <2>2. PICK m \in Nat : m = Top
    BY TopLevel
  <2>3. PICK G : G = Gone(ix, DOMAIN db.stored)
    OBVIOUS
  <2> DEFINE Bad == {k \in 0..m : f[k] \cap G # {}}
  <2>4. ASSUME Bad # {} PROVE FALSE
    <3>1. Bad \subseteq Nat
      OBVIOUS
    <3>2. PICK k \in Bad : \A y \in Bad : k <= y
      <4> HIDE DEF Bad
      <4> QED
        BY <3>1, <2>4, LeastNatural
    <3>3. k \in 0..m /\ f[k] \cap G # {}
      BY <3>2
    <3>4. k # 0
      <4>1. f[0] = {ix.eps[Len(ix.eps)]}
        BY <2>1 DEF Descends
      <4>2. PICK s \in Seq(Nat) : s = ix.eps
        BY DEF IndexTypes, IndexOK, Indexes
      <4>3. s # <<>> => Len(s) \in DOMAIN s
        OBVIOUS
      <4>4. ix.eps[Len(ix.eps)] \in Range(ix.eps)
        BY <1>2, <4>2, <4>3 DEF Range
      <4>5. ix.eps[Len(ix.eps)] \notin G
        BY <4>4, <2>3 DEF CutOff
      <4> QED
        BY <3>3, <4>1, <4>5
    <3>5. k \in 1..m /\ k - 1 \in 0..m /\ ~(k <= k - 1)
      BY <3>3, <3>4
    <3>6. f[k - 1] \cap G = {}
      BY <3>2, <3>5
    <3>7. PICK s \in OneOf : s = f[k - 1]
      BY <2>1, <2>2, <3>5 DEF Descends
    <3>8. PICK l \in Levels : l = m + 1 - k
      <4>1. m + 1 - k \in 0..m
        BY <3>5
      <4> QED
        BY <4>1, <2>2, TopLevel
    <3>9. f[k] = Descend(s, l, q)
      BY <2>1, <2>2, <3>5, <3>7, <3>8 DEF Descends
    <3> QED
      BY <2>3, <3>3, <3>6, <3>7, <3>9, DescendKept
  <2>5. m \in 0..m /\ f[m] \cap G = {}
    BY <2>4
  <2>6. PICK at \in OneOf : at = f[m]
    BY <2>1, <2>2, <2>5 DEF Descends
  <2>7. SearchedFrom(at).found \subseteq DOMAIN db.stored
    BY <2>3, <2>5, <2>6, SearchKept
  <2> QED
    BY <2>1, <2>2, <2>6, <2>7 DEF Descends
<1> QED
  BY <1>1, <1>2

\* A search never answers with a vector that is not stored: delete_vector takes
\* a vector out of the entry points and out of every link, and no insertion
\* links to a node that no search comes to.
THEOREM SearchesFindStored == IndexSpec => []FindsOnlyStored
<1>1. IndexInit => IndexTypes /\ OnlyInv
  <2> SUFFICES ASSUME IndexInit PROVE IndexTypes /\ OnlyInv
    OBVIOUS
  <2>1. IndexTypes /\ DOMAIN ix.cache = {}
    BY IndexStarts DEF NewAs, NoVectors
  <2>2. CutOff(ix, DOMAIN db.stored, db.next)
    BY <2>1 DEF CutOff, Gone
  <2> QED
    BY <2>1, <2>2 DEF OnlyInv
<1>2. IndexTypes /\ OnlyInv /\ [IndexNext]_indexVars => (IndexTypes /\ OnlyInv)'
  BY IndexTypesStep, OnlyStep
<1>3. IndexTypes /\ OnlyInv => FindsOnlyStored
  <2> SUFFICES ASSUME IndexTypes, CutOff(ix, DOMAIN db.stored, db.next), NEW q \in Positions
               PROVE  Search(q).found \subseteq DOMAIN db.stored
    BY DEF OnlyInv, FindsOnlyStored
  <2>1. q \in Nat
    BY HnswAssumption
  <2> QED
    BY <2>1, SearchFindsStored
<1> QED
  BY <1>1, <1>2, <1>3, PTL DEF IndexSpec

-----------------------------------------------------------------------------
(* The vector index: FindsEverything *)

\* The nodes of the base layer are those of the stored vectors, a vector of an
\* upper layer is in every layer below it, and the cache has every vector or,
\* read back with little memory, none.
Numbers(i, S) ==
  /\ i.multi => /\ Range(i.maps[0]) = S /\ DOMAIN i.cache = S
                /\ \A l, m \in Levels : m <= l => /\ Range(i.maps[l]) \subseteq Range(i.maps[m])
                                                  /\ Len(i.maps[l]) <= Len(i.maps[m])
  /\ ~i.multi => /\ NodesOf(i.layers[0]) = {id - 1 : id \in S}
                 /\ \A l \in Levels : NodesOf(i.layers[l]) \subseteq NodesOf(i.layers[0])
                 /\ DOMAIN i.cache = S \/ DOMAIN i.cache = {}

\* Nothing of the index is lost.
Whole(i, S) ==
  /\ Numbers(i, S)
  /\ Connected(i.layers[0])
  /\ NodesOf(i.layers[0]) # {} => i.layers[0].eps # {}
  /\ i.count = 0 <=> S = {}
  /\ i.eps = <<>> <=> S = {}
  /\ Range(i.eps) \subseteq S

\* Nor of its entry points, as they are saved.
EntryWhole(d) ==
  /\ DOMAIN d.rows[0] # {} => d.entry # <<>>
  /\ Range(d.entry) \subseteq DOMAIN d.stored
WholeInv == events \subseteq {"rebuilt", "commit lost"} => Whole(ix, DOMAIN db.stored) /\ EntryWhole(db)

\* The number of an id that joined a layer of a multi-layer index.
LocalAt(i, e, l, s) == \E m \in 0..(Len(s) - 1) : LocalIds(i, e, l) = {m} /\ s[m + 1] = e
LEMMA LocalIn ==
  ASSUME NEW i, NEW l, NEW s \in Seq(Nat), NEW e \in Range(s)
  PROVE  i.multi /\ s = i.maps[l] => LocalAt(i, e, l, s)
<1> SUFFICES ASSUME i.multi, s = i.maps[l] PROVE LocalAt(i, e, l, s)
  OBVIOUS
<1> DEFINE places == {k \in DOMAIN s : s[k] = e}
<1>1. places \subseteq Nat /\ (\A k \in places : k <= Len(s)) /\ Len(s) \in Nat
  OBVIOUS
<1>2. places # {}
  BY DEF Range
<1>3. Max(places) \in places
  <2> HIDE DEF places
  <2> QED
    BY <1>1, <1>2, GreatestNatural
<1>4. PICK k : k = Max(places)
  OBVIOUS
<1>5. k \in 1..Len(s) /\ s[k] = e
  BY <1>3, <1>4
<1>6. PICK m : m = k - 1
  OBVIOUS
<1>7. m \in 0..(Len(s) - 1) /\ m + 1 = k
  BY <1>1, <1>5, <1>6
<1>8. LocalIds(i, e, l) = {m}
  <2>1. LocalIds(i, e, l) = IF places = {} THEN {} ELSE {Max(places) - 1}
    BY DEF LocalIds
  <2> HIDE DEF places
  <2> QED
    BY <2>1, <1>2, <1>4, <1>6
<1> QED
  BY <1>5, <1>7, <1>8 DEF LocalAt

\* The ids of a layer.
IdsOf(i, l) == UNION {GlobalIds(i, l, n) : n \in NodesOf(i.layers[l])}
LEMMA MultiIds ==
  ASSUME NEW i, IndexOK(i), Numbered(i), i.multi, NEW l \in Levels
  PROVE  IdsOf(i, l) = Range(i.maps[l])
<1>1. PICK s \in Seq(Nat) : s = i.maps[l]
  BY DEF IndexOK, Indexes
<1>2. NodesOf(i.layers[l]) = 0..(Len(s) - 1) /\ Len(s) \in Nat
  BY <1>1 DEF Numbered
<1>3. \A n : GlobalIds(i, l, n) = {s[k] : k \in DOMAIN s \cap {n + 1}}
  BY <1>1 DEF GlobalIds
<1>4. ASSUME NEW g \in IdsOf(i, l) PROVE g \in Range(s)
  <2>1. PICK n : g \in GlobalIds(i, l, n)
    BY <1>4 DEF IdsOf
  <2> QED
    BY <2>1, <1>3 DEF Range
<1>5. ASSUME NEW g \in Range(s) PROVE g \in IdsOf(i, l)
  <2>1. PICK k \in DOMAIN s : g = s[k]
    BY DEF Range
  <2>2. PICK n : n = k - 1
    OBVIOUS
  <2>3. n \in 0..(Len(s) - 1) /\ n + 1 = k
    BY <2>1, <2>2, <1>2
  <2>4. g \in GlobalIds(i, l, n)
    BY <2>1, <2>3, <1>3
  <2> QED
    BY <2>3, <2>4, <1>2 DEF IdsOf
<1> QED
  BY <1>1, <1>4, <1>5

LEMMA WholeIds ==
  ASSUME NEW i, IndexOK(i), Numbered(i), NEW S, S \subseteq Nat, Numbers(i, S)
  PROVE  /\ IdsOf(i, 0) = S
         /\ \A l \in Levels : IdsOf(i, l) \subseteq S
         /\ \A l \in Levels : \A e \in IdsOf(i, l) : \E m \in NodesOf(i.layers[l]) : LocalIds(i, e, l) = {m}
         /\ i.multi => \A l, m \in Levels : m <= l => IdsOf(i, l) \subseteq IdsOf(i, m)
         /\ NodesOf(i.layers[0]) = {} <=> S = {}
<1>0. 0 \in Levels /\ \A l \in Levels : NodesOf(i.layers[l]) \subseteq Nat
  BY LevelFacts, LinkMapFacts DEF IndexOK, LayerOK, Layers, NodesOf
<1>1. CASE i.multi
  <2>1. \A l \in Levels : IdsOf(i, l) = Range(i.maps[l])
    BY <1>1, MultiIds
  <2>2. IdsOf(i, 0) = S
    BY <1>0, <1>1, <2>1 DEF Numbers
  <2>3. \A l, m \in Levels : m <= l => IdsOf(i, l) \subseteq IdsOf(i, m)
    BY <1>1, <2>1 DEF Numbers
  <2>4. \A l \in Levels : IdsOf(i, l) \subseteq S
    <3>1. \A l \in Levels : 0 <= l
      BY LevelFacts
    <3> QED
      BY <3>1, <2>2, <2>3, <1>0
  <2>5. ASSUME NEW l \in Levels, NEW e \in IdsOf(i, l)
        PROVE  \E m \in NodesOf(i.layers[l]) : LocalIds(i, e, l) = {m}
    <3>1. PICK s \in Seq(Nat) : s = i.maps[l]
      BY DEF IndexOK, Indexes
    <3>2. NodesOf(i.layers[l]) = 0..(Len(s) - 1)
      BY <1>1, <3>1 DEF Numbered
    <3>3. e \in Range(s)
      BY <2>1, <3>1
    <3>4. PICK m \in 0..(Len(s) - 1) : LocalIds(i, e, l) = {m} /\ s[m + 1] = e
      <4>1. LocalAt(i, e, l, s)
        BY <1>1, <3>1, <3>3, LocalIn
      <4> QED
        BY <4>1 DEF LocalAt
    <3> QED
      BY <3>2, <3>4
  <2>6. NodesOf(i.layers[0]) = {} <=> S = {}
    <3>1. PICK s \in Seq(Nat) : s = i.maps[0]
      BY <1>0 DEF IndexOK, Indexes
    <3>2. NodesOf(i.layers[0]) = 0..(Len(s) - 1) /\ S = Range(s)
      BY <1>0, <1>1, <3>1 DEF Numbered, Numbers
    <3>3. 0..(Len(s) - 1) = {} <=> DOMAIN s = {}
      <4>1. Len(s) \in Nat /\ DOMAIN s = 1..Len(s)
        OBVIOUS
      <4>2. PICK k \in Nat : k = Len(s)
        BY <4>1
      <4>3. 0..(k - 1) = {} <=> 1..k = {}
        <5>1. CASE k = 0
          BY <5>1
        <5>2. CASE k # 0
          <6>1. 1 \in 1..k /\ 0 \in 0..(k - 1)
            BY <5>2, <4>2
          <6> QED
            BY <6>1
        <5> QED
          BY <5>1, <5>2
      <4> QED
        BY <4>1, <4>2, <4>3
    <3>4. Range(s) = {} <=> DOMAIN s = {}
      BY DEF Range
    <3> QED
      BY <3>2, <3>3, <3>4
  <2> QED
    BY <2>2, <2>3, <2>4, <2>5, <2>6
<1>2. CASE ~i.multi
  <2>1. /\ NodesOf(i.layers[0]) = {id - 1 : id \in S}
        /\ \A l \in Levels : NodesOf(i.layers[l]) \subseteq NodesOf(i.layers[0])
    BY <1>2 DEF Numbers
  <2>2. \A l : \A n : GlobalIds(i, l, n) = {n + 1} /\ LocalIds(i, n, l) = {n - 1}
    BY <1>2 DEF GlobalIds, LocalIds
  <2>3. \A l : IdsOf(i, l) = {n + 1 : n \in NodesOf(i.layers[l])}
    BY <2>2 DEF IdsOf
  <2>4. IdsOf(i, 0) = S
    <3>1. \A n \in NodesOf(i.layers[0]) : n + 1 \in S
      BY <2>1
    <3>2. \A id \in S : id - 1 \in NodesOf(i.layers[0]) /\ (id - 1) + 1 = id
      <4>1. \A id \in S : id \in Nat /\ (id - 1) + 1 = id
        OBVIOUS
      <4> QED
        BY <2>1, <4>1
    <3>3. PICK N : N = NodesOf(i.layers[0])
      OBVIOUS
    <3>4. IdsOf(i, 0) = {n + 1 : n \in N}
      BY <2>3, <3>3
    <3>5. \A id \in S : \E n \in N : n + 1 = id
      BY <3>2, <3>3
    <3> QED
      BY <3>1, <3>3, <3>4, <3>5
  <2>5. \A l \in Levels : IdsOf(i, l) \subseteq S
    BY <2>1, <2>3, <2>4, <1>0
  <2>6. ASSUME NEW l \in Levels, NEW e \in IdsOf(i, l)
        PROVE  \E m \in NodesOf(i.layers[l]) : LocalIds(i, e, l) = {m}
    <3>1. PICK n \in NodesOf(i.layers[l]) : e = n + 1
      BY <2>3
    <3>2. n \in Nat /\ LocalIds(i, e, l) = {e - 1}
      BY <1>0, <2>2
    <3>3. e - 1 = n
      BY <3>1, <3>2
    <3> QED
      BY <3>2, <3>3
  <2>7. NodesOf(i.layers[0]) = {} <=> S = {}
    BY <2>1
  <2> QED
    BY <2>4, <2>5, <2>6, <2>7, <1>2
<1> QED
  BY <1>1, <1>2

\* The new vector is no node yet.
LEMMA NewOutside ==
  ASSUME NEW i, IndexOK(i), Numbered(i), NEW S, S \subseteq Nat, Numbers(i, S), NEW id \in Nat \ {0}, id \notin S
  PROVE  NewNode(i, id, 0) \notin NodesOf(i.layers[0])
<1>0. 0 \in Levels
  BY LevelFacts
<1>1. CASE i.multi
  <2>1. PICK s \in Seq(Nat) : s = i.maps[0]
    BY <1>0 DEF IndexOK, Indexes
  <2>2. NodesOf(i.layers[0]) = 0..(Len(s) - 1) /\ NewNode(i, id, 0) = Len(s)
    BY <1>0, <1>1, <2>1 DEF Numbered, NewNode
  <2> QED
    BY <2>2
<1>2. CASE ~i.multi
  <2>1. NodesOf(i.layers[0]) = {x - 1 : x \in S} /\ NewNode(i, id, 0) = id - 1
    BY <1>2 DEF Numbers, NewNode
  <2>2. \A x \in S : x - 1 # id - 1
    OBVIOUS
  <2> QED
    BY <2>1, <2>2
<1> QED
  BY <1>1, <1>2

\* An insertion among nodes starts at one of them.
LEMMA EntriesFound ==
  ASSUME NEW i, IndexOK(i), Numbered(i), NEW S, S \subseteq Nat, Whole(i, S), NodesOf(i.layers[0]) # {},
         NEW id \in Nat \ {0}, id \notin S, NEW p \in Nat, NEW level \in LevelsOf(i),
         NEW b, IndexOK(b), SameBesides(Prepared(i, id, p, level), b), b.layers[0] = i.layers[0],
         NEW n, n = NewNode(i, id, 0)
  PROVE  Entries(b, 0, n) \ {n} # {} /\ (n \in Entries(b, 0, n) => Width(0) >= 2)
<1>0. 0 \in Levels /\ level \in Levels /\ level \in Nat /\ 0 \in 0..level
  BY LevelFacts, LevelsUpTo
<1>1. PICK L : L = i.layers[0]
  OBVIOUS
<1>2. PICK J : J = LayerWith(b, 0, n)
  OBVIOUS
<1>3. LayerOK(L) /\ n \notin NodesOf(L) /\ n \in Nat /\ L.eps # {} /\ L.eps \subseteq NodesOf(L)
  <2>1. n \in Nat
    BY <1>0, NumberOf
  <2>2. LayerOK(L)
    BY <1>0, <1>1 DEF IndexOK
  <2> QED
    BY <1>1, <2>1, <2>2, NewOutside DEF Whole, LayerOK
<1>4. J = AddNode(L, n, 0)
  BY <1>1, <1>2 DEF LayerWith
<1>5. LayerOK(J) /\ NodesOf(J) = NodesOf(L) \cup {n} /\ L.eps \subseteq J.eps
  BY <1>3, <1>4, AddNodeOK
<1>6. n \in J.eps => Width(0) >= 2
  <2> SUFFICES ASSUME n \in J.eps PROVE Width(0) >= 2
    OBVIOUS
  <2>1. Cardinality(L.eps) < Width(0)
    BY <1>3, <1>4 DEF AddNode
  <2>2. IsFiniteSet(L.eps)
    BY <1>3, FS_Subset DEF LayerOK
  <2>3. Cardinality(L.eps) \in Nat /\ Cardinality(L.eps) # 0
    BY <1>3, <2>2, FS_EmptySet, FS_CardinalityType
  <2>4. Width(0) \in Nat
    BY WidthFact
  <2> QED
    BY <2>1, <2>3, <2>4
<1>7. PICK k : k = IndexWith(b, 0, J)
  OBVIOUS
<1>8. SameBesides(b, k) /\ k.layers[0] = J
  BY <1>0, <1>5, <1>7, IndexWithOK
<1>9. Entries(b, 0, n) = EntryNodes(k, 0) \cap NodesOf(J)
  BY <1>2, <1>7 DEF Entries
<1>10. PreparedAs(i, id, p, level, Prepared(i, id, p, level))
  BY PreparedOK
<1>11. /\ k.multi = i.multi /\ k.ml = i.ml /\ k.eps = i.eps
       /\ i.multi => k.maps[0] = Append(i.maps[0], id)
  <2>1. PICK c : c = Prepared(i, id, p, level)
    OBVIOUS
  <2>2. 0 <= level
    BY <1>0
  <2> QED
    BY <2>1, <2>2, <1>0, <1>8, <1>10 DEF PreparedAs, SameBesides
<1>12. i.ml \in 1..16
  BY DEF IndexOK, Indexes
<1>13. CASE i.ml # 1
  <2>1. 0 # k.ml - 1
    BY <1>11, <1>12, <1>13
  <2>2. EntryNodes(k, 0) = J.eps
    BY <2>1, <1>8 DEF EntryNodes
  <2>3. Entries(b, 0, n) = J.eps
    BY <2>2, <1>5, <1>9 DEF LayerOK
  <2> QED
    BY <2>3, <1>3, <1>5, <1>6
<1>14. CASE i.ml = 1
  <2>1. EntryNodes(k, 0) = ToLocal(k, Range(i.eps), 0)
    BY <1>11, <1>14 DEF EntryNodes
  <2>2. S # {} /\ Range(i.eps) \subseteq S /\ i.eps \in Seq(Nat)
    <3>1. S # {}
      BY WholeIds DEF Whole
    <3> QED
      BY <3>1 DEF Whole, IndexOK, Indexes
  <2>3. PICK e \in Range(i.eps) : TRUE
    <3>1. PICK s \in Seq(Nat) : s = i.eps
      BY <2>2
    <3>2. s # <<>> => 1 \in DOMAIN s
      OBVIOUS
    <3>3. i.eps # <<>>
      BY <2>2 DEF Whole
    <3> QED
      BY <3>1, <3>2, <3>3 DEF Range
  <2>4. ASSUME NEW x \in Range(i.eps) PROVE \E m \in NodesOf(L) : LocalIds(k, x, 0) = {m}
    <3>1. x \in S /\ x # id /\ x \in Nat
      BY <2>2
    <3>2. CASE ~i.multi
      <4>1. LocalIds(k, x, 0) = {x - 1}
        BY <3>2, <1>11 DEF LocalIds
      <4>2. x - 1 \in NodesOf(L)
        BY <3>1, <3>2, <1>1 DEF Whole, Numbers
      <4> QED
        BY <4>1, <4>2
    <3>3. CASE i.multi
      <4>1. PICK s \in Seq(Nat) : s = i.maps[0]
        BY <1>0 DEF IndexOK, Indexes
      <4>2. PICK t \in Seq(Nat) : t = Append(s, id)
        <5>1. id \in Nat
          OBVIOUS
        <5>2. Append(s, id) \in Seq(Nat)
          BY <5>1
        <5> QED
          BY <5>2
      <4>3. k.multi /\ k.maps[0] = t /\ NodesOf(L) = 0..(Len(s) - 1) /\ Range(s) = S
        BY <3>3, <4>1, <4>2, <1>0, <1>1, <1>11 DEF Whole, Numbers, Numbered
      <4>4. x \in Range(t)
        BY <3>1, <4>2, <4>3, RangeAppend
      <4>5. PICK m \in 0..(Len(t) - 1) : LocalIds(k, x, 0) = {m} /\ t[m + 1] = x
        <5>1. LocalAt(k, x, 0, t)
          BY <4>3, <4>4, LocalIn
        <5> QED
          BY <5>1 DEF LocalAt
      <4>6. Len(s) \in Nat /\ Len(t) - 1 = Len(s) /\ t[Len(s) + 1] = id
        BY <4>2
      <4>7. m \in 0..(Len(s) - 1)
        <5>1. m # Len(s)
          BY <3>1, <4>5, <4>6
        <5> QED
          BY <5>1, <4>5, <4>6
      <4> QED
        BY <4>3, <4>5, <4>7
    <3> QED
      BY <3>2, <3>3
  <2>5. ToLocal(k, Range(i.eps), 0) \subseteq NodesOf(L) /\ ToLocal(k, Range(i.eps), 0) # {}
    <3>1. \A x \in Range(i.eps) : LocalIds(k, x, 0) \subseteq NodesOf(L) /\ LocalIds(k, x, 0) # {}
      BY <2>4
    <3> QED
      BY <3>1, <2>3 DEF ToLocal
  <2> QED
    BY <2>1, <2>5, <1>3, <1>5, <1>9
<1> QED
  BY <1>13, <1>14

\* A vector that joins everywhere, with no link pruned, keeps the index whole.
LEMMA WholeAdded ==
  ASSUME NEW i, IndexOK(i), Numbered(i), NEW S, S \subseteq Nat, Whole(i, S),
         NEW id \in Nat \ {0}, id \notin S, NEW p \in Nat, NEW level \in LevelsOf(i),
         NEW r, AddedAs(i, id, p, level, r), AddedIn(i, id, level, r.index), r.ok, ~Shrinks(i, r.index)
  PROVE  Whole(r.index, S \cup {id})
<1>0. 0 \in Levels /\ level \in Levels /\ level \in Nat /\ 0 \in 0..level /\ (~i.multi => level = 0)
  BY LevelFacts, LevelsUpTo
<1>1. PICK j : j = r.index
  OBVIOUS
<1>2. PICK n : n = NewNode(i, id, 0)
  OBVIOUS
<1>3. PICK L, M : L = i.layers[0] /\ M = j.layers[0]
  OBVIOUS
<1>4. PICK T : T = S \cup {id}
  OBVIOUS
<1>5. Grown(L, M, n) /\ Growth(i, j, id, 0, level)
  BY <1>0, <1>1, <1>2, <1>3, AddedGrows DEF AddedAs
<1>6. PICK b : /\ IndexOK(b) /\ SameBesides(Prepared(i, id, p, level), b) /\ b.layers[0] = L
               /\ InsertIntoLayer(b, id, 0).ok /\ M = InsertIntoLayer(b, id, 0).index.layers[0]
  BY <1>1, <1>3 DEF AddedAs, BaseJoined
<1>7. n \in Nat /\ LocalIds(b, id, 0) = {n}
  BY <1>0, <1>2, <1>6, NumberOf
<1>8. b.cache = With(i.cache, id, p) /\ b.multi = i.multi
  <2>1. PICK c : c = Prepared(i, id, p, level)
    OBVIOUS
  <2>2. PreparedAs(i, id, p, level, c)
    BY <2>1, PreparedOK
  <2> QED
    BY <2>1, <2>2, <1>6 DEF PreparedAs, SameBesides
<1>9. NodesOf(L) # {} => Entries(b, 0, n) \ {n} # {} /\ (n \in Entries(b, 0, n) => Width(0) >= 2)
  BY <1>2, <1>3, <1>6, EntriesFound
<1>10. Connected(M)
  <2>1. PICK a : a = InsertIntoLayer(b, id, 0)
    OBVIOUS
  <2>2. a.ok = TRUE
    <3>1. InsertResult(b, id, 0, n, a)
      BY <2>1, <1>7, InsertCases
    <3>2. a.ok \in BOOLEAN
      BY <3>1 DEF InsertResult
    <3> QED
      BY <3>2, <2>1, <1>6
  <2>3. b.cache[id] \in Nat
    BY <1>8 DEF With
  <2>4. \A x \in NodesOf(L) : L.links[x] \subseteq M.links[x]
    BY <1>0, <1>1, <1>3 DEF Shrinks
  <2>5. Connected(L)
    BY <1>3 DEF Whole
  <2> QED
    BY <2>1, <2>2, <2>3, <2>4, <2>5, <1>6, <1>7, <1>9, InsertConnected
<1>11. M.eps # {}
  BY <1>5 DEF Grown
<1>12. i.eps \in Seq(Nat) /\ i.count \in Nat /\ j.multi = i.multi /\ j.cache = With(i.cache, id, p)
       /\ j.eps = (IF level >= Len(i.eps) THEN Append(i.eps, id) ELSE i.eps) /\ j.count = i.count + 1
  BY <1>1 DEF AddedAs, IndexOK, Indexes
<1>13. j.count # 0 /\ T # {}
  BY <1>4, <1>12
<1>14. j.eps # <<>> /\ Range(j.eps) \subseteq T
  <2>1. PICK s \in Seq(Nat) : s = i.eps
    BY <1>12
  <2>2. Range(s) \subseteq S
    BY <2>1 DEF Whole
  <2>3. CASE level >= Len(s)
    <3>1. j.eps = Append(s, id)
      BY <2>1, <2>3, <1>12
    <3>2. Append(s, id) # <<>>
      <4>1. Len(Append(s, id)) = Len(s) + 1 /\ Len(s) \in Nat /\ Len(<<>>) = 0
        OBVIOUS
      <4> QED
        BY <4>1
    <3> QED
      BY <3>1, <3>2, <2>2, <1>4, RangeAppend
  <2>4. CASE ~(level >= Len(s))
    <3>1. j.eps = s /\ s # <<>>
      BY <2>1, <2>4, <1>0, <1>12
    <3> QED
      BY <3>1, <2>2, <1>4
  <2> QED
    BY <2>3, <2>4
<1>15. DOMAIN j.cache = DOMAIN i.cache \cup {id}
  BY <1>12 DEF With
<1>16. CASE i.multi
  <2>1. /\ Range(i.maps[0]) = S /\ DOMAIN i.cache = S
        /\ \A l, m \in Levels : m <= l => /\ Range(i.maps[l]) \subseteq Range(i.maps[m])
                                          /\ Len(i.maps[l]) <= Len(i.maps[m])
    BY <1>16 DEF Whole, Numbers
  <2>2. \A l \in Levels : j.maps[l] = IF l <= level THEN Append(i.maps[l], id) ELSE i.maps[l]
    BY <1>1, <1>16 DEF AddedIn
  <2>3. \A l \in Levels : i.maps[l] \in Seq(Nat) /\ Len(i.maps[l]) \in Nat /\ l \in Nat
    BY LevelFacts DEF IndexOK, Indexes
  <2>4. \A l \in Levels : /\ l <= level => /\ Range(j.maps[l]) = Range(i.maps[l]) \cup {id}
                                           /\ Len(j.maps[l]) = Len(i.maps[l]) + 1
                          /\ ~(l <= level) => j.maps[l] = i.maps[l]
    <3> SUFFICES ASSUME NEW l \in Levels
                 PROVE  /\ l <= level => /\ Range(j.maps[l]) = Range(i.maps[l]) \cup {id}
                                         /\ Len(j.maps[l]) = Len(i.maps[l]) + 1
                        /\ ~(l <= level) => j.maps[l] = i.maps[l]
      OBVIOUS
    <3>1. PICK s \in Seq(Nat) : s = i.maps[l]
      BY <2>3
    <3>2. Len(Append(s, id)) = Len(s) + 1 /\ Range(Append(s, id)) = Range(s) \cup {id}
      BY RangeAppend
    <3> QED
      BY <3>1, <3>2, <2>2
  <2>5. ASSUME NEW l \in Levels, NEW m \in Levels, m <= l
        PROVE  Range(j.maps[l]) \subseteq Range(j.maps[m]) /\ Len(j.maps[l]) <= Len(j.maps[m])
    <3>1. Range(i.maps[l]) \subseteq Range(i.maps[m]) /\ Len(i.maps[l]) <= Len(i.maps[m])
      BY <2>1, <2>5
    <3>2. CASE l <= level
      <4>1. m <= level
        BY <2>3, <2>5, <3>2, <1>0
      <4>2. /\ Range(j.maps[l]) = Range(i.maps[l]) \cup {id} /\ Range(j.maps[m]) = Range(i.maps[m]) \cup {id}
            /\ Len(j.maps[l]) = Len(i.maps[l]) + 1 /\ Len(j.maps[m]) = Len(i.maps[m]) + 1
        BY <2>4, <3>2, <4>1
      <4>3. Range(j.maps[l]) \subseteq Range(j.maps[m])
        BY <3>1, <4>2
      <4>4. Len(j.maps[l]) <= Len(j.maps[m])
        BY <2>3, <3>1, <4>2
      <4> QED
        BY <4>3, <4>4
    <3>3. CASE ~(l <= level)
      <4>1. j.maps[l] = i.maps[l]
        BY <2>4, <3>3
      <4>2. CASE m <= level
        <5>1. Range(j.maps[m]) = Range(i.maps[m]) \cup {id} /\ Len(j.maps[m]) = Len(i.maps[m]) + 1
          BY <2>4, <4>2
        <5>2. Range(j.maps[l]) \subseteq Range(j.maps[m])
          BY <3>1, <4>1, <5>1
        <5>3. Len(j.maps[l]) <= Len(j.maps[m])
          BY <2>3, <3>1, <4>1, <5>1
        <5> QED
          BY <5>2, <5>3
      <4>3. CASE ~(m <= level)
        <5>1. j.maps[m] = i.maps[m]
          BY <2>4, <4>3
        <5> QED
          BY <3>1, <4>1, <5>1
      <4> QED
        BY <4>2, <4>3
    <3> QED
      BY <3>2, <3>3
  <2>6. Range(j.maps[0]) = T
    <3>1. 0 <= level
      BY <1>0
    <3> QED
      BY <3>1, <2>1, <2>4, <1>0, <1>4
  <2>7. DOMAIN j.cache = T
    BY <2>1, <1>4, <1>15
  <2> QED
    BY <2>5, <2>6, <2>7, <1>1, <1>3, <1>4, <1>10, <1>11, <1>12, <1>13, <1>14, <1>16 DEF Whole, Numbers
<1>17. CASE ~i.multi
  <2>1. /\ NodesOf(L) = {x - 1 : x \in S} /\ \A l \in Levels : NodesOf(i.layers[l]) \subseteq NodesOf(L)
        /\ DOMAIN i.cache = S \/ DOMAIN i.cache = {}
    BY <1>3, <1>17 DEF Whole, Numbers
  <2>2. n = id - 1 /\ NodesOf(M) = NodesOf(L) \cup {n}
    BY <1>2, <1>5, <1>17 DEF Grown, NewNode
  <2>3. NodesOf(M) = {x - 1 : x \in T}
    BY <2>1, <2>2, <1>4
  <2>4. \A l \in Levels : NodesOf(j.layers[l]) \subseteq NodesOf(M)
    <3> SUFFICES ASSUME NEW l \in Levels, l # 0 PROVE NodesOf(j.layers[l]) \subseteq NodesOf(M)
      BY <1>3
    <3>1. ~(l <= level)
      BY <1>0, <1>17, LevelFacts
    <3>2. j.layers[l] = i.layers[l]
      BY <3>1, <1>5 DEF Growth
    <3> QED
      BY <3>2, <2>1, <2>2
  <2>5. ASSUME DOMAIN i.cache = {}, S # {} PROVE FALSE
    <3>1. NodesOf(L) # {}
      BY <2>1, <2>5
    <3>2. PICK e \in Entries(b, 0, n) : e # n
      BY <3>1, <1>9
    <3>3. DOMAIN b.cache = {id}
      BY <2>5, <1>8 DEF With
    <3>4. e \notin KnownWith(b, 0, n)
      <4> SUFFICES ASSUME e \in KnownWith(b, 0, n) PROVE FALSE
        OBVIOUS
      <4>1. GlobalIds(b, 0, e) = {e + 1}
        BY <1>8, <1>17 DEF GlobalIds
      <4>2. e + 1 = id
        BY <4>1, <3>3 DEF KnownWith, Known
      <4>3. e \in Nat
        <5>1. n \notin NodesOf(b.layers[0])
          BY <1>5, <1>6 DEF Grown
        <5>2. PICK J : J = LayerWith(b, 0, n)
          OBVIOUS
        <5>3. LayerOK(J) /\ Entries(b, 0, n) \subseteq NodesOf(J)
          BY <5>1, <5>2, <1>0, <1>6, <1>7, SearchParts
        <5>4. NodesOf(J) \subseteq Nat
          BY <5>3, LinkMapFacts DEF LayerOK, Layers, NodesOf
        <5> QED
          BY <5>3, <5>4
      <4> QED
        BY <4>2, <4>3, <3>2, <2>2
    <3> QED
      BY <3>1, <3>2, <3>4, <1>6, <1>7, InsertRefused
  <2>6. DOMAIN j.cache = T
    <3>1. CASE DOMAIN i.cache = S
      BY <3>1, <1>4, <1>15
    <3>2. CASE DOMAIN i.cache = {}
      BY <3>2, <2>5, <1>4, <1>15
    <3> QED
      BY <3>1, <3>2, <2>1
  <2> QED
    BY <2>3, <2>4, <2>6, <1>1, <1>3, <1>4, <1>10, <1>11, <1>12, <1>13, <1>14, <1>17 DEF Whole, Numbers
<1> QED
  BY <1>16, <1>17

\* Nothing of it depends on the marks.
LEMMA WholeSame ==
  ASSUME NEW i, NEW j, SameBesides(i, j), NEW S, Whole(i, S),
         \A l \in Levels : j.layers[l].links = i.layers[l].links /\ j.layers[l].eps = i.layers[l].eps
  PROVE  Whole(j, S)
<1>0. 0 \in Levels
  BY LevelFacts
<1>1. \A l \in Levels : NodesOf(j.layers[l]) = NodesOf(i.layers[l])
  BY DEF NodesOf
<1>2. Connected(j.layers[0])
  BY <1>0, <1>1 DEF Whole, Connected
<1>3. Numbers(j, S)
  BY <1>0, <1>1 DEF Whole, Numbers, SameBesides
<1> QED
  BY <1>0, <1>1, <1>2, <1>3 DEF Whole, SameBesides

LEMMA EmptySequence ==
  ASSUME NEW s \in Seq(Nat)
  PROVE  s = <<>> <=> Range(s) = {}
<1>1. s # <<>> => 1 \in DOMAIN s
  OBVIOUS
<1> QED
  BY <1>1 DEF Range

\* A new index is whole, without a vector.
LEMMA WholeNew ==
  ASSUME NEW multi, NEW ml, NEW i, NewAs(multi, ml, i)
  PROVE  Whole(i, {})
<1>0. 0 \in Levels
  BY LevelFacts
<1>1. \A l \in Levels : NodesOf(i.layers[l]) = {} /\ i.maps[l] = <<>>
  BY EmptyLayerOK DEF NewAs
<1>2. Range(<<>>) = {} /\ Len(<<>>) = 0
  BY DEF Range
<1>3. DOMAIN i.cache = {} /\ i.eps = <<>> /\ i.count = 0
  BY DEF NewAs, NoVectors
<1>4. Numbers(i, {})
  <2>1. {id - 1 : id \in {}} = {}
    OBVIOUS
  <2>2. \A l \in Levels : Range(i.maps[l]) = {} /\ Len(i.maps[l]) = 0
    BY <1>1, <1>2
  <2>3. \A l, m \in Levels : Range(i.maps[l]) \subseteq Range(i.maps[m]) /\ Len(i.maps[l]) <= Len(i.maps[m])
    BY <2>2
  <2>4. i.multi => /\ Range(i.maps[0]) = {} /\ DOMAIN i.cache = {}
                   /\ \A l, m \in Levels : m <= l => /\ Range(i.maps[l]) \subseteq Range(i.maps[m])
                                                     /\ Len(i.maps[l]) <= Len(i.maps[m])
    BY <1>0, <1>3, <2>2, <2>3
  <2>5. ~i.multi => /\ NodesOf(i.layers[0]) = {id - 1 : id \in {}}
                    /\ \A l \in Levels : NodesOf(i.layers[l]) \subseteq NodesOf(i.layers[0])
                    /\ DOMAIN i.cache = {} \/ DOMAIN i.cache = {}
    BY <1>0, <1>1, <1>3, <2>1
  <2> QED
    BY <2>4, <2>5 DEF Numbers
<1>5. Connected(i.layers[0])
  BY <1>0, <1>1 DEF Connected
<1> QED
  BY <1>0, <1>1, <1>2, <1>3, <1>4, <1>5 DEF Whole

\* An index that was saved as it is and reads back as it was saved is whole
\* again, unless its nodes had other numbers than their ids.
LEMMA WholeRestored ==
  ASSUME NEW i, IndexOK(i), Numbered(i), NEW d, FileOK(d), Whole(i, DOMAIN d.stored), EntryWhole(d),
         i.multi => \A k \in DOMAIN i.maps[0] : i.maps[0][k] = k,
         ~Unsaved(i, d), NEW low, NEW j, RestoredAs(d, low, j), ~Unsaved(j, d)
  PROVE  Whole(j, DOMAIN d.stored)
<1>0. 0 \in Levels
  BY LevelFacts
<1>1. PICK S : S = DOMAIN d.stored
  OBVIOUS
<1>2. \A l \in Levels : d.rows[l] = i.layers[l].links /\ j.layers[l].links = i.layers[l].links
  BY DEF Unsaved
<1>3. \A l \in Levels : NodesOf(j.layers[l]) = NodesOf(i.layers[l]) /\ DOMAIN d.rows[l] = NodesOf(i.layers[l])
  BY <1>2 DEF NodesOf
<1>4. d \in IndexFiles /\ d.rows[0] \in LinkMaps /\ IsFiniteSet(DOMAIN d.rows[0])
  BY <1>0 DEF FileOK, IndexFiles
<1>5. S \subseteq Nat
  BY <1>1, <1>4, VectorMapFacts DEF IndexFiles
<1>6. NodesOf(i.layers[0]) = {id - 1 : id \in S} /\ \A l \in Levels : NodesOf(i.layers[l]) \subseteq NodesOf(i.layers[0])
  <2>1. CASE ~i.multi
    BY <2>1, <1>1 DEF Whole, Numbers
  <2>2. CASE i.multi
    <3>1. PICK s \in Seq(Nat) : s = i.maps[0]
      BY <1>0 DEF IndexOK, Indexes
    <3>2. Range(s) = S /\ \A k \in DOMAIN s : s[k] = k
      BY <2>2, <3>1, <1>1 DEF Whole, Numbers
    <3>3. PICK N \in Nat : N = Len(s) /\ DOMAIN s = 1..N
      OBVIOUS
    <3>4. S = 1..N
      BY <3>2, <3>3 DEF Range
    <3>5. NodesOf(i.layers[0]) = 0..(N - 1)
      BY <2>2, <3>1, <3>3, <1>0 DEF Numbered
    <3>6. 0..(N - 1) = {id - 1 : id \in 1..N}
      <4>1. \A x \in 0..(N - 1) : x + 1 \in 1..N /\ (x + 1) - 1 = x
        OBVIOUS
      <4>2. \A id \in 1..N : id - 1 \in 0..(N - 1)
        OBVIOUS
      <4> QED
        BY <4>1, <4>2
    <3>7. ASSUME NEW l \in Levels PROVE NodesOf(i.layers[l]) \subseteq NodesOf(i.layers[0])
      <4>1. 0 <= l
        BY LevelFacts
      <4>2. Len(i.maps[l]) <= Len(i.maps[0])
        BY <4>1, <2>2, <1>0 DEF Whole, Numbers
      <4>3. Len(i.maps[l]) \in Nat /\ NodesOf(i.layers[l]) = 0..(Len(i.maps[l]) - 1)
        BY <2>2 DEF Numbered, IndexOK, Indexes
      <4> QED
        BY <4>2, <4>3, <3>1, <3>3, <3>5
    <3> QED
      BY <3>4, <3>5, <3>6, <3>7
  <2> QED
    BY <2>1, <2>2
<1>7. DOMAIN d.rows[0] = {} <=> S = {}
  BY <1>0, <1>3, <1>6
<1>8. Connected(j.layers[0])
  BY <1>0, <1>2, <1>3 DEF Whole, Connected
<1>9. NodesOf(j.layers[0]) # {} => j.layers[0].eps # {}
  <2>1. j.layers[0] = RestoredLayer(d.rows[0], 0)
    BY <1>0 DEF RestoredAs
  <2> QED
    BY <2>1, <1>0, <1>3, <1>4, RestoredLayerOK
<1>10. j.count = 0 <=> S = {}
  <2>1. j.count = Cardinality(DOMAIN d.rows[0])
    BY DEF RestoredAs
  <2> QED
    BY <2>1, <1>4, <1>7, FS_EmptySet
<1>11. (j.eps = <<>> <=> S = {}) /\ Range(j.eps) \subseteq S
  <2>1. j.eps = d.entry /\ d.entry \in Seq(Nat)
    BY <1>4 DEF RestoredAs, IndexFiles
  <2>2. Range(d.entry) \subseteq S /\ (S # {} => d.entry # <<>>)
    BY <1>1, <1>7 DEF EntryWhole
  <2>3. S = {} => d.entry = <<>>
    BY <2>1, <2>2, EmptySequence
  <2> QED
    BY <2>1, <2>2, <2>3
<1>12. Numbers(j, S)
  <2>1. ~j.multi /\ (DOMAIN j.cache = S \/ DOMAIN j.cache = {})
    BY <1>1 DEF RestoredAs, NoVectors
  <2> QED
    BY <2>1, <1>0, <1>3, <1>6 DEF Numbers
<1> QED
  BY <1>1, <1>8, <1>9, <1>10, <1>11, <1>12 DEF Whole
\* An index stays whole when it is saved, and so do its entry points.
LEMMA WholePersisted ==
  ASSUME NEW i, IndexOK(i), Numbered(i), NEW d, FileOK(d), NEW j, NEW e, Persisted(i, d, j, e),
         Whole(i, DOMAIN d.stored), EntryWhole(d)
  PROVE  Whole(j, DOMAIN e.stored) /\ EntryWhole(e)
<1>0. 0 \in Levels
  BY LevelFacts
<1>1. PICK S : S = DOMAIN d.stored
  OBVIOUS
<1>2. SameBesides(i, j) /\ e.stored = d.stored
      /\ \A l \in Levels : j.layers[l].links = i.layers[l].links /\ j.layers[l].eps = i.layers[l].eps
  BY DEF Persisted
<1>3. Whole(j, S)
  BY <1>1, <1>2, WholeSame
<1>4. CASE e.entry = d.entry /\ e.rows = d.rows
  BY <1>1, <1>2, <1>3, <1>4 DEF EntryWhole
<1>5. CASE /\ e.entry = i.eps
           /\ \A l \in Levels : DOMAIN e.rows[l] \subseteq DOMAIN d.rows[l] \cup NodesOf(i.layers[l])
  <2>1. d.entry \in Seq(Nat) /\ S \subseteq Nat
    BY <1>1, VectorMapFacts DEF FileOK, IndexFiles
  <2>2. DOMAIN d.rows[0] # {} => S # {}
    BY <2>1, <1>1, EmptySequence DEF EntryWhole
  <2>3. NodesOf(i.layers[0]) # {} => S # {}
    BY <2>1, <1>1, WholeIds DEF Whole
  <2>4. DOMAIN e.rows[0] # {} => i.eps # <<>>
    BY <2>2, <2>3, <1>0, <1>1, <1>5 DEF Whole
  <2>5. EntryWhole(e)
    BY <2>4, <1>1, <1>2, <1>5 DEF Whole, EntryWhole
  <2> QED
    BY <2>5, <1>1, <1>2, <1>3
<1> QED
  BY <1>4, <1>5 DEF Persisted

\* A vector joins a single-layer index that caches all its vectors.
LEMMA AddOk ==
  ASSUME NEW i, IndexOK(i), Numbered(i), ~i.multi, NEW S, S \subseteq Nat, Whole(i, S), DOMAIN i.cache = S,
         NEW id \in Nat \ {0}, id \notin S, NEW p \in Nat, NEW r, AddedAs(i, id, p, 0, r)
  PROVE  r.ok
<1>0. 0 \in Levels /\ 0 \in LevelsOf(i) /\ 0 \in 0..0
  BY LevelFacts DEF LevelsOf
<1>1. PICK n : n = NewNode(i, id, 0)
  OBVIOUS
<1>2. PICK b : /\ IndexOK(b) /\ SameBesides(Prepared(i, id, p, 0), b) /\ b.layers[0] = i.layers[0]
               /\ r.ok = InsertIntoLayer(b, id, 0).ok
  BY DEF AddedAs, BaseJoined
<1>3. n \in Nat /\ LocalIds(b, id, 0) = {n}
  BY <1>0, <1>1, <1>2, NumberOf
<1>4. b.cache = With(i.cache, id, p) /\ ~b.multi
  <2>1. PICK c : c = Prepared(i, id, p, 0)
    OBVIOUS
  <2>2. PreparedAs(i, id, p, 0, c)
    BY <2>1, <1>0, PreparedOK
  <2> QED
    BY <2>1, <2>2, <1>2 DEF PreparedAs, SameBesides
<1>5. n \notin NodesOf(b.layers[0])
  BY <1>1, <1>2, NewOutside DEF Whole
<1>6. ASSUME NEW x \in NodesOf(b.layers[0]) \cup {n} PROVE GlobalIds(b, 0, x) \cap DOMAIN b.cache # {}
  <2>1. DOMAIN b.cache = S \cup {id}
    BY <1>4 DEF With
  <2>2. NodesOf(b.layers[0]) = {y - 1 : y \in S} /\ n = id - 1
    BY <1>1, <1>2 DEF Whole, Numbers, NewNode
  <2>3. x + 1 \in S \cup {id}
    BY <2>2
  <2>4. GlobalIds(b, 0, x) = {x + 1}
    BY <1>4 DEF GlobalIds
  <2> QED
    BY <2>1, <2>3, <2>4
<1>7. InsertIntoLayer(b, id, 0).ok = TRUE
  BY <1>0, <1>2, <1>3, <1>5, <1>6, InsertOk
<1> QED
  BY <1>2, <1>7

\* An index is rebuilt whole, if no link is pruned on the way.
RebuiltWhole(d, k, x) ==
  ~x.pruned => Whole(x.index, DOMAIN d.stored \cap 1..k) /\ DOMAIN x.index.cache = DOMAIN d.stored \cap 1..k
LEMMA RebuildStepWhole ==
  ASSUME NEW d, FileOK(d), NEW id \in 1..(d.next - 1), NEW x, RebuiltFrom(d, x), RebuiltWhole(d, id - 1, x)
  PROVE  RebuiltWhole(d, id, RebuildStep(d, id, x))
<1>0. d \in IndexFiles /\ d.next \in Nat /\ id \in Nat \ {0}
  BY DEF FileOK, IndexFiles
<1>1. PICK y : y = RebuildStep(d, id, x)
  OBVIOUS
<1>2. PICK S : S = DOMAIN d.stored \cap 1..(id - 1)
  OBVIOUS
<1>3. S \subseteq Nat /\ id \notin S
  BY <1>0, <1>2
<1>4. CASE id \notin DOMAIN d.stored
  <2>1. y = x
    BY <1>1, <1>4 DEF RebuildStep
  <2>2. DOMAIN d.stored \cap 1..id = S
    BY <1>0, <1>2, <1>4
  <2> QED
    BY <2>1, <2>2, <1>1, <1>2 DEF RebuiltWhole
<1>5. CASE id \in DOMAIN d.stored
  <2>1. PICK i : i = x.index
    OBVIOUS
  <2>2. PICK p : p = d.stored[id]
    OBVIOUS
  <2>3. PICK r : r = AddVector(i, id, p, 0)
    OBVIOUS
  <2>4. p \in Nat
    BY <2>2, <1>0, <1>5, VectorMapFacts DEF IndexFiles
  <2>5. IndexOK(i) /\ Numbered(i) /\ ~i.multi
    BY <2>1 DEF RebuiltFrom
  <2>6. 0 \in LevelsOf(i)
    BY <2>5 DEF LevelsOf
  <2>7. AddedAs(i, id, p, 0, r)
    BY <2>3, <2>4, <2>5, <2>6, <1>0, AddVectorOK
  <2>8. AddedIn(i, id, 0, r.index)
    BY <2>4, <2>5, <2>6, <2>7, <1>0, AddedNumbers
  <2>9. y = [index |-> r.index, pruned |-> x.pruned \/ Shrinks(i, r.index)]
    BY <2>1, <2>2, <2>3, <1>1, <1>5 DEF RebuildStep
  <2>10. y.index = r.index /\ (y.pruned <=> (x.pruned \/ Shrinks(i, r.index)))
    BY <2>9
  <2>11. ASSUME ~y.pruned PROVE Whole(r.index, S \cup {id}) /\ DOMAIN r.index.cache = S \cup {id}
    <3>1. ~x.pruned /\ ~Shrinks(i, r.index)
      BY <2>10, <2>11
    <3>2. Whole(i, S) /\ DOMAIN i.cache = S
      BY <3>1, <2>1, <1>2 DEF RebuiltWhole
    <3>3. r.ok
      BY <3>2, <2>4, <2>5, <2>7, <1>0, <1>3, AddOk
    <3>4. Whole(r.index, S \cup {id})
      BY <3>1, <3>2, <3>3, <2>4, <2>5, <2>6, <2>7, <2>8, <1>0, <1>3, WholeAdded
    <3>5. r.index.cache = With(i.cache, id, p)
      BY <2>7 DEF AddedAs
    <3> QED
      BY <3>2, <3>4, <3>5 DEF With
  <2>12. DOMAIN d.stored \cap 1..id = S \cup {id}
    BY <1>0, <1>2, <1>5
  <2> QED
    BY <2>10, <2>11, <2>12, <1>1 DEF RebuiltWhole
<1> QED
  BY <1>4, <1>5

LEMMA WholeRebuilt ==
  ASSUME NEW d, FileOK(d), ~Rebuilt(d).pruned
  PROVE  Whole(Rebuilt(d).index, DOMAIN d.stored)
<1>0. d.next \in Nat \ {0} /\ DOMAIN d.stored \subseteq 1..(d.next - 1)
  BY DEF FileOK, IndexFiles
<1>1. PICK x : /\ CleanAs(x.index, Rebuilt(d).index) /\ Rebuilt(d).pruned = x.pruned
               /\ \E f : Rebuilds(f, d) /\ x = f[d.next - 1]
  BY RebuiltOK
<1>2. PICK f : Rebuilds(f, d) /\ x = f[d.next - 1]
  BY <1>1
<1>3. PICK N \in Nat : N = d.next - 1
  BY <1>0
<1> DEFINE Bad == {k \in 0..N : ~RebuiltWhole(d, k, f[k])}
<1>4. ASSUME Bad # {} PROVE FALSE
  <2>1. Bad \subseteq Nat
    OBVIOUS
  <2>2. PICK m \in Bad : \A y \in Bad : m <= y
    <3> HIDE DEF Bad
    <3> QED
      BY <2>1, <1>4, LeastNatural
  <2>3. m \in 0..N /\ ~RebuiltWhole(d, m, f[m])
    BY <2>2
  <2>4. m # 0
    <3>1. PICK i : i = NewIndex(FALSE, LoadedMl)
      OBVIOUS
    <3>2. NewAs(FALSE, LoadedMl, i)
      <4>1. LoadedMl \in 1..16
        BY DEF LoadedMl
      <4> QED
        BY <3>1, <4>1, NewIndexOK
    <3>3. Whole(i, {}) /\ DOMAIN i.cache = {}
      BY <3>2, WholeNew DEF NewAs, NoVectors
    <3>4. f[0] = [index |-> i, pruned |-> FALSE]
      BY <3>1, <1>2 DEF Rebuilds, RebuildStart
    <3>5. f[0].index = i
      BY <3>4
    <3>6. DOMAIN d.stored \cap 1..0 = {}
      OBVIOUS
    <3>7. RebuiltWhole(d, 0, f[0])
      BY <3>3, <3>5, <3>6 DEF RebuiltWhole
    <3> QED
      BY <2>3, <3>7
  <2>5. m \in 1..N /\ m - 1 \in 0..N /\ ~(m <= m - 1)
    BY <2>3, <2>4
  <2>6. RebuiltWhole(d, m - 1, f[m - 1])
    BY <2>2, <2>5
  <2>7. RebuiltFrom(d, f[m - 1])
    BY <2>5, <1>2, <1>3, RebuildAll
  <2>8. f[m] = RebuildStep(d, m, f[m - 1])
    BY <2>5, <1>2, <1>3 DEF Rebuilds
  <2>9. PICK y : y = f[m - 1]
    OBVIOUS
  <2>10. RebuiltWhole(d, m, RebuildStep(d, m, y))
    BY <2>5, <2>6, <2>7, <2>9, <1>3, RebuildStepWhole
  <2> QED
    BY <2>3, <2>8, <2>9, <2>10
<1>5. N \in 0..N /\ RebuiltWhole(d, N, x)
  BY <1>2, <1>3, <1>4
<1>6. DOMAIN d.stored \cap 1..N = DOMAIN d.stored
  BY <1>0, <1>3
<1>7. PICK i, j : i = x.index /\ j = Rebuilt(d).index
  OBVIOUS
<1>8. Whole(i, DOMAIN d.stored)
  BY <1>1, <1>5, <1>6, <1>7 DEF RebuiltWhole
<1>9. SameBesides(i, j) /\ \A l \in Levels : j.layers[l].links = i.layers[l].links /\ j.layers[l].eps = i.layers[l].eps
  BY <1>1, <1>7 DEF CleanAs
<1> QED
  BY <1>7, <1>8, <1>9, WholeSame

\* A vector that is stored and joins.
LEMMA WholeStored ==
  ASSUME NEW i, IndexOK(i), Numbered(i), NEW d, FileOK(d), Whole(i, DOMAIN d.stored), EntryWhole(d),
         NEW id \in Nat \ {0}, d.next <= id, NEW p \in Nat, NEW level \in LevelsOf(i),
         NEW r, AddedAs(i, id, p, level, r), AddedIn(i, id, level, r.index), r.ok, ~Shrinks(i, r.index),
         NEW e, StoredIn(d, id, p, e)
  PROVE  IndexOK(r.index) /\ Numbered(r.index) /\ Whole(r.index, DOMAIN e.stored) /\ EntryWhole(e)
<1>1. PICK S : S = DOMAIN d.stored
  OBVIOUS
<1>2. S \subseteq Nat /\ id \notin S
  <2>1. S \subseteq 1..(d.next - 1) /\ d.next \in Nat
    BY <1>1 DEF FileOK, IndexFiles
  <2> QED
    BY <2>1
<1>3. Whole(r.index, S \cup {id})
  BY <1>1, <1>2, WholeAdded
<1>4. DOMAIN e.stored = S \cup {id} /\ e.rows = d.rows /\ e.entry = d.entry
  BY <1>1 DEF StoredIn
<1>5. EntryWhole(e)
  BY <1>1, <1>4 DEF EntryWhole
<1> QED
  BY <1>3, <1>4, <1>5 DEF AddedAs, AddedIn

LEMMA WholeStep ==
  ASSUME IndexTypes, WholeInv, [IndexNext]_indexVars
  PROVE  WholeInv'
<1>1. SUFFICES ASSUME events' \subseteq {"rebuilt", "commit lost"} PROVE Whole(ix', DOMAIN db'.stored) /\ EntryWhole(db')
  BY DEF WholeInv
<1>2. ASSUME events \subseteq events' PROVE Whole(ix, DOMAIN db.stored) /\ EntryWhole(db)
  BY <1>1, <1>2 DEF WholeInv
<1>3. IndexOK(ix) /\ Numbered(ix) /\ FileOK(db) /\ db.next \in Nat \ {0} /\ db.next <= db.next
  BY DEF IndexTypes, FileOK, IndexFiles
<1>4. ASSUME NEW p \in Positions, NEW level \in Levels, NEW saved \in SaveOutcomes, InsertVector(p, level, saved)
      PROVE  Whole(ix', DOMAIN db'.stored) /\ EntryWhole(db')
  <2>1. PICK r, d : Inserts(p, level, r, d)
    BY <1>4, InsertStep
  <2>2. events \subseteq events' /\ r.ok /\ ~Shrinks(ix, r.index)
    BY <2>1, <1>1 DEF Inserts
  <2>3. p \in Nat
    BY HnswAssumption
  <2>4. PICK id : id = db.next
    OBVIOUS
  <2>5. /\ level \in LevelsOf(ix) /\ AddedAs(ix, id, p, level, r) /\ AddedIn(ix, id, level, r.index)
        /\ StoredIn(db, id, p, d) /\ Persisted(r.index, d, ix', db')
    BY <2>1, <2>4 DEF Inserts
  <2>6. IndexOK(r.index) /\ Numbered(r.index) /\ Whole(r.index, DOMAIN d.stored) /\ EntryWhole(d)
    BY <2>2, <2>3, <2>4, <2>5, <1>2, <1>3, WholeStored
  <2>7. FileOK(d)
    BY <2>5 DEF StoredIn
  <2> QED
    BY <2>5, <2>6, <2>7, WholePersisted
<1>5. ASSUME NEW batch \in Batches, NEW stored \in Storings, NEW saved \in SaveOutcomes,
             BatchInsert(batch[1], batch[2], stored, saved)
      PROVE  Whole(ix', DOMAIN db'.stored) /\ EntryWhole(db')
  <2>1. batch[1] \in Positions /\ batch[2] \in Positions
    BY HnswAssumption
  <2>2. PICK p1, p2 : p1 = batch[1] /\ p2 = batch[2]
    OBVIOUS
  <2>3. p1 \in Nat /\ p2 \in Nat
    BY <2>1, <2>2, HnswAssumption
  <2>4. PICK r1, r2, d1, d2 : Batched(p1, p2, r1, r2, d1, d2)
    BY <1>5, <2>1, <2>2, BatchStep
  <2>5. PICK id, k : id = db.next /\ k = db.next + 1
    OBVIOUS
  <2>6. PICK i : i = r1.index
    OBVIOUS
  <2>7. /\ events \subseteq events' /\ r1.ok /\ r2.ok /\ Persisted(r2.index, d2, ix', db')
        /\ ~Shrinks(ix, i) /\ ~Shrinks(i, r2.index)
    BY <2>4, <2>6, <1>1 DEF Batched
  <2>8. /\ AddedAs(ix, id, p1, 0, r1) /\ AddedIn(ix, id, 0, i)
        /\ AddedAs(i, k, p2, 0, r2) /\ AddedIn(i, k, 0, r2.index)
        /\ StoredIn(db, id, p1, d1) /\ StoredIn(d1, k, p2, d2)
    BY <2>4, <2>5, <2>6 DEF Batched
  <2>9. \A j : IndexOK(j) => 0 \in LevelsOf(j)
    <3> SUFFICES ASSUME NEW j, IndexOK(j) PROVE 0 \in LevelsOf(j)
      OBVIOUS
    <3>1. j.ml \in 1..16
      BY DEF IndexOK, Indexes
    <3> QED
      BY <3>1 DEF LevelsOf
  <2>10. IndexOK(i) /\ Numbered(i) /\ Whole(i, DOMAIN d1.stored) /\ EntryWhole(d1)
    BY <2>3, <2>5, <2>6, <2>7, <2>8, <2>9, <1>2, <1>3, WholeStored
  <2>11. FileOK(d1) /\ d1.next <= k /\ k \in Nat \ {0}
    BY <2>5, <2>8, <1>3 DEF StoredIn
  <2>12. IndexOK(r2.index) /\ Numbered(r2.index) /\ Whole(r2.index, DOMAIN d2.stored) /\ EntryWhole(d2)
    BY <2>3, <2>7, <2>8, <2>9, <2>10, <2>11, WholeStored
  <2>13. FileOK(d2)
    BY <2>8 DEF StoredIn
  <2> QED
    BY <2>7, <2>12, <2>13, WholePersisted
<1>6. CASE OtherIndexInserts
  BY <1>6, <1>2, OtherIndexStep DEF EntryWhole
<1>7. ASSUME NEW id \in 1..MaxVector, NEW saved \in SaveOutcomes, DeleteVector(id, saved)
      PROVE  FALSE
  <2>1. PICK j, d : Deletes(id, j, d)
    BY <1>7, DeleteStep
  <2>2. "deleted" \in events' \/ "deleted nothing" \in events'
    BY <2>1 DEF Deletes
  <2> QED
    BY <2>2, <1>1
<1>8. ASSUME NEW low \in BOOLEAN, Reopen(low)
      PROVE  Whole(ix', DOMAIN db'.stored) /\ EntryWhole(db')
  <2>1. Reopens(low)
    BY <1>8, ReopenStep
  <2>2. Whole(ix, DOMAIN db.stored) /\ EntryWhole(db) /\ db' = db
    BY <2>1, <1>2 DEF Reopens
  <2>3. CASE HasLayers(db)
    <3>1. RestoredAs(db, low, ix') /\ ~Unsaved(ix', db) /\ ~Unsaved(ix, db)
      BY <2>1, <2>3, <1>1 DEF Reopens
    <3>2. ix.multi => \A k \in DOMAIN ix.maps[0] : ix.maps[0][k] = k
      BY <2>1, <1>1 DEF Reopens
    <3> QED
      BY <2>2, <3>1, <3>2, <1>3, WholeRestored
  <2>4. CASE ~HasLayers(db)
    <3>1. ix' = Rebuilt(db).index /\ ~Rebuilt(db).pruned
      BY <2>1, <2>4, <1>1 DEF Reopens
    <3> QED
      BY <2>2, <3>1, <1>3, WholeRebuilt
  <2> QED
    BY <2>3, <2>4
<1>9. CASE UNCHANGED indexVars
  BY <1>2, <1>9 DEF indexVars
<1> QED
  BY <1>4, <1>5, <1>6, <1>7, <1>8, <1>9 DEF IndexNext
\* A search of a whole index knows every node of every layer.
LEMMA AllKnown ==
  ASSUME IndexTypes, Whole(ix, DOMAIN db.stored), NEW l \in Levels
  PROVE  /\ KnownIn(l) = NodesOf(ix.layers[l])
         /\ \A n \in NodesOf(ix.layers[l]) : GlobalIds(ix, l, n) # {} /\ GlobalIds(ix, l, n) \subseteq IdsOf(ix, l)
<1>1. PICK S : S = DOMAIN db.stored
  OBVIOUS
<1>2. S \subseteq Nat /\ Numbers(ix, S) /\ IndexOK(ix) /\ Numbered(ix)
  BY <1>1, VectorMapFacts DEF IndexTypes, FileOK, IndexFiles, Whole
<1>3. DOMAIN Vectors = S
  BY <1>1, <1>2 DEF Vectors, Numbers
<1>4. IdsOf(ix, l) \subseteq S
  BY <1>2, WholeIds
<1>5. ASSUME NEW n \in NodesOf(ix.layers[l]) PROVE GlobalIds(ix, l, n) # {} /\ GlobalIds(ix, l, n) \subseteq IdsOf(ix, l)
  <2>1. GlobalIds(ix, l, n) \subseteq IdsOf(ix, l)
    BY DEF IdsOf
  <2>2. CASE ~ix.multi
    <3>1. GlobalIds(ix, l, n) = {n + 1}
      BY <2>2 DEF GlobalIds
    <3> QED
      BY <2>1, <3>1
  <2>3. CASE ix.multi
    <3>1. PICK s \in Seq(Nat) : s = ix.maps[l]
      BY <1>2 DEF IndexOK, Indexes
    <3>2. n \in 0..(Len(s) - 1) /\ Len(s) \in Nat
      BY <2>3, <3>1, <1>2 DEF Numbered
    <3>3. n + 1 \in DOMAIN s
      BY <3>2
    <3>4. s[n + 1] \in GlobalIds(ix, l, n)
      BY <2>3, <3>1, <3>3 DEF GlobalIds
    <3> QED
      BY <2>1, <3>4
  <2> QED
    BY <2>2, <2>3
<1>6. \A n \in NodesOf(ix.layers[l]) : GlobalIds(ix, l, n) \cap DOMAIN Vectors # {}
  BY <1>3, <1>4, <1>5
<1>7. KnownIn(l) = NodesOf(ix.layers[l])
  BY <1>6 DEF KnownIn, Known
<1> QED
  BY <1>5, <1>7

\* What the descent has in hand above a level: a stored vector that is in every
\* layer it is going to enter.
Held(at, level) ==
  \E e \in DOMAIN db.stored :
    /\ at = {e}
    /\ ix.multi => \A l \in Levels : l <= level /\ NodesOf(ix.layers[l]) # {} => e \in IdsOf(ix, l)

LEMMA DescendHeld ==
  ASSUME IndexTypes, Whole(ix, DOMAIN db.stored), NEW level \in Levels, NEW q \in Nat, NEW at, Held(at, level)
  PROVE  Held(Descend(at, level, q), level - 1)
<1>1. PICK S : S = DOMAIN db.stored
  OBVIOUS
<1>2. S \subseteq Nat /\ Numbers(ix, S) /\ IndexOK(ix) /\ Numbered(ix) /\ Levels \subseteq Nat
  BY <1>1, VectorMapFacts, LevelFacts DEF IndexTypes, FileOK, IndexFiles, Whole
<1>3. PICK e \in S : /\ at = {e}
                     /\ ix.multi => \A l \in Levels : l <= level /\ NodesOf(ix.layers[l]) # {} => e \in IdsOf(ix, l)
  BY <1>1 DEF Held
<1>4. at \in OneOf
  BY <1>2, <1>3 DEF OneOf
<1>5. PICK r : r = Descend(at, level, q)
  OBVIOUS
<1>6. PICK C : C = KnownIn(level)
  OBVIOUS
<1>7. Descended(at, level, C, r)
  BY <1>4, <1>5, <1>6, DescendCases
<1>8. C = NodesOf(ix.layers[level])
  BY <1>6, AllKnown
<1>9. ToLocal(ix, at, level) = LocalIds(ix, e, level)
  BY <1>3 DEF ToLocal
<1>10. NodesOf(ix.layers[level]) # {} => LocalIds(ix, e, level) # {}
  <2>1. CASE ~ix.multi
    BY <2>1 DEF LocalIds
  <2>2. CASE ix.multi
    <3> SUFFICES ASSUME NodesOf(ix.layers[level]) # {} PROVE LocalIds(ix, e, level) # {}
      OBVIOUS
    <3>1. e \in IdsOf(ix, level)
      BY <2>2, <1>2, <1>3
    <3>2. \E m \in NodesOf(ix.layers[level]) : LocalIds(ix, e, level) = {m}
      BY <3>1, <1>2, WholeIds
    <3> QED
      BY <3>2
  <2> QED
    BY <2>1, <2>2
<1>11. r = at \/ \E n \in C : r = GlobalIds(ix, level, n)
  BY <1>6, <1>7, <1>8, <1>9, <1>10 DEF Descended
<1>12. \A l \in Levels : l <= level - 1 => l <= level
  BY <1>2
<1>13. CASE r = at
  <2>1. Held(r, level - 1)
    BY <1>1, <1>3, <1>12, <1>13 DEF Held
  <2> QED
    BY <2>1, <1>5
<1>14. CASE \E n \in C : r = GlobalIds(ix, level, n)
  <2>1. PICK n \in C : r = GlobalIds(ix, level, n)
    BY <1>14
  <2>2. r # {} /\ r \subseteq IdsOf(ix, level)
    BY <2>1, <1>8, AllKnown
  <2>3. \A g, h \in r : g = h
    BY <2>1, GlobalOne, Zenon
  <2>0. PICK g : g \in r
    BY <2>2
  <2>4. r = {g}
    BY <2>0, <2>3
  <2>5. g \in IdsOf(ix, level) /\ g \in S
    BY <2>2, <2>4, <1>2, WholeIds
  <2>6. ix.multi => \A l \in Levels : l <= level => g \in IdsOf(ix, l)
    BY <2>5, <1>2, WholeIds
  <2>7. Held(r, level - 1)
    BY <2>4, <2>5, <2>6, <1>1, <1>12 DEF Held
  <2> QED
    BY <2>7, <1>5
<1> QED
  BY <1>11, <1>13, <1>14

LEMMA SearchHeld ==
  ASSUME IndexTypes, Whole(ix, DOMAIN db.stored), NEW at, Held(at, 0)
  PROVE  SearchedFrom(at) = Answer(TRUE, DOMAIN db.stored)
<1>0. 0 \in Levels
  BY LevelFacts
<1>1. PICK S : S = DOMAIN db.stored
  OBVIOUS
<1>2. S \subseteq Nat /\ Numbers(ix, S) /\ IndexOK(ix) /\ Numbered(ix)
  BY <1>1, VectorMapFacts DEF IndexTypes, FileOK, IndexFiles, Whole
<1>3. PICK e \in S : at = {e}
  BY <1>1 DEF Held
<1>4. PICK L : L = ix.layers[0]
  OBVIOUS
<1>5. PICK m \in NodesOf(L) : LocalIds(ix, e, 0) = {m}
  <2>1. e \in IdsOf(ix, 0)
    BY <1>2, <1>3, WholeIds
  <2> QED
    BY <2>1, <1>0, <1>2, <1>4, WholeIds
<1>6. ToLocal(ix, at, 0) = {m}
  BY <1>3, <1>5 DEF ToLocal
<1>7. KnownIn(0) = NodesOf(L)
  BY <1>0, <1>4, AllKnown
<1>8. LayerOK(L) /\ Connected(L)
  BY <1>0, <1>2, <1>4 DEF IndexOK, Whole
<1>9. Reached(L, NodesOf(L), {m}) = NodesOf(L)
  BY <1>5, <1>8, ReachedAll
<1>10. {m} \cap NodesOf(L) = {m} /\ {m} \subseteq NodesOf(L)
  BY <1>5
<1>11. SearchedFrom(at) = Answer(TRUE, UNION {GlobalIds(ix, 0, n) : n \in NodesOf(L)})
  BY <1>4, <1>6, <1>7, <1>9, <1>10 DEF SearchedFrom
<1>12. UNION {GlobalIds(ix, 0, n) : n \in NodesOf(L)} = S
  <2>1. IdsOf(ix, 0) = S
    BY <1>2, WholeIds
  <2> QED
    BY <2>1, <1>4 DEF IdsOf
<1> QED
  BY <1>1, <1>11, <1>12

LEMMA SearchFindsAll ==
  ASSUME IndexTypes, Whole(ix, DOMAIN db.stored), ix.count > 0 => EntryOnTop, NEW q \in Nat
  PROVE  Search(q) = Answer(TRUE, DOMAIN db.stored)
<1>1. PICK S : S = DOMAIN db.stored
  OBVIOUS
<1>2. S \subseteq Nat /\ Numbers(ix, S) /\ IndexOK(ix) /\ Numbered(ix) /\ ix.count \in Nat
  BY <1>1, VectorMapFacts DEF IndexTypes, FileOK, IndexFiles, Whole, IndexOK, Indexes
<1>3. CASE ix.count = 0
  <2>1. Search(q) = Answer(TRUE, {})
    BY <1>3 DEF Search
  <2> QED
    BY <2>1, <1>3 DEF Whole
<1>4. CASE ix.count # 0
  <2>1. S # {} /\ ix.eps # <<>> /\ Range(ix.eps) \subseteq S /\ EntryOnTop
    BY <1>1, <1>2, <1>4 DEF Whole
  <2>2. PICK f : Descends(f, q)
    BY <1>4, <2>1, SearchSteps
  <2>3. PICK m \in Nat : m = Top /\ 0..m = Levels
    BY TopLevel
  <2> DEFINE Bad == {k \in 0..m : ~Held(f[k], m - k)}
  <2>4. ASSUME Bad # {} PROVE FALSE
    <3>1. Bad \subseteq Nat
      OBVIOUS
    <3>2. PICK k \in Bad : \A y \in Bad : k <= y
      <4> HIDE DEF Bad
      <4> QED
        BY <3>1, <2>4, LeastNatural
    <3>3. k \in 0..m /\ ~Held(f[k], m - k)
      BY <3>2
    <3>4. k # 0
      <4>1. PICK s \in Seq(Nat) : s = ix.eps
        BY <1>2 DEF IndexOK, Indexes
      <4>2. PICK e : e = s[Len(s)]
        OBVIOUS
      <4>3. s # <<>> => Len(s) \in DOMAIN s
        OBVIOUS
      <4>4. e \in S
        BY <4>1, <4>2, <4>3, <2>1 DEF Range
      <4>5. f[0] = {e}
        BY <4>1, <4>2, <2>2 DEF Descends
      <4>6. ASSUME ix.multi, NEW l \in Levels, NodesOf(ix.layers[l]) # {} PROVE e \in IdsOf(ix, l)
        <5>1. CASE l = 0
          BY <5>1, <4>4, <1>2, WholeIds
        <5>2. CASE l # 0
          <6>1. ToLocal(ix, {e}, l) # {}
            BY <5>2, <4>1, <4>2, <4>6, <2>1 DEF EntryOnTop, Last
          <6>2. LocalIds(ix, e, l) # {}
            BY <6>1 DEF ToLocal
          <6>3. \E n \in DOMAIN ix.maps[l] : ix.maps[l][n] = e
            BY <4>6, <6>2 DEF LocalIds
          <6>4. e \in Range(ix.maps[l])
            BY <6>3 DEF Range
          <6> QED
            BY <4>6, <6>4, <1>2, MultiIds
        <5> QED
          BY <5>1, <5>2
      <4>7. Held(f[0], m - 0)
        BY <4>4, <4>5, <4>6, <1>1 DEF Held
      <4> QED
        BY <3>3, <4>7
    <3>5. k \in 1..m /\ k - 1 \in 0..m /\ ~(k <= k - 1)
      BY <3>3, <3>4
    <3>6. PICK l \in Levels : l = m + 1 - k
      <4>1. m + 1 - k \in 0..m
        BY <3>5
      <4> QED
        BY <4>1, <2>3
    <3>7. PICK at : at = f[k - 1]
      OBVIOUS
    <3>8. m - (k - 1) = l /\ l - 1 = m - k
      BY <3>5, <3>6
    <3>9. Held(at, l)
      BY <3>2, <3>5, <3>7, <3>8
    <3>10. f[k] = Descend(at, l, q)
      BY <2>2, <2>3, <3>5, <3>6, <3>7 DEF Descends
    <3>11. Held(Descend(at, l, q), l - 1)
      BY <3>9, DescendHeld
    <3> QED
      BY <3>3, <3>8, <3>10, <3>11
  <2>5. Held(f[m], 0)
    <3>1. m \in 0..m /\ m - m = 0
      OBVIOUS
    <3> QED
      BY <3>1, <2>4
  <2>6. PICK at : at = f[m]
    OBVIOUS
  <2>7. SearchedFrom(at) = Answer(TRUE, DOMAIN db.stored)
    BY <2>5, <2>6, SearchHeld
  <2> QED
    BY <2>2, <2>3, <2>6, <2>7 DEF Descends
<1> QED
  BY <1>3, <1>4

\* A search with room for everything finds every stored vector: insert_into_layer
\* links a new node both ways to nodes its search comes to, so the base layer
\* stays connected while no link is pruned, and the descent from the last entry
\* point comes to it.
THEOREM SearchesFindEverything == IndexSpec => []FindsEverything
<1>1. IndexInit => IndexTypes /\ WholeInv
  <2> SUFFICES ASSUME IndexInit PROVE IndexTypes /\ WholeInv
    OBVIOUS
  <2>0. 0 \in Levels
    BY LevelFacts
  <2>1. IndexTypes /\ DOMAIN db.stored = {} /\ db.entry = <<>> /\ DOMAIN db.rows[0] = {}
    BY <2>0, IndexStarts DEF NoVectors
  <2>2. Whole(ix, {})
    BY IndexStarts, WholeNew
  <2>3. Range(<<>>) = {}
    BY DEF Range
  <2> QED
    BY <2>1, <2>2, <2>3 DEF WholeInv, EntryWhole
<1>2. IndexTypes /\ WholeInv /\ [IndexNext]_indexVars => (IndexTypes /\ WholeInv)'
  BY IndexTypesStep, WholeStep
<1>3. IndexTypes /\ WholeInv => FindsEverything
  <2> SUFFICES ASSUME IndexTypes, Whole(ix, DOMAIN db.stored), ix.count > 0 => EntryOnTop, NEW q \in Positions
               PROVE  Search(q) = Answer(TRUE, DOMAIN db.stored)
    BY DEF WholeInv, FindsEverything
  <2>1. q \in Nat
    BY HnswAssumption
  <2> QED
    BY <2>1, SearchFindsAll
<1> QED
  BY <1>1, <1>2, <1>3, PTL DEF IndexSpec

=============================================================================
