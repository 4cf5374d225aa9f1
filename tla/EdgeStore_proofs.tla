---------------------------- MODULE EdgeStore_proofs ----------------------------
(***************************************************************************)
(* Theorems about EdgeStore for any nodes and edge types and any number of *)
(* inserts, flushes, crashes and openings.                                 *)
(*                                                                         *)
(* The edges known under a key are in one place: its dirty cluster or, once *)
(* that is gone, the page the index names.  An insert appends to them, and *)
(* a flush leaves them alone although it moves them.  What is read, what   *)
(* two directions have in common and what an opening brings back is told   *)
(* of these records.                                                       *)
(***************************************************************************)
EXTENDS EdgeStore, WellFoundedInduction, TLAPS

\* A non-empty set of positions in a sequence has a greatest element: the order
\* from the end is well-founded.
LEMMA GreatestPosition ==
  ASSUME NEW n \in Nat, NEW T, T \subseteq 1..n, T # {}
  PROVE  \E x \in T : \A y \in T : y <= x
<1> DEFINE LT == OpToRel(<, Nat)
<1> DEFINE D == {n - i : i \in T}
<1>1. \A x, y \in Nat : y < x => <<y, x>> \in LT
  BY DEF OpToRel
<1>2. IsWellFoundedOn(LT, Nat)
  BY NatLessThanWellFounded
<1>3. \A i \in T : i \in Int /\ n - i \in Nat
  OBVIOUS
<1>4. D \subseteq Nat /\ D # {}
  BY <1>3, Zenon
<1> HIDE DEF LT
<1>5. PICK d \in D : \A e \in D : ~(<<e, d>> \in LT)
  BY <1>2, <1>4, WFMin, Zenon
<1>6. PICK x \in T : d = n - x
  BY <1>5
<1>7. \A y \in T : ~(n - y < n - x)
  BY <1>1, <1>3, <1>5, <1>6, Zenon
<1>8. \A y \in T : y <= x
  BY <1>3, <1>7
<1> QED
  BY <1>8, Zenon

AnyType == Types \cup {NoType}

\* The edges known under a key: its dirty cluster, or what its page has.
Records(k) == IF dirty[k] # Absent THEN dirty[k].edges ELSE Stored(k)
OwnPage(k) == IF dirty[k] # Absent THEN dirty[k].page ELSE index[k]

\* Every page has one owner.
OwnPages ==
  /\ nextPage <= 2 * inserts + 1
  /\ \A k \in Keys : /\ OwnPage(k) < nextPage
                     /\ index[k] # 0 => index[k] = OwnPage(k)
  /\ \A j, k \in Keys : OwnPage(j) = OwnPage(k) => j = k \/ OwnPage(k) = 0

\* What a flush has still to write, and what only an opening finds.
FlushState ==
  /\ \A k \in Keys : dirty[k] # Absent => cache[k] # Absent
  /\ \A k \in pending : dirty[k] # Absent
  /\ pc = "clusters" <=> pending # {}
  /\ pc = "sidecar" => \A k \in Keys : dirty[k] = Absent
  /\ pc \in {"idle", "header"} /\ HasRoot => sidecar = "ok" \/ hdrRoot
  /\ \A k \in Keys, d \in Nodes : cache[k] = Absent => types[<<k, d>>] = NoType

StoreInv == TypeOK /\ OwnPages /\ FlushState

-----------------------------------------------------------------------------
(* What an insert does to a key *)

Same(k) ==
  /\ cache'[k] = cache[k] /\ dirty'[k] = dirty[k]
  /\ lists'[k] = lists[k] /\ ever'[k] = ever[k]
  /\ \A d \in Nodes : types'[<<k, d>>] = types[<<k, d>>] /\ given'[<<k, d>>] = given[<<k, d>>]

Added(k, d, t, p) ==
  /\ cache'[k] = Listed(cache[k], d)
  /\ dirty'[k] = Clustered(k, p, [dst |-> d, type |-> t])
  /\ lists'[k] = Listed(lists[k], d)
  /\ ever'[k] = ever[k] \cup {d}
  /\ types'[<<k, d>>] = t /\ given'[<<k, d>>] = t
  /\ \A e \in Nodes \ {d} : /\ types'[<<k, e>>] = types[<<k, e>>]
                            /\ given'[<<k, e>>] = given[<<k, e>>]
  /\ InsertEvents(k, d, t) \subseteq events'

Room(k) == IF NeedsPage(k) THEN 1 ELSE 0

LEMMA ListedIsList ==
  ASSUME NEW list \in Seq(Nodes) \cup {Absent}, NEW d \in Nodes
  PROVE  /\ Listed(list, d) \in Seq(Nodes) /\ Listed(list, d) # Absent
         /\ list = Absent => Listed(list, d) = <<d>>
         /\ list # Absent => Listed(list, d) = IF Contains(list, d) THEN list ELSE Append(list, d)
<1>1. list = Absent => Listed(list, d) = <<d>>
  BY DEF Listed
<1>2. list # Absent => Listed(list, d) = IF Contains(list, d) THEN list ELSE Append(list, d)
  BY DEF Listed
<1>3. Listed(list, d) \in Seq(Nodes)
  <2>1. CASE list = Absent
    <3>1. <<d>> \in Seq(Nodes)
      OBVIOUS
    <3> QED
      BY <1>1, <2>1, <3>1
  <2>2. CASE list # Absent
    <3>1. list \in Seq(Nodes) /\ Append(list, d) \in Seq(Nodes)
      BY <2>2
    <3> QED
      BY <1>2, <2>2, <3>1
  <2> QED
    BY <2>1, <2>2
<1> QED
  BY <1>1, <1>2, <1>3, AbsentAssumption

LEMMA ClusteredIsCluster ==
  ASSUME TypeOK, NEW k \in Keys, NEW p \in Pages, NEW e \in Edge
  PROVE  /\ Clustered(k, p, e) \in Cluster /\ Clustered(k, p, e) # Absent
         /\ dirty[k] # Absent =>
              /\ Clustered(k, p, e).edges = Append(dirty[k].edges, e)
              /\ Clustered(k, p, e).page = dirty[k].page
         /\ dirty[k] = Absent =>
              /\ Clustered(k, p, e).edges = <<e>>
              /\ Clustered(k, p, e).page = IF index[k] # 0 THEN index[k] ELSE p
<1>1. CASE dirty[k] = Absent
  <2>1. Clustered(k, p, e) = [page |-> IF index[k] # 0 THEN index[k] ELSE p, edges |-> <<e>>]
    BY <1>1 DEF Clustered
  <2>2. index[k] # 0 => index[k] \in Pages
    BY DEF TypeOK
  <2>3. <<e>> \in Seq(Edge)
    OBVIOUS
  <2>4. Clustered(k, p, e) \in Cluster
    BY <2>1, <2>2, <2>3 DEF Cluster
  <2> QED
    BY <1>1, <2>1, <2>4, AbsentAssumption
<1>2. CASE dirty[k] # Absent
  <2>1. dirty[k] \in Cluster
    BY <1>2 DEF TypeOK
  <2>2. Clustered(k, p, e) = [dirty[k] EXCEPT !.edges = Append(dirty[k].edges, e)]
    BY <1>2 DEF Clustered
  <2>3. Append(dirty[k].edges, e) \in Seq(Edge)
    BY <2>1 DEF Cluster
  <2>4. /\ Clustered(k, p, e) \in Cluster
        /\ Clustered(k, p, e).edges = Append(dirty[k].edges, e)
        /\ Clustered(k, p, e).page = dirty[k].page
    BY <2>1, <2>2, <2>3 DEF Cluster
  <2> QED
    BY <1>2, <2>4, AbsentAssumption
<1> QED
  BY <1>1, <1>2

LEMMA InsertEffect ==
  ASSUME TypeOK, NEW a \in Nodes, NEW b \in Nodes, NEW t \in AnyType, Insert(a, b, t)
  PROVE  /\ <<a, "out">> \in Keys /\ <<b, "in">> \in Keys /\ <<a, "out">> # <<b, "in">>
         /\ Added(<<a, "out">>, b, t, nextPage)
         /\ Added(<<b, "in">>, a, t, nextPage + Room(<<a, "out">>))
         /\ \A k \in Keys \ {<<a, "out">>, <<b, "in">>} : Same(k)
         /\ nextPage' = nextPage + Room(<<a, "out">>) + Room(<<b, "in">>)
         /\ events \subseteq events'
<1> DEFINE out == <<a, "out">>
           in == <<b, "in">>
           inPage == nextPage + Room(out)
           eo == [dst |-> b, type |-> t]
           ei == [dst |-> a, type |-> t]
<1>1. out \in Keys /\ in \in Keys /\ out # in
  BY DEF Keys
<1>2. /\ cache' = [cache EXCEPT ![out] = Listed(@, b), ![in] = Listed(@, a)]
      /\ types' = [types EXCEPT ![<<out, b>>] = t, ![<<in, a>>] = t]
      /\ dirty' = [dirty EXCEPT ![out] = Clustered(out, nextPage, eo),
                                ![in] = Clustered(in, inPage, ei)]
      /\ nextPage' = inPage + Room(in)
      /\ lists' = [lists EXCEPT ![out] = Listed(@, b), ![in] = Listed(@, a)]
      /\ given' = [given EXCEPT ![<<out, b>>] = t, ![<<in, a>>] = t]
      /\ ever' = [ever EXCEPT ![out] = @ \cup {b}, ![in] = @ \cup {a}]
      /\ events' = events \cup InsertEvents(out, b, t) \cup InsertEvents(in, a, t)
  BY DEF Insert, Room
<1> HIDE DEF out, in, inPage, eo, ei
<1>3. /\ cache'[out] = Listed(cache[out], b) /\ cache'[in] = Listed(cache[in], a)
      /\ \A k \in Keys \ {out, in} : cache'[k] = cache[k]
  BY <1>1, <1>2 DEF TypeOK
<1>4. /\ dirty'[out] = Clustered(out, nextPage, eo) /\ dirty'[in] = Clustered(in, inPage, ei)
      /\ \A k \in Keys \ {out, in} : dirty'[k] = dirty[k]
  BY <1>1, <1>2 DEF TypeOK
<1>5. /\ lists'[out] = Listed(lists[out], b) /\ lists'[in] = Listed(lists[in], a)
      /\ \A k \in Keys \ {out, in} : lists'[k] = lists[k]
  BY <1>1, <1>2 DEF TypeOK
<1>6. /\ ever'[out] = ever[out] \cup {b} /\ ever'[in] = ever[in] \cup {a}
      /\ \A k \in Keys \ {out, in} : ever'[k] = ever[k]
  BY <1>1, <1>2 DEF TypeOK
<1>7. ASSUME NEW k \in Keys, NEW d \in Nodes
      PROVE  /\ k = out /\ d = b => types'[<<k, d>>] = t /\ given'[<<k, d>>] = t
             /\ k = in /\ d = a => types'[<<k, d>>] = t /\ given'[<<k, d>>] = t
             /\ ~(k = out /\ d = b) /\ ~(k = in /\ d = a) =>
                  types'[<<k, d>>] = types[<<k, d>>] /\ given'[<<k, d>>] = given[<<k, d>>]
  <2>1. <<k, d>> \in Keys \X Nodes /\ <<out, b>> \in Keys \X Nodes /\ <<in, a>> \in Keys \X Nodes
    BY <1>1
  <2>2. /\ <<k, d>> = <<out, b>> <=> k = out /\ d = b
        /\ <<k, d>> = <<in, a>> <=> k = in /\ d = a
        /\ <<out, b>> # <<in, a>>
    BY <1>1
  <2> QED
    BY <1>2, <2>1, <2>2 DEF TypeOK
<1>8. Added(out, b, t, nextPage)
  BY <1>1, <1>2, <1>3, <1>4, <1>5, <1>6, <1>7 DEF Added, eo
<1>9. Added(in, a, t, inPage)
  BY <1>1, <1>2, <1>3, <1>4, <1>5, <1>6, <1>7 DEF Added, ei
<1>10. \A k \in Keys \ {out, in} : Same(k)
  BY <1>3, <1>4, <1>5, <1>6, <1>7 DEF Same
<1> QED
  BY <1>1, <1>2, <1>8, <1>9, <1>10 DEF out, in, inPage

-----------------------------------------------------------------------------
(* Types, pages and the state of a flush *)

LEMMA ZeroFirst == 0 \in 0..MaxInserts /\ 0 \in 0..MaxOpens
BY EdgeAssumption

LEMMA StoreInit == Init => StoreInv
<1> SUFFICES ASSUME Init
             PROVE  StoreInv
  OBVIOUS
<1> USE EdgeAssumption DEF Init
<1>1. <<>> \in Seq(Nodes) /\ <<>> \in Seq(Edge)
  OBVIOUS
<1>2. TypeOK
  <2>1. cache \in [Keys -> Seq(Nodes) \cup {Absent}] /\ dirty \in [Keys -> Cluster \cup {Absent}]
    BY DEF Nothing
  <2>2. types \in [Keys \X Nodes -> Types \cup {NoType}] /\ given \in [Keys \X Nodes -> Types \cup {NoType}]
    BY DEF Untyped
  <2>3. index \in [Keys -> Pages \cup {0}] /\ ever \in [Keys -> SUBSET Nodes]
    BY DEF Nothing
  <2>4. {lists, captured, saved} \subseteq [Keys -> Seq(Nodes)]
    BY <1>1 DEF Nothing
  <2>5. disk \in [Pages -> Seq(Edge)] /\ nextPage \in Pages
    BY <1>1 DEF Pages
  <2>6. /\ sidecar \in {"none", "ok", "torn"} /\ hdrRoot \in BOOLEAN /\ pending \subseteq Keys
        /\ pc \in {"idle", "clusters", "sidecar", "header"} /\ events \subseteq Events
    BY Zenon
  <2>7. inserts \in 0..MaxInserts /\ opens \in 0..MaxOpens
    BY Zenon, ZeroFirst
  <2> HIDE DEF Init
  <2> QED
    BY <2>1, <2>2, <2>3, <2>4, <2>5, <2>6, <2>7 DEF TypeOK
<1>3. \A k \in Keys : OwnPage(k) = 0 /\ index[k] = 0
  BY DEF OwnPage, Nothing
<1>4. OwnPages
  BY <1>3 DEF OwnPages
<1>5. FlushState
  BY <1>3 DEF FlushState, Nothing, Untyped, HasRoot
<1> QED
  BY <1>2, <1>4, <1>5 DEF StoreInv

LEMMA PagesForInsert ==
  ASSUME StoreInv, NEW a \in Nodes, NEW b \in Nodes, NEW t \in AnyType, Insert(a, b, t)
  PROVE  /\ nextPage \in Pages /\ nextPage + Room(<<a, "out">>) \in Pages
         /\ nextPage' \in Pages /\ nextPage' <= 2 * inserts' + 1
         /\ inserts' \in 0..MaxInserts
<1>1. inserts < MaxInserts /\ inserts' = inserts + 1 /\ inserts \in 0..MaxInserts
  BY DEF Insert, StoreInv, TypeOK
<1>2. nextPage \in 1..(2 * inserts + 1) /\ MaxInserts \in Nat
  BY EdgeAssumption DEF StoreInv, TypeOK, OwnPages, Pages
<1>3. \A k : Room(k) \in {0, 1}
  BY DEF Room
<1>4. nextPage' = nextPage + Room(<<a, "out">>) + Room(<<b, "in">>)
  BY InsertEffect DEF StoreInv
<1>5. Room(<<a, "out">>) \in {0, 1} /\ Room(<<b, "in">>) \in {0, 1}
  BY <1>3
<1> HIDE DEF Room
<1> QED
  BY <1>1, <1>2, <1>4, <1>5 DEF Pages

LEMMA InsertTypes ==
  ASSUME StoreInv, NEW a \in Nodes, NEW b \in Nodes, NEW t \in AnyType, Insert(a, b, t)
  PROVE  TypeOK'
<1> DEFINE out == <<a, "out">>
           in == <<b, "in">>
<1>1. /\ out \in Keys /\ in \in Keys /\ TypeOK
      /\ Added(out, b, t, nextPage) /\ Added(in, a, t, nextPage + Room(out))
      /\ \A k \in Keys \ {out, in} : Same(k)
  BY InsertEffect DEF StoreInv
<1>2. /\ nextPage \in Pages /\ nextPage + Room(out) \in Pages /\ nextPage' \in Pages
      /\ inserts' \in 0..MaxInserts
  BY PagesForInsert
<1> HIDE DEF out, in
<1>3. ASSUME NEW k \in Keys
      PROVE  /\ cache'[k] \in Seq(Nodes) \cup {Absent} /\ dirty'[k] \in Cluster \cup {Absent}
             /\ lists'[k] \in Seq(Nodes) /\ ever'[k] \subseteq Nodes
  <2>1. /\ cache[k] \in Seq(Nodes) \cup {Absent} /\ dirty[k] \in Cluster \cup {Absent}
        /\ lists[k] \in Seq(Nodes) /\ ever[k] \subseteq Nodes
    BY <1>1 DEF TypeOK
  <2>2. ASSUME NEW d \in Nodes, NEW p \in Pages, Added(k, d, t, p)
        PROVE  /\ cache'[k] \in Seq(Nodes) /\ dirty'[k] \in Cluster
               /\ lists'[k] \in Seq(Nodes) /\ ever'[k] \subseteq Nodes
    <3>1. [dst |-> d, type |-> t] \in Edge
      BY DEF Edge, AnyType
    <3>2. Clustered(k, p, [dst |-> d, type |-> t]) \in Cluster
      BY <1>1, <3>1, ClusteredIsCluster
    <3>3. Listed(cache[k], d) \in Seq(Nodes) /\ Listed(lists[k], d) \in Seq(Nodes)
      BY <2>1, ListedIsList
    <3> QED
      BY <2>1, <2>2, <3>2, <3>3 DEF Added
  <2>3. CASE k = out \/ k = in
    BY <1>1, <1>2, <2>2, <2>3
  <2>4. CASE k \notin {out, in}
    BY <1>1, <2>1, <2>4 DEF Same
  <2> QED
    BY <2>3, <2>4
<1>4. /\ DOMAIN cache' = Keys /\ DOMAIN dirty' = Keys /\ DOMAIN lists' = Keys /\ DOMAIN ever' = Keys
      /\ cache' = [k \in Keys |-> cache'[k]] /\ dirty' = [k \in Keys |-> dirty'[k]]
      /\ lists' = [k \in Keys |-> lists'[k]] /\ ever' = [k \in Keys |-> ever'[k]]
  BY <1>1 DEF Insert, TypeOK
<1>5. /\ cache' \in [Keys -> Seq(Nodes) \cup {Absent}] /\ dirty' \in [Keys -> Cluster \cup {Absent}]
      /\ lists' \in [Keys -> Seq(Nodes)] /\ ever' \in [Keys -> SUBSET Nodes]
  BY <1>3, <1>4
<1>6. types' \in [Keys \X Nodes -> AnyType] /\ given' \in [Keys \X Nodes -> AnyType]
  BY <1>1 DEF Insert, TypeOK, AnyType
<1>7. events' \subseteq Events
  <2>1. \A k, d : InsertEvents(k, d, t) \subseteq Events
    BY DEF InsertEvents, If, Events
  <2> QED
    BY <1>1, <2>1 DEF Insert, TypeOK
<1>8. UNCHANGED <<index, disk, sidecar, hdrRoot, pc, pending, captured, saved, opens>>
  BY DEF Insert
<1> QED
  BY <1>1, <1>2, <1>5, <1>6, <1>7, <1>8 DEF TypeOK, AnyType

LEMMA StoredIsEdges ==
  ASSUME TypeOK, NEW k \in Keys
  PROVE  Stored(k) \in Seq(Edge) /\ (index[k] = 0 => Stored(k) = <<>>)
<1>1. <<>> \in Seq(Edge)
  OBVIOUS
<1>2. index[k] # 0 => index[k] \in Pages /\ disk[index[k]] \in Seq(Edge)
  BY DEF TypeOK
<1> QED
  BY <1>1, <1>2 DEF Stored

LEMMA DstsIsNodes ==
  ASSUME NEW edges \in Seq(Edge)
  PROVE  /\ Dsts(edges) \in Seq(Nodes) /\ Len(Dsts(edges)) = Len(edges)
         /\ \A i \in 1..Len(edges) : Dsts(edges)[i] = edges[i].dst
<1>1. \A i \in 1..Len(edges) : edges[i] \in Edge
  OBVIOUS
<1>2. \A i \in 1..Len(edges) : edges[i].dst \in Nodes
  BY <1>1 DEF Edge
<1>3. Len(edges) \in Nat
  OBVIOUS
<1>4. Dsts(edges) \in Seq(Nodes)
  BY <1>2, <1>3 DEF Dsts
<1>5. DOMAIN Dsts(edges) = 1..Len(edges) /\ \A i \in 1..Len(edges) : Dsts(edges)[i] = edges[i].dst
  BY DEF Dsts
<1> QED
  BY <1>3, <1>4, <1>5

\* The type of the last record of d that has one.
LastType(edges, d) ==
  IF Typed(edges, d) = {} THEN NoType
  ELSE edges[CHOOSE i \in Typed(edges, d) : \A j \in Typed(edges, d) : j <= i].type

LEMMA LastTyped ==
  ASSUME NEW edges \in Seq(Edge), NEW d, Typed(edges, d) # {}
  PROVE  LET i == CHOOSE i \in Typed(edges, d) : \A j \in Typed(edges, d) : j <= i
         IN  i \in Typed(edges, d) /\ \A j \in Typed(edges, d) : j <= i
<1>1. Len(edges) \in Nat /\ Typed(edges, d) \subseteq 1..Len(edges)
  BY DEF Typed
<1>2. \E i \in Typed(edges, d) : \A j \in Typed(edges, d) : j <= i
  BY <1>1, GreatestPosition
<1> QED
  BY <1>2

LEMMA LastTypeIsType ==
  ASSUME NEW edges \in Seq(Edge), NEW d
  PROVE  LastType(edges, d) \in AnyType
<1>1. CASE Typed(edges, d) = {}
  BY <1>1 DEF LastType, AnyType
<1>2. CASE Typed(edges, d) # {}
  <2> DEFINE i == CHOOSE i \in Typed(edges, d) : \A j \in Typed(edges, d) : j <= i
  <2>1. i \in Typed(edges, d)
    BY <1>2, LastTyped
  <2>2. LastType(edges, d) = edges[i].type
    BY <1>2 DEF LastType
  <2> HIDE DEF i
  <2>3. i \in 1..Len(edges)
    BY <2>1 DEF Typed
  <2>4. edges[i] \in Edge
    BY <2>3
  <2> QED
    BY <2>2, <2>4 DEF Edge, AnyType
<1> QED
  BY <1>1, <1>2

LEMMA LoadedTypeIs ==
  ASSUME TypeOK, NEW k \in Keys, NEW d \in Nodes
  PROVE  /\ LoadedType(k, d) \in AnyType
         /\ LoadedType(k, d) = IF Typed(Stored(k), d) = {} THEN types[<<k, d>>]
                               ELSE LastType(Stored(k), d)
<1>1. LoadedType(k, d) = IF Typed(Stored(k), d) = {} THEN types[<<k, d>>]
                         ELSE LastType(Stored(k), d)
  BY DEF LoadedType, LastType
<1>2. types[<<k, d>>] \in AnyType
  BY DEF TypeOK, AnyType
<1> QED
  BY <1>1, <1>2, StoredIsEdges, LastTypeIsType

LEMMA LoadEffect ==
  ASSUME TypeOK, NEW k \in Keys, Load(k)
  PROVE  /\ cache' \in [Keys -> Seq(Nodes) \cup {Absent}] /\ types' \in [Keys \X Nodes -> AnyType]
         /\ cache'[k] = Dsts(Stored(k)) /\ cache'[k] \in Seq(Nodes)
         /\ \A j \in Keys \ {k} : cache'[j] = cache[j]
         /\ \A d \in Nodes : types'[<<k, d>>] = LoadedType(k, d)
         /\ \A j \in Keys \ {k}, d \in Nodes : types'[<<j, d>>] = types[<<j, d>>]
<1>1. Dsts(Stored(k)) \in Seq(Nodes)
  BY StoredIsEdges, DstsIsNodes
<1>2. /\ cache' = [cache EXCEPT ![k] = Dsts(Stored(k))]
      /\ types' = [e \in Keys \X Nodes |-> IF e[1] = k THEN LoadedType(k, e[2]) ELSE types[e]]
  BY DEF Load
<1>3. /\ cache' \in [Keys -> Seq(Nodes) \cup {Absent}]
      /\ cache'[k] = Dsts(Stored(k)) /\ \A j \in Keys \ {k} : cache'[j] = cache[j]
  BY <1>1, <1>2 DEF TypeOK
<1>4. \A e \in Keys \X Nodes : e[2] \in Nodes /\ types[e] \in AnyType /\ LoadedType(k, e[2]) \in AnyType
  BY LoadedTypeIs DEF TypeOK, AnyType
<1>5. types' \in [Keys \X Nodes -> AnyType]
  BY <1>2, <1>4
<1>6. \A j \in Keys, d \in Nodes :
        types'[<<j, d>>] = IF j = k THEN LoadedType(k, d) ELSE types[<<j, d>>]
  BY <1>2
<1> QED
  BY <1>1, <1>3, <1>5, <1>6

\* What one turn of the flush writes.
LEMMA WriteEffect ==
  ASSUME StoreInv, NEW k \in Keys, WriteCluster(k)
  PROVE  /\ dirty[k] \in Cluster /\ dirty[k] # Absent
         /\ disk' \in [Pages -> Seq(Edge)] /\ index' \in [Keys -> Pages \cup {0}]
         /\ index'[k] = dirty[k].page /\ \A j \in Keys \ {k} : index'[j] = index[j]
         /\ Len(dirty[k].edges) <= PageCap =>
              /\ disk'[dirty[k].page] = dirty[k].edges
              /\ \A p \in Pages \ {dirty[k].page} : disk'[p] = disk[p]
         /\ pending' = {} => dirty' = Nothing(Absent) /\ pc' = "sidecar"
         /\ pending' # {} => dirty' = dirty /\ pc' = "clusters"
         /\ pending' = pending \ {k} /\ pc = "clusters" /\ k \in pending
<1>1. pc = "clusters" /\ k \in pending
  BY DEF WriteCluster
<1>2. dirty[k] \in Cluster /\ dirty[k] # Absent
  BY <1>1 DEF StoreInv, TypeOK, FlushState
<1>3. dirty[k].page \in Pages /\ dirty[k].edges \in Seq(Edge)
  BY <1>2 DEF Cluster
<1>4. disk' = PageWritten(dirty[k].page, dirty[k].edges) /\ index' = [index EXCEPT ![k] = dirty[k].page]
  BY DEF WriteCluster
<1>5. disk' \in [Pages -> Seq(Edge)]
  <2>1. <<>> \in Seq(Edge) /\ disk \in [Pages -> Seq(Edge)]
    BY DEF StoreInv, TypeOK
  <2> QED
    BY <1>3, <1>4, <2>1 DEF PageWritten
<1>6. Len(dirty[k].edges) <= PageCap =>
        /\ disk'[dirty[k].page] = dirty[k].edges
        /\ \A p \in Pages \ {dirty[k].page} : disk'[p] = disk[p]
  BY <1>3, <1>4 DEF PageWritten, StoreInv, TypeOK
<1>7. /\ index' \in [Keys -> Pages \cup {0}]
      /\ index'[k] = dirty[k].page /\ \A j \in Keys \ {k} : index'[j] = index[j]
  BY <1>3, <1>4 DEF StoreInv, TypeOK
<1>8. /\ pending' = {} => dirty' = Nothing(Absent) /\ pc' = "sidecar"
      /\ pending' # {} => dirty' = dirty /\ pc' = "clusters"
      /\ pending' = pending \ {k}
  BY <1>1, Zenon DEF WriteCluster
<1> QED
  BY <1>1, <1>2, <1>5, <1>6, <1>7, <1>8

LEMMA OpenedEffect ==
  ASSUME TypeOK, NEW rooted, Opened(rooted), opens < MaxOpens
  PROVE  /\ cache' \in [Keys -> Seq(Nodes) \cup {Absent}] /\ types' \in [Keys \X Nodes -> AnyType]
         /\ dirty' \in [Keys -> Cluster \cup {Absent}] /\ index' \in [Keys -> Pages \cup {0}]
         /\ \A k \in Keys : cache'[k] = Absent /\ dirty'[k] = Absent
         /\ \A k \in Keys : index'[k] = IF rooted THEN index[k] ELSE 0
         /\ \A k \in Keys, d \in Nodes : types'[<<k, d>>] = NoType
         /\ pc' = "idle" /\ pending' = {} /\ opens' \in 0..MaxOpens
<1>1. /\ \A k \in Keys : Nothing(Absent)[k] = Absent
      /\ Nothing(Absent) \in [Keys -> Seq(Nodes) \cup {Absent}]
      /\ Nothing(Absent) \in [Keys -> Cluster \cup {Absent}]
  BY DEF Nothing
<1>2. Nothing(0) \in [Keys -> Pages \cup {0}] /\ \A k \in Keys : Nothing(0)[k] = 0
  BY DEF Nothing
<1>3. /\ Untyped \in [Keys \X Nodes -> AnyType]
      /\ \A k \in Keys, d \in Nodes : Untyped[<<k, d>>] = NoType
  BY DEF Untyped, AnyType
<1>4. /\ cache' = Nothing(Absent) /\ types' = Untyped /\ dirty' = Nothing(Absent)
      /\ index' = (IF rooted THEN index ELSE Nothing(0))
      /\ pc' = "idle" /\ pending' = {} /\ opens' = opens + 1
  BY DEF Opened
<1>5. index \in [Keys -> Pages \cup {0}]
  BY DEF TypeOK
<1>6. opens' \in 0..MaxOpens
  BY <1>4, EdgeAssumption DEF TypeOK
<1>7. index' \in [Keys -> Pages \cup {0}] /\ \A k \in Keys : index'[k] = IF rooted THEN index[k] ELSE 0
  BY <1>2, <1>4, <1>5
<1> QED
  BY <1>1, <1>3, <1>4, <1>6, <1>7

LEMMA StoreTypes ==
  ASSUME StoreInv, [Next]_vars
  PROVE  TypeOK'
<1> USE DEF AnyType
<1>1. ASSUME NEW k \in Keys, Load(k)
      PROVE  TypeOK'
  BY <1>1, LoadEffect DEF Load, StoreInv, TypeOK
<1>2. ASSUME NEW k \in Keys, WriteCluster(k)
      PROVE  TypeOK'
  <2>1. TypeOK /\ disk' \in [Pages -> Seq(Edge)] /\ index' \in [Keys -> Pages \cup {0}]
    BY <1>2, WriteEffect DEF StoreInv
  <2>2. /\ dirty' \in [Keys -> Cluster \cup {Absent}] /\ pc' \in {"sidecar", "clusters"}
        /\ pending' \subseteq Keys
    <3>1. Nothing(Absent) \in [Keys -> Cluster \cup {Absent}]
      BY DEF Nothing
    <3> QED
      BY <1>2, <2>1, <3>1, WriteEffect DEF TypeOK
  <2>3. events' \subseteq Events
    BY <1>2, <2>1 DEF WriteCluster, TypeOK, If, Events
  <2>4. UNCHANGED <<cache, types, nextPage, sidecar, hdrRoot, lists, given, ever,
                    captured, saved, inserts, opens>>
    BY <1>2 DEF WriteCluster
  <2> QED
    BY <2>1, <2>2, <2>3, <2>4 DEF TypeOK
<1>3. ASSUME NEW a \in Nodes, NEW b \in Nodes, NEW t \in AnyType, Insert(a, b, t)
      PROVE  TypeOK'
  BY <1>3, InsertTypes
<1>4. ASSUME FlushStart
      PROVE  TypeOK'
  BY <1>4 DEF FlushStart, StoreInv, TypeOK
<1>5. ASSUME WriteSidecar
      PROVE  TypeOK'
  BY <1>5 DEF WriteSidecar, StoreInv, TypeOK
<1>6. ASSUME SyncHeader
      PROVE  TypeOK'
  BY <1>6 DEF SyncHeader, HasRoot, StoreInv, TypeOK
<1>7. ASSUME CloseAndOpen
      PROVE  TypeOK'
  <2>1. TypeOK /\ opens < MaxOpens /\ Opened(sidecar = "ok" \/ hdrRoot)
    BY <1>7 DEF CloseAndOpen, StoreInv
  <2>2. /\ cache' \in [Keys -> Seq(Nodes) \cup {Absent}] /\ types' \in [Keys \X Nodes -> AnyType]
        /\ dirty' \in [Keys -> Cluster \cup {Absent}] /\ index' \in [Keys -> Pages \cup {0}]
        /\ pc' = "idle" /\ pending' = {} /\ opens' \in 0..MaxOpens
    BY <2>1, OpenedEffect
  <2>3. UNCHANGED <<disk, nextPage, sidecar, hdrRoot, lists, given, ever, captured, saved,
                    events, inserts>>
    BY <1>7 DEF CloseAndOpen
  <2> QED
    BY <2>1, <2>2, <2>3 DEF TypeOK
<1>8. ASSUME CrashAndOpen
      PROVE  TypeOK'
  <2>1. TypeOK /\ opens < MaxOpens /\ Opened(sidecar' = "ok" \/ hdrRoot)
    BY <1>8 DEF CrashAndOpen, StoreInv
  <2>2. /\ cache' \in [Keys -> Seq(Nodes) \cup {Absent}] /\ types' \in [Keys \X Nodes -> AnyType]
        /\ dirty' \in [Keys -> Cluster \cup {Absent}] /\ index' \in [Keys -> Pages \cup {0}]
        /\ pc' = "idle" /\ pending' = {} /\ opens' \in 0..MaxOpens
    BY <2>1, OpenedEffect
  <2>3. UNCHANGED <<disk, nextPage, hdrRoot, given, ever, captured, saved, inserts>> /\ lists' = saved
    BY <1>8 DEF CrashAndOpen
  <2>4. sidecar' \in {"none", "ok", "torn"} /\ events' \subseteq Events
    BY <1>8, <2>1 DEF CrashAndOpen, TypeOK, If, Events
  <2> QED
    BY <2>1, <2>2, <2>3, <2>4 DEF TypeOK
<1>9. ASSUME UNCHANGED vars
      PROVE  TypeOK'
  BY <1>9 DEF vars, StoreInv, TypeOK
<1> QED
  BY <1>1, <1>2, <1>3, <1>4, <1>5, <1>6, <1>7, <1>8, <1>9 DEF Next

LEMMA PageNumbers ==
  ASSUME StoreInv, NEW k \in Keys
  PROVE  /\ OwnPage(k) \in Nat /\ index[k] \in Nat /\ nextPage \in Nat /\ nextPage > 0
         /\ OwnPage(k) < nextPage /\ (index[k] # 0 => index[k] = OwnPage(k))
         /\ (dirty[k] # Absent => dirty[k].page \in Pages)
<1>1. dirty[k] # Absent => dirty[k].page \in Pages
  BY DEF StoreInv, TypeOK, Cluster
<1>2. index[k] \in Pages \cup {0} /\ nextPage \in Pages
  BY DEF StoreInv, TypeOK
<1>3. \A p \in Pages : p \in Nat /\ p > 0
  BY DEF Pages
<1>4. OwnPage(k) < nextPage /\ (index[k] # 0 => index[k] = OwnPage(k))
  BY DEF StoreInv, OwnPages
<1> QED
  BY <1>1, <1>2, <1>3, <1>4 DEF OwnPage

\* Pages stay owned by one when no key gets another page.
LEMMA NoNewPages ==
  ASSUME StoreInv, UNCHANGED <<nextPage, inserts>>,
         \A k \in Keys : OwnPage(k)' \in {0, OwnPage(k)} /\ index'[k] \in {0, OwnPage(k)'}
  PROVE  OwnPages'
<1>1. \A k \in Keys : OwnPage(k) \in Nat /\ nextPage > 0 /\ OwnPage(k) < nextPage
  BY PageNumbers
<1>2. nextPage' <= 2 * inserts' + 1
  BY DEF StoreInv, OwnPages
<1>3. \A k \in Keys : OwnPage(k)' < nextPage' /\ (index'[k] # 0 => index'[k] = OwnPage(k)')
  BY <1>1
<1>4. \A j, k \in Keys : OwnPage(j) = OwnPage(k) => j = k \/ OwnPage(k) = 0
  BY DEF StoreInv, OwnPages
<1>5. \A j, k \in Keys : OwnPage(j)' = OwnPage(k)' => j = k \/ OwnPage(k)' = 0
  BY <1>4
<1> QED
  BY <1>2, <1>3, <1>5 DEF OwnPages

LEMMA AddedPage ==
  ASSUME StoreInv, index' = index, NEW k \in Keys, NEW d \in Nodes, NEW t \in AnyType,
         NEW p \in Pages, Added(k, d, t, p)
  PROVE  /\ OwnPage(k)' = IF NeedsPage(k) THEN p ELSE OwnPage(k)
         /\ NeedsPage(k) => OwnPage(k) = 0 /\ index[k] = 0
         /\ dirty'[k] # Absent /\ dirty'[k] \in Cluster /\ cache'[k] # Absent
<1> DEFINE e == [dst |-> d, type |-> t]
<1>1. e \in Edge
  BY DEF Edge, AnyType
<1> HIDE DEF e
<1>2. dirty'[k] = Clustered(k, p, e)
  BY DEF Added, e
<1>3. TypeOK
  BY DEF StoreInv
<1>4. /\ dirty'[k] \in Cluster /\ dirty'[k] # Absent
      /\ dirty[k] # Absent => dirty'[k].page = dirty[k].page
      /\ dirty[k] = Absent => dirty'[k].page = IF index[k] # 0 THEN index[k] ELSE p
  BY <1>1, <1>2, <1>3, ClusteredIsCluster
<1>5. cache'[k] # Absent
  <2>1. cache[k] \in Seq(Nodes) \cup {Absent} /\ cache'[k] = Listed(cache[k], d)
    BY <1>3 DEF TypeOK, Added
  <2> QED
    BY <2>1, ListedIsList
<1> QED
  BY <1>4, <1>5 DEF OwnPage, NeedsPage

LEMMA InsertPages ==
  ASSUME StoreInv, NEW a \in Nodes, NEW b \in Nodes, NEW t \in AnyType, Insert(a, b, t)
  PROVE  OwnPages'
<1> DEFINE out == <<a, "out">>
           in == <<b, "in">>
           q == nextPage + Room(out)
<1>1. /\ out \in Keys /\ in \in Keys /\ out # in
      /\ Added(out, b, t, nextPage) /\ Added(in, a, t, q)
      /\ \A k \in Keys \ {out, in} : Same(k)
      /\ nextPage' = q + Room(in)
  BY InsertEffect DEF StoreInv
<1>2. nextPage \in Pages /\ q \in Pages /\ nextPage' <= 2 * inserts' + 1
  BY PagesForInsert
<1>3. index' = index
  BY DEF Insert
<1> HIDE DEF out, in, q
<1>4. OwnPage(out)' = (IF NeedsPage(out) THEN nextPage ELSE OwnPage(out)) /\ (NeedsPage(out) => index[out] = 0)
  BY <1>1, <1>2, <1>3, AddedPage
<1>5. OwnPage(in)' = (IF NeedsPage(in) THEN q ELSE OwnPage(in)) /\ (NeedsPage(in) => index[in] = 0)
  BY <1>1, <1>2, <1>3, AddedPage
<1>6. \A k \in Keys \ {out, in} : OwnPage(k)' = OwnPage(k)
  BY <1>1, <1>3 DEF Same, OwnPage
<1>7. /\ q = nextPage + Room(out) /\ nextPage' = q + Room(in) /\ nextPage \in Nat
      /\ Room(out) = (IF NeedsPage(out) THEN 1 ELSE 0) /\ Room(in) = (IF NeedsPage(in) THEN 1 ELSE 0)
  BY <1>1, <1>2 DEF Room, q, Pages
<1>8. \A k \in Keys : OwnPage(k) \in Nat /\ OwnPage(k) < nextPage /\ (index[k] # 0 => index[k] = OwnPage(k))
  BY PageNumbers
<1> HIDE DEF Room, NeedsPage, OwnPage
<1>9. \A k \in Keys : OwnPage(k)' < nextPage' /\ (index'[k] # 0 => index'[k] = OwnPage(k)')
  <2>1. ASSUME NEW k \in Keys
        PROVE  OwnPage(k)' < nextPage' /\ (index'[k] # 0 => index'[k] = OwnPage(k)')
    <3>1. CASE k = out
      BY <1>3, <1>4, <1>7, <1>8, <3>1
    <3>2. CASE k = in
      BY <1>3, <1>5, <1>7, <1>8, <3>2
    <3>3. CASE k \notin {out, in}
      BY <1>3, <1>6, <1>7, <1>8, <3>3
    <3> QED
      BY <3>1, <3>2, <3>3
  <2> QED
    BY <2>1
<1>10. \A j, k \in Keys : OwnPage(j) = OwnPage(k) => j = k \/ OwnPage(k) = 0
  BY DEF StoreInv, OwnPages
<1>11. ASSUME NEW j \in Keys, NEW k \in Keys, OwnPage(j)' = OwnPage(k)'
       PROVE  j = k \/ OwnPage(k)' = 0
  <2>1. \A x \in Keys : \/ OwnPage(x)' = OwnPage(x) /\ OwnPage(x)' < nextPage
                        \/ x = out /\ OwnPage(x)' = nextPage /\ q = nextPage + 1
                        \/ x = in /\ OwnPage(x)' = q
    BY <1>4, <1>5, <1>6, <1>7, <1>8
  <2>2. q >= nextPage /\ q \in Nat
    BY <1>7
  <2>3. CASE OwnPage(j)' = OwnPage(j) /\ OwnPage(j)' < nextPage
    <3>1. OwnPage(k)' = OwnPage(k)
      <4>1. OwnPage(k)' # nextPage /\ OwnPage(k)' # q
        <5>1. OwnPage(j) \in Nat /\ nextPage \in Nat
          BY <1>7, <1>8
        <5> QED
          BY <1>11, <2>2, <2>3, <5>1
      <4> QED
        BY <2>1, <4>1
    <3> QED
      BY <1>10, <1>11, <2>3, <3>1
  <2>4. CASE ~(OwnPage(j)' = OwnPage(j) /\ OwnPage(j)' < nextPage)
    BY <1>7, <1>11, <2>1, <2>2, <2>4
  <2> QED
    BY <2>3, <2>4
<1> QED
  BY <1>2, <1>9, <1>11 DEF OwnPages

LEMMA StorePages ==
  ASSUME StoreInv, [Next]_vars
  PROVE  OwnPages'
<1>1. \A k \in Keys : /\ OwnPage(k) \in Nat /\ index[k] \in Nat
                      /\ index[k] # 0 => index[k] = OwnPage(k)
  BY PageNumbers
<1>2. ASSUME UNCHANGED <<dirty, index, nextPage, inserts>>
      PROVE  OwnPages'
  <2>1. \A k \in Keys : OwnPage(k)' = OwnPage(k) /\ index'[k] \in {0, OwnPage(k)}
    BY <1>1, <1>2 DEF OwnPage
  <2> QED
    BY <1>2, <2>1, NoNewPages
<1>3. ASSUME NEW a \in Nodes, NEW b \in Nodes, NEW t \in AnyType, Insert(a, b, t)
      PROVE  OwnPages'
  BY <1>3, InsertPages
<1>4. ASSUME NEW k \in Keys, WriteCluster(k)
      PROVE  OwnPages'
  <2>1. /\ dirty[k] # Absent /\ index'[k] = dirty[k].page
        /\ \A j \in Keys \ {k} : index'[j] = index[j]
        /\ dirty' \in {dirty, Nothing(Absent)}
    BY <1>4, WriteEffect
  <2>2. \A j \in Keys : Nothing(Absent)[j] = Absent
    BY DEF Nothing
  <2>3. OwnPage(k)' = OwnPage(k) /\ index'[k] = OwnPage(k)
    BY <2>1, <2>2 DEF OwnPage
  <2>4. ASSUME NEW j \in Keys \ {k}
        PROVE  OwnPage(j)' \in {0, OwnPage(j)} /\ index'[j] \in {0, OwnPage(j)'}
    BY <1>1, <2>1, <2>2 DEF OwnPage
  <2>5. \A j \in Keys : OwnPage(j)' \in {0, OwnPage(j)} /\ index'[j] \in {0, OwnPage(j)'}
    BY <2>3, <2>4
  <2>6. UNCHANGED <<nextPage, inserts>>
    BY <1>4 DEF WriteCluster
  <2> QED
    BY <2>5, <2>6, NoNewPages
<1>5. ASSUME NEW rooted, Opened(rooted), opens < MaxOpens, UNCHANGED <<nextPage, inserts>>
      PROVE  OwnPages'
  <2>1. \A k \in Keys : dirty'[k] = Absent /\ index'[k] = IF rooted THEN index[k] ELSE 0
    BY <1>5, OpenedEffect DEF StoreInv
  <2>2. \A k \in Keys : OwnPage(k)' \in {0, OwnPage(k)} /\ index'[k] \in {0, OwnPage(k)'}
    BY <1>1, <2>1 DEF OwnPage
  <2> QED
    BY <1>5, <2>2, NoNewPages
<1>6. ASSUME CloseAndOpen
      PROVE  OwnPages'
  BY <1>5, <1>6 DEF CloseAndOpen
<1>7. ASSUME CrashAndOpen
      PROVE  OwnPages'
  BY <1>5, <1>7 DEF CrashAndOpen
<1>8. ASSUME NEW k \in Keys, Load(k)
      PROVE  OwnPages'
  BY <1>2, <1>8 DEF Load
<1> QED
  BY <1>2, <1>3, <1>4, <1>6, <1>7, <1>8
     DEF Next, vars, AnyType, FlushStart, WriteSidecar, SyncHeader

LEMMA StoreFlushing ==
  ASSUME StoreInv, [Next]_vars
  PROVE  FlushState'
<1>1. /\ \A k \in Keys : dirty[k] # Absent => cache[k] # Absent
      /\ \A k \in pending : dirty[k] # Absent
      /\ pc = "clusters" <=> pending # {}
      /\ pc = "sidecar" => \A k \in Keys : dirty[k] = Absent
      /\ pc \in {"idle", "header"} /\ HasRoot => sidecar = "ok" \/ hdrRoot
      /\ \A k \in Keys, d \in Nodes : cache[k] = Absent => types[<<k, d>>] = NoType
  BY DEF StoreInv, FlushState
<1>2. TypeOK
  BY DEF StoreInv
<1>3. ASSUME NEW k \in Keys, Load(k)
      PROVE  FlushState'
  <2>1. /\ cache'[k] # Absent /\ \A j \in Keys \ {k} : cache'[j] = cache[j]
        /\ \A j \in Keys \ {k}, d \in Nodes : types'[<<j, d>>] = types[<<j, d>>]
    BY <1>2, <1>3, LoadEffect, AbsentAssumption
  <2>2. UNCHANGED <<dirty, index, sidecar, hdrRoot, pc, pending>>
    BY <1>3 DEF Load
  <2> QED
    BY <1>1, <2>1, <2>2 DEF FlushState, HasRoot
<1>4. ASSUME NEW k \in Keys, WriteCluster(k)
      PROVE  FlushState'
  <2>1. /\ pending' = {} => dirty' = Nothing(Absent) /\ pc' = "sidecar"
        /\ pending' # {} => dirty' = dirty /\ pc' = "clusters"
        /\ pending' = pending \ {k}
    BY <1>4, WriteEffect
  <2>2. \A j \in Keys : Nothing(Absent)[j] = Absent
    BY DEF Nothing
  <2>3. UNCHANGED <<cache, types>>
    BY <1>4 DEF WriteCluster
  <2> QED
    BY <1>1, <2>1, <2>2, <2>3 DEF FlushState
<1>5. ASSUME NEW a \in Nodes, NEW b \in Nodes, NEW t \in AnyType, Insert(a, b, t)
      PROVE  FlushState'
  <2> DEFINE out == <<a, "out">>
             in == <<b, "in">>
             q == nextPage + Room(out)
  <2>1. /\ out \in Keys /\ in \in Keys
        /\ Added(out, b, t, nextPage) /\ Added(in, a, t, q)
        /\ \A k \in Keys \ {out, in} : Same(k)
    BY <1>2, <1>5, InsertEffect
  <2>2. nextPage \in Pages /\ q \in Pages
    BY <1>5, PagesForInsert
  <2>3. UNCHANGED <<index, sidecar, hdrRoot, pc, pending>> /\ pc \in {"idle", "header"}
    BY <1>5 DEF Insert
  <2> HIDE DEF out, in, q
  <2>4. /\ dirty'[out] # Absent /\ cache'[out] # Absent
        /\ dirty'[in] # Absent /\ cache'[in] # Absent
    BY <2>1, <2>2, <2>3, AddedPage
  <2>5. \A k \in Keys : dirty'[k] # Absent => cache'[k] # Absent
    BY <1>1, <2>1, <2>4 DEF Same
  <2>6. \A k \in Keys, d \in Nodes : cache'[k] = Absent => types'[<<k, d>>] = NoType
    BY <1>1, <2>1, <2>4 DEF Same
  <2>7. pending' = {}
    BY <1>1, <2>3
  <2> QED
    BY <1>1, <2>3, <2>5, <2>6, <2>7 DEF FlushState, HasRoot
<1>6. ASSUME FlushStart
      PROVE  FlushState'
  <2>1. pending' = {k \in Keys : dirty[k] # Absent} /\ pc' = (IF pending' = {} THEN "header" ELSE "clusters") /\ pc = "idle"
    BY <1>6 DEF FlushStart
  <2>2. UNCHANGED <<cache, types, dirty, index, sidecar, hdrRoot>>
    BY <1>6 DEF FlushStart
  <2> QED
    BY <1>1, <2>1, <2>2 DEF FlushState, HasRoot
<1>7. ASSUME WriteSidecar
      PROVE  FlushState'
  BY <1>1, <1>7 DEF WriteSidecar, FlushState
<1>8. ASSUME SyncHeader
      PROVE  FlushState'
  BY <1>1, <1>8 DEF SyncHeader, FlushState, HasRoot
<1>9. ASSUME NEW rooted, Opened(rooted), opens < MaxOpens, rooted => sidecar' = "ok" \/ hdrRoot'
      PROVE  FlushState'
  <2>1. /\ \A k \in Keys : cache'[k] = Absent /\ dirty'[k] = Absent
        /\ \A k \in Keys : index'[k] = IF rooted THEN index[k] ELSE 0
        /\ \A k \in Keys, d \in Nodes : types'[<<k, d>>] = NoType
        /\ pc' = "idle" /\ pending' = {}
    BY <1>2, <1>9, OpenedEffect
  <2>2. HasRoot' => rooted
    BY <2>1 DEF HasRoot
  <2> QED
    BY <1>9, <2>1, <2>2 DEF FlushState
<1>10. ASSUME CloseAndOpen
       PROVE  FlushState'
  BY <1>9, <1>10 DEF CloseAndOpen
<1>11. ASSUME CrashAndOpen
       PROVE  FlushState'
  BY <1>9, <1>11 DEF CrashAndOpen
<1>12. ASSUME UNCHANGED vars
       PROVE  FlushState'
  BY <1>1, <1>12 DEF vars, FlushState, HasRoot
<1> QED
  BY <1>3, <1>4, <1>5, <1>6, <1>7, <1>8, <1>10, <1>11, <1>12 DEF Next, AnyType

LEMMA StoreStep == StoreInv /\ [Next]_vars => StoreInv'
BY StoreTypes, StorePages, StoreFlushing DEF StoreInv

LEMMA StoreAlways == Spec => []StoreInv
BY StoreInit, StoreStep, PTL DEF Spec

\* The type invariant: whatever is inserted, flushed, lost or read back, lists are
\* lists of nodes, clusters sit on pages the allocator has, and counters stay
\* within their bounds.
THEOREM EdgeTypes == Spec => []TypeOK
<1>1. StoreInv => TypeOK
  BY DEF StoreInv
<1> QED
  BY <1>1, StoreAlways, PTL

-----------------------------------------------------------------------------
(* The records of a key *)

DstsIn(edges) == {edges[i].dst : i \in 1..Len(edges)}

\* Where a key has a dirty cluster, it has no page yet, or the running flush has
\* written that cluster to it.
Fresh(k) ==
  dirty[k] # Absent =>
    \/ index[k] = 0 /\ (pc = "clusters" => k \in pending)
    \/ pc = "clusters" /\ k \notin pending /\ index[k] # 0 /\ disk[index[k]] = dirty[k].edges

Clean == Without({"relisted", "spilled"})

LEMMA DstsInIsSet ==
  ASSUME NEW edges \in Seq(Edge)
  PROVE  ToSet(Dsts(edges)) = DstsIn(edges) /\ DstsIn(edges) \subseteq Nodes
<1>1. Dsts(edges) \in Seq(Nodes) /\ DOMAIN Dsts(edges) = 1..Len(edges)
  BY DstsIsNodes
<1>2. \A i \in 1..Len(edges) : Dsts(edges)[i] = edges[i].dst /\ edges[i].dst \in Nodes
  <2>1. \A i \in 1..Len(edges) : edges[i] \in Edge
    OBVIOUS
  <2> QED
    BY <2>1, DstsIsNodes DEF Edge
<1> QED
  BY <1>1, <1>2 DEF ToSet, DstsIn

LEMMA NoDsts == DstsIn(<<>>) = {} /\ ToSet(<<>>) = {}
BY DEF DstsIn, ToSet

LEMMA AppendDsts ==
  ASSUME NEW edges \in Seq(Edge), NEW e \in Edge
  PROVE  DstsIn(Append(edges, e)) = DstsIn(edges) \cup {e.dst}
<1> DEFINE n == Len(edges)
           r == Append(edges, e)
<1>1. n \in Nat /\ Len(r) = n + 1 /\ r[n + 1] = e /\ \A i \in 1..n : r[i] = edges[i]
  OBVIOUS
<1> HIDE DEF n, r
<1>2. \A i \in 1..Len(r) : i \in 1..n \/ i = n + 1
  BY <1>1
<1>3. n + 1 \in 1..Len(r) /\ \A i \in 1..n : i \in 1..Len(r)
  BY <1>1
<1>4. DstsIn(r) = {r[i].dst : i \in 1..Len(r)} /\ DstsIn(edges) = {edges[i].dst : i \in 1..n}
  BY DEF DstsIn, n
<1>5. DstsIn(r) \subseteq DstsIn(edges) \cup {e.dst}
  BY <1>1, <1>2, <1>4
<1>6. DstsIn(edges) \subseteq DstsIn(r)
  BY <1>1, <1>3, <1>4
<1>7. e.dst \in DstsIn(r)
  BY <1>1, <1>3, <1>4
<1> QED
  BY <1>5, <1>6, <1>7 DEF r

LEMMA AppendSet ==
  ASSUME NEW s \in Seq(Nodes), NEW d \in Nodes
  PROVE  ToSet(Append(s, d)) = ToSet(s) \cup {d}
<1> DEFINE n == Len(s)
           r == Append(s, d)
<1>1. n \in Nat /\ DOMAIN s = 1..n /\ DOMAIN r = 1..(n + 1) /\ r[n + 1] = d /\ \A i \in 1..n : r[i] = s[i]
  OBVIOUS
<1> HIDE DEF n, r
<1>2. \A i \in DOMAIN r : i \in 1..n \/ i = n + 1
  BY <1>1
<1>3. n + 1 \in DOMAIN r /\ \A i \in 1..n : i \in DOMAIN r
  BY <1>1
<1> QED
  BY <1>1, <1>2, <1>3 DEF ToSet, r

LEMMA ContainsIsMember ==
  ASSUME NEW s \in Seq(Nodes), NEW d
  PROVE  Contains(s, d) <=> d \in ToSet(s)
BY DEF Contains, ToSet

LEMMA ListedSet ==
  ASSUME NEW list \in Seq(Nodes) \cup {Absent}, NEW d \in Nodes
  PROVE  /\ list = Absent => ToSet(Listed(list, d)) = {d}
         /\ list # Absent => ToSet(Listed(list, d)) = ToSet(list) \cup {d}
<1>1. ASSUME list = Absent
      PROVE  ToSet(Listed(list, d)) = {d}
  <2>1. Listed(list, d) = <<d>>
    BY <1>1, ListedIsList
  <2>2. ToSet(<<d>>) = {d}
    BY DEF ToSet
  <2> QED
    BY <2>1, <2>2
<1>2. ASSUME list # Absent
      PROVE  ToSet(Listed(list, d)) = ToSet(list) \cup {d}
  <2>1. list \in Seq(Nodes) /\ Listed(list, d) = IF Contains(list, d) THEN list ELSE Append(list, d)
    BY <1>2, ListedIsList
  <2> QED
    BY <2>1, AppendSet, ContainsIsMember
<1> QED
  BY <1>1, <1>2

LEMMA RecordsAreEdges ==
  ASSUME TypeOK, NEW k \in Keys
  PROVE  Records(k) \in Seq(Edge) /\ Stored(k) \in Seq(Edge)
<1>1. dirty[k] # Absent => dirty[k] \in Cluster
  BY DEF TypeOK
<1> QED
  BY <1>1, StoredIsEdges DEF Records, Cluster

\* What the page of a key has is among its records.
LEMMA StoredAmongRecords ==
  ASSUME TypeOK, NEW k \in Keys, Fresh(k)
  PROVE  Stored(k) \in {<<>>, Records(k)}
BY DEF Fresh, Stored, Records

LEMMA QuietRecords ==
  ASSUME NEW k, UNCHANGED <<dirty, index, disk>>
  PROVE  Records(k)' = Records(k) /\ Stored(k)' = Stored(k)
BY DEF Records, Stored

LEMMA AddedRecords ==
  ASSUME StoreInv, UNCHANGED <<index, disk>>, NEW k \in Keys, NEW d \in Nodes,
         NEW t \in AnyType, NEW p \in Pages, Added(k, d, t, p), "relisted" \notin events'
  PROVE  /\ Records(k)' = Append(Records(k), [dst |-> d, type |-> t])
         /\ [dst |-> d, type |-> t] \in Edge /\ Stored(k)' = Stored(k)
         /\ dirty[k] = Absent => Records(k) = <<>> /\ index[k] = 0
<1> DEFINE e == [dst |-> d, type |-> t]
<1>1. e \in Edge /\ TypeOK
  BY DEF Edge, AnyType, StoreInv
<1>2. dirty[k] = Absent => index[k] = 0
  <2>1. InsertEvents(k, d, t) \subseteq events'
    BY DEF Added
  <2>2. dirty[k] = Absent /\ index[k] # 0 => "relisted" \in InsertEvents(k, d, t)
    BY DEF InsertEvents, If
  <2> QED
    BY <2>1, <2>2
<1> HIDE DEF e
<1>3. dirty'[k] = Clustered(k, p, e)
  BY DEF Added, e
<1>4. /\ dirty'[k] # Absent
      /\ dirty[k] # Absent => dirty'[k].edges = Append(dirty[k].edges, e)
      /\ dirty[k] = Absent => dirty'[k].edges = <<e>>
  BY <1>1, <1>3, ClusteredIsCluster
<1>5. dirty[k] = Absent => Records(k) = <<>>
  BY <1>2 DEF Records, Stored
<1>6. Append(<<>>, e) = <<e>>
  OBVIOUS
<1>7. Records(k)' = Append(Records(k), e)
  BY <1>4, <1>5, <1>6 DEF Records
<1> QED
  BY <1>1, <1>2, <1>5, <1>7 DEF e, Stored

\* A flush moves records and changes none.
LEMMA WriteRecords ==
  ASSUME StoreInv, \A k \in Keys : Fresh(k), NEW k \in Keys, WriteCluster(k),
         "spilled" \notin events'
  PROVE  /\ \A j \in Keys : Records(j)' = Records(j) /\ Fresh(j)'
         /\ Stored(k) = <<>> /\ Stored(k)' = Records(k)
         /\ \A j \in Keys \ {k} : Stored(j)' = Stored(j)
         /\ pc' # "clusters" => \A j \in Keys : Stored(j)' = Records(j)
<1>1. /\ dirty[k] \in Cluster /\ dirty[k] # Absent
      /\ index'[k] = dirty[k].page /\ \A j \in Keys \ {k} : index'[j] = index[j]
      /\ Len(dirty[k].edges) <= PageCap =>
           /\ disk'[dirty[k].page] = dirty[k].edges
           /\ \A p \in Pages \ {dirty[k].page} : disk'[p] = disk[p]
      /\ pending' = {} => dirty' = Nothing(Absent) /\ pc' = "sidecar"
      /\ pending' # {} => dirty' = dirty /\ pc' = "clusters"
      /\ pending' = pending \ {k} /\ pc = "clusters" /\ k \in pending
  BY WriteEffect
<1>2. Len(dirty[k].edges) <= PageCap
  <2>1. Len(dirty[k].edges) > PageCap => "spilled" \in events'
    BY DEF WriteCluster, If
  <2>2. Len(dirty[k].edges) \in Nat /\ PageCap \in Nat
    BY <1>1, EdgeAssumption DEF Cluster
  <2> QED
    BY <2>1, <2>2
<1>3. /\ disk'[dirty[k].page] = dirty[k].edges
      /\ \A p \in Pages \ {dirty[k].page} : disk'[p] = disk[p]
  BY <1>1, <1>2
<1>4. index[k] = 0 /\ OwnPage(k) = dirty[k].page /\ dirty[k].page \in Pages /\ dirty[k].page # 0
  <2>1. dirty[k].page \in Pages /\ dirty[k].page # 0
    BY <1>1 DEF Cluster, Pages
  <2> QED
    BY <1>1, <2>1 DEF Fresh, OwnPage
<1>5. Stored(k) = <<>> /\ Stored(k)' = dirty[k].edges /\ Records(k) = dirty[k].edges
  BY <1>1, <1>3, <1>4 DEF Stored, Records
<1>6. ASSUME NEW j \in Keys \ {k}
      PROVE  Stored(j)' = Stored(j) /\ (index[j] # 0 => disk'[index[j]] = disk[index[j]])
  <2>1. CASE index[j] = 0
    BY <1>1, <2>1 DEF Stored
  <2>2. CASE index[j] # 0
    <3>1. index[j] = OwnPage(j) /\ index[j] \in Pages
      BY <2>2 DEF StoreInv, OwnPages, TypeOK
    <3>2. index[j] # dirty[k].page
      BY <1>4, <2>2, <3>1 DEF StoreInv, OwnPages
    <3>3. disk'[index[j]] = disk[index[j]]
      BY <1>3, <3>1, <3>2
    <3> QED
      BY <1>1, <3>3 DEF Stored
  <2> QED
    BY <2>1, <2>2
<1>7. \A j \in Keys : Nothing(Absent)[j] = Absent
  BY DEF Nothing
<1>8. CASE pending' # {}
  <2>1. dirty' = dirty /\ pc' = "clusters"
    BY <1>1, <1>8
  <2>2. \A j \in Keys : Records(j)' = Records(j)
    BY <1>5, <1>6, <2>1 DEF Records
  <2>3. Fresh(k)'
    BY <1>1, <1>3, <1>4, <2>1 DEF Fresh
  <2>4. ASSUME NEW j \in Keys \ {k}
        PROVE  Fresh(j)'
    <3>1. Fresh(j) /\ index'[j] = index[j] /\ (j \in pending' <=> j \in pending)
      BY <1>1
    <3> QED
      BY <1>1, <1>6, <2>1, <3>1 DEF Fresh
  <2> QED
    BY <1>5, <1>6, <2>1, <2>2, <2>3, <2>4
<1>9. CASE pending' = {}
  <2>1. dirty' = Nothing(Absent) /\ pc' = "sidecar" /\ pending \subseteq {k}
    BY <1>1, <1>9
  <2>2. \A j \in Keys : Fresh(j)' /\ Records(j)' = Stored(j)'
    BY <1>7, <2>1 DEF Fresh, Records
  <2>3. ASSUME NEW j \in Keys \ {k}
        PROVE  Stored(j)' = Records(j)
    <3>1. CASE dirty[j] = Absent
      BY <1>6, <3>1 DEF Records
    <3>2. CASE dirty[j] # Absent
      <4>1. index[j] # 0 /\ disk[index[j]] = dirty[j].edges
        BY <1>1, <2>1, <3>2 DEF Fresh
      <4> QED
        BY <1>6, <3>2, <4>1 DEF Records, Stored
    <3> QED
      BY <3>1, <3>2
  <2> QED
    BY <1>5, <1>6, <2>1, <2>2, <2>3
<1> QED
  BY <1>8, <1>9

LEMMA OpenRecords ==
  ASSUME TypeOK, NEW rooted, Opened(rooted), opens < MaxOpens, disk' = disk, NEW k \in Keys
  PROVE  /\ Records(k)' = Stored(k)' /\ Fresh(k)' /\ cache'[k] = Absent
         /\ Stored(k)' = IF rooted THEN Stored(k) ELSE <<>>
<1>1. dirty'[k] = Absent /\ cache'[k] = Absent /\ index'[k] = IF rooted THEN index[k] ELSE 0
  BY OpenedEffect
<1> QED
  BY <1>1 DEF Records, Stored, Fresh

LEMMA EventsStay ==
  ASSUME [Next]_vars
  PROVE  events \subseteq events'
<1>1. ASSUME NEW a \in Nodes, NEW b \in Nodes, NEW t \in AnyType, Insert(a, b, t)
      PROVE  events \subseteq events'
  BY <1>1 DEF Insert
<1>2. ASSUME NEW k \in Keys, Load(k) \/ WriteCluster(k)
      PROVE  events \subseteq events'
  BY <1>2 DEF Load, WriteCluster
<1>3. ASSUME FlushStart \/ WriteSidecar \/ SyncHeader \/ UNCHANGED vars
      PROVE  events \subseteq events'
  BY <1>3 DEF FlushStart, WriteSidecar, SyncHeader, vars
<1>4. ASSUME CloseAndOpen \/ CrashAndOpen
      PROVE  events \subseteq events'
  BY <1>4 DEF CloseAndOpen, CrashAndOpen
<1> QED
  BY <1>1, <1>2, <1>3, <1>4 DEF Next, AnyType

-----------------------------------------------------------------------------
(* What neighbors returns *)

\* Lists are told by the records; a completed flush has told them to the disk.
Kept(k) ==
  /\ cache[k] # Absent => ToSet(cache[k]) = DstsIn(Records(k))
  /\ ToSet(lists[k]) \subseteq DstsIn(Records(k))
  /\ DstsIn(Records(k)) \subseteq ever[k]
  /\ ToSet(saved[k]) \subseteq DstsIn(Stored(k))
  /\ saved[k] # <<>> => hdrRoot
  /\ pc = "clusters" => ToSet(captured[k]) \subseteq DstsIn(Records(k))
  /\ pc \in {"sidecar", "header"} => ToSet(captured[k]) \subseteq DstsIn(Stored(k))

KeptInv == StoreInv /\ (Clean => \A k \in Keys : Fresh(k) /\ Kept(k))

LEMMA KeptInit == Init => KeptInv
<1> SUFFICES ASSUME Init
             PROVE  \A k \in Keys : Fresh(k) /\ Kept(k)
  BY StoreInit DEF KeptInv
<1> TAKE k \in Keys
<1>1. /\ cache[k] = Absent /\ dirty[k] = Absent /\ index[k] = 0 /\ lists[k] = <<>> /\ ever[k] = {}
      /\ saved[k] = <<>> /\ captured[k] = <<>> /\ pc = "idle"
  BY DEF Init, Nothing
<1>2. Records(k) = <<>> /\ Stored(k) = <<>>
  BY <1>1 DEF Records, Stored
<1> QED
  BY <1>1, <1>2, NoDsts DEF Fresh, Kept

\* What is cached under a key agrees with what is stored when nothing is dirty.
LEMMA NotCachedNotDirty ==
  ASSUME StoreInv, NEW k \in Keys, cache[k] = Absent
  PROVE  dirty[k] = Absent /\ Records(k) = Stored(k)
BY DEF StoreInv, FlushState, Records

LEMMA KeptLoad ==
  ASSUME StoreInv, \A k \in Keys : Fresh(k) /\ Kept(k), NEW j \in Keys, Load(j), NEW k \in Keys
  PROVE  Fresh(k)' /\ Kept(k)'
<1>1. UNCHANGED <<dirty, index, disk, hdrRoot, pc, pending, lists, ever, captured, saved>> /\ cache[j] = Absent
  BY DEF Load
<1>2. Records(k)' = Records(k) /\ Stored(k)' = Stored(k)
  BY <1>1, QuietRecords
<1>3. cache'[j] = Dsts(Stored(j)) /\ \A i \in Keys \ {j} : cache'[i] = cache[i]
  BY LoadEffect DEF StoreInv
<1>4. cache'[k] # Absent => ToSet(cache'[k]) = DstsIn(Records(k))
  <2>1. CASE k = j
    BY <1>1, <1>3, <2>1, NotCachedNotDirty, RecordsAreEdges, DstsInIsSet DEF StoreInv
  <2>2. CASE k # j
    BY <1>3, <2>2 DEF Kept
  <2> QED
    BY <2>1, <2>2
<1>5. Fresh(k)'
  BY <1>1 DEF Fresh
<1> QED
  BY <1>1, <1>2, <1>4, <1>5 DEF Kept

LEMMA KeptAdded ==
  ASSUME StoreInv, UNCHANGED <<index, disk, hdrRoot, pc, captured, saved>>, pc \in {"idle", "header"},
         NEW k \in Keys, Fresh(k), Kept(k), NEW d \in Nodes,
         NEW t \in AnyType, NEW p \in Pages, Added(k, d, t, p), "relisted" \notin events'
  PROVE  Fresh(k)' /\ Kept(k)'
<1> DEFINE e == [dst |-> d, type |-> t]
<1>1. /\ Records(k)' = Append(Records(k), e) /\ e \in Edge /\ Stored(k)' = Stored(k)
      /\ dirty[k] = Absent => Records(k) = <<>> /\ index[k] = 0
  BY AddedRecords
<1>2. e.dst = d
  OBVIOUS
<1> HIDE DEF e
<1>3. DstsIn(Records(k)') = DstsIn(Records(k)) \cup {d}
  BY <1>1, <1>2, RecordsAreEdges, AppendDsts DEF StoreInv
<1>4. /\ cache[k] \in Seq(Nodes) \cup {Absent} /\ cache'[k] = Listed(cache[k], d)
      /\ lists[k] \in Seq(Nodes) /\ lists'[k] = Listed(lists[k], d) /\ ever'[k] = ever[k] \cup {d}
      /\ lists[k] # Absent
  BY AbsentAssumption DEF StoreInv, TypeOK, Added
<1>5. ToSet(cache'[k]) = DstsIn(Records(k)')
  <2>1. CASE cache[k] = Absent
    <3>1. DstsIn(Records(k)) = {}
      BY <1>1, <2>1, NotCachedNotDirty, NoDsts
    <3>2. ToSet(Listed(cache[k], d)) = {d}
      BY <1>4, <2>1, ListedSet
    <3>3. ToSet(cache'[k]) = {d}
      BY <1>4, <3>2
    <3> QED
      BY <1>3, <3>1, <3>3
  <2>2. CASE cache[k] # Absent
    <3>1. ToSet(cache[k]) = DstsIn(Records(k))
      BY <2>2 DEF Kept
    <3>2. ToSet(Listed(cache[k], d)) = ToSet(cache[k]) \cup {d}
      BY <1>4, <2>2, ListedSet
    <3> QED
      BY <1>3, <1>4, <3>1, <3>2
  <2> QED
    BY <2>1, <2>2
<1>6. ToSet(lists'[k]) \subseteq DstsIn(Records(k)')
  BY <1>3, <1>4, ListedSet DEF Kept
<1>7. Fresh(k)'
  <2>1. dirty[k] # Absent => index[k] = 0
    BY DEF Fresh
  <2>2. index'[k] = 0 /\ pc' # "clusters"
    BY <1>1, <2>1
  <2> QED
    BY <2>2 DEF Fresh
<1>8. /\ ToSet(saved'[k]) \subseteq DstsIn(Stored(k)') /\ (saved'[k] # <<>> => hdrRoot')
      /\ pc' \in {"sidecar", "header"} => ToSet(captured'[k]) \subseteq DstsIn(Stored(k)')
  BY <1>1 DEF Kept
<1>9. DstsIn(Records(k)') \subseteq ever'[k]
  BY <1>3, <1>4 DEF Kept
<1> QED
  BY <1>5, <1>6, <1>7, <1>8, <1>9 DEF Kept

LEMMA KeptInsert ==
  ASSUME StoreInv, \A k \in Keys : Fresh(k) /\ Kept(k), Clean',
         NEW a \in Nodes, NEW b \in Nodes, NEW t \in AnyType, Insert(a, b, t), NEW k \in Keys
  PROVE  Fresh(k)' /\ Kept(k)'
<1> DEFINE out == <<a, "out">>
           in == <<b, "in">>
           q == nextPage + Room(out)
<1>1. /\ Added(out, b, t, nextPage) /\ Added(in, a, t, q)
      /\ \A j \in Keys \ {out, in} : Same(j)
  BY InsertEffect DEF StoreInv
<1>2. nextPage \in Pages /\ q \in Pages
  BY PagesForInsert
<1>3. UNCHANGED <<index, disk, hdrRoot, pc, pending, captured, saved>> /\ pc \in {"idle", "header"}
  BY DEF Insert
<1>4. "relisted" \notin events'
  BY DEF Clean, Without
<1> HIDE DEF out, in, q
<1>5. CASE k = out
  BY <1>1, <1>2, <1>3, <1>4, <1>5, KeptAdded
<1>6. CASE k = in
  BY <1>1, <1>2, <1>3, <1>4, <1>6, KeptAdded
<1>7. CASE k \notin {out, in}
  <2>1. Same(k)
    BY <1>1, <1>7
  <2>2. Records(k)' = Records(k) /\ Stored(k)' = Stored(k)
    BY <1>3, <2>1 DEF Records, Stored, Same
  <2> QED
    BY <1>3, <2>1, <2>2 DEF Fresh, Kept, Same
<1> QED
  BY <1>5, <1>6, <1>7

LEMMA KeptWrite ==
  ASSUME StoreInv, \A k \in Keys : Fresh(k) /\ Kept(k), Clean',
         NEW j \in Keys, WriteCluster(j), NEW k \in Keys
  PROVE  Fresh(k)' /\ Kept(k)'
<1>1. "spilled" \notin events'
  BY DEF Clean, Without
<1>2. /\ Records(k)' = Records(k) /\ Fresh(k)'
      /\ Stored(j) = <<>>
      /\ k # j => Stored(k)' = Stored(k)
      /\ pc' # "clusters" => Stored(k)' = Records(k)
  BY <1>1, WriteRecords
<1>3. UNCHANGED <<cache, lists, ever, captured, saved, hdrRoot>> /\ pc = "clusters" /\ pc' \in {"clusters", "sidecar"}
  <2>1. pc' \in {"clusters", "sidecar"}
    BY WriteEffect
  <2> QED
    BY <2>1 DEF WriteCluster
<1>4. ToSet(saved[k]) \subseteq DstsIn(Stored(k)')
  BY <1>2, NoDsts DEF Kept
<1> QED
  BY <1>2, <1>3, <1>4 DEF Kept

LEMMA KeptOpen ==
  ASSUME StoreInv, \A k \in Keys : Fresh(k) /\ Kept(k), NEW rooted, Opened(rooted),
         opens < MaxOpens, UNCHANGED <<disk, hdrRoot, ever, saved>>, hdrRoot => rooted,
         NEW k \in Keys, ToSet(lists'[k]) \subseteq DstsIn(Stored(k)')
  PROVE  Fresh(k)' /\ Kept(k)'
<1>1. /\ Records(k)' = Stored(k)' /\ Fresh(k)' /\ cache'[k] = Absent
      /\ Stored(k)' = IF rooted THEN Stored(k) ELSE <<>>
      /\ pc' = "idle"
  BY OpenRecords, OpenedEffect DEF StoreInv
<1>2. DstsIn(Stored(k)') \subseteq ever[k]
  BY <1>1, StoredAmongRecords, NoDsts DEF Kept, StoreInv
<1>3. ToSet(saved[k]) \subseteq DstsIn(Stored(k)')
  <2>1. CASE rooted
    BY <1>1, <2>1 DEF Kept
  <2>2. CASE ~rooted
    BY <2>2, NoDsts DEF Kept
  <2> QED
    BY <2>1, <2>2
<1>4. saved[k] # <<>> => hdrRoot
  BY DEF Kept
<1> QED
  BY <1>1, <1>2, <1>3, <1>4 DEF Kept

LEMMA KeptFlushing ==
  ASSUME StoreInv, \A k \in Keys : Fresh(k) /\ Kept(k),
         FlushStart \/ WriteSidecar \/ SyncHeader \/ UNCHANGED vars, NEW k \in Keys
  PROVE  Fresh(k)' /\ Kept(k)'
<1>1. UNCHANGED <<dirty, index, disk, cache, lists, ever>>
  BY DEF FlushStart, WriteSidecar, SyncHeader, vars
<1>2. Records(k)' = Records(k) /\ Stored(k)' = Stored(k)
  BY <1>1, QuietRecords
<1>3. CASE FlushStart
  <2>1. /\ pc = "idle" /\ pending' = {j \in Keys : dirty[j] # Absent} /\ captured' = lists
        /\ pc' = (IF pending' = {} THEN "header" ELSE "clusters") /\ UNCHANGED <<hdrRoot, saved>>
    BY <1>3 DEF FlushStart
  <2>2. Fresh(k)'
    BY <1>1, <2>1 DEF Fresh
  <2>3. pc' = "header" => Stored(k) = Records(k)
    BY <2>1 DEF Records
  <2> QED
    BY <1>1, <1>2, <2>1, <2>2, <2>3 DEF Kept
<1>4. CASE WriteSidecar
  <2>1. pc = "sidecar" /\ pc' = "header" /\ UNCHANGED <<hdrRoot, saved, captured, pending>>
    BY <1>4 DEF WriteSidecar
  <2> QED
    BY <1>1, <1>2, <2>1 DEF Kept, Fresh
<1>5. CASE SyncHeader
  <2>1. pc = "header" /\ pc' = "idle" /\ saved' = captured /\ hdrRoot' = HasRoot /\ UNCHANGED <<captured, pending>>
    BY <1>5 DEF SyncHeader
  <2>2. captured[k] # <<>> => HasRoot
    <3>1. captured[k] \in Seq(Nodes)
      BY DEF StoreInv, TypeOK
    <3>2. captured[k] # <<>> => captured[k][1] \in ToSet(captured[k])
      BY <3>1 DEF ToSet
    <3>3. index[k] = 0 => DstsIn(Stored(k)) = {}
      BY NoDsts DEF Stored
    <3> QED
      BY <2>1, <3>2, <3>3 DEF Kept, HasRoot
  <2> QED
    BY <1>1, <1>2, <2>1, <2>2 DEF Kept, Fresh
<1>6. CASE UNCHANGED vars
  BY <1>1, <1>2, <1>6 DEF vars, Kept, Fresh
<1> QED
  BY <1>3, <1>4, <1>5, <1>6

LEMMA KeptStep == KeptInv /\ [Next]_vars => KeptInv'
<1> SUFFICES ASSUME KeptInv, [Next]_vars, Clean', NEW k \in Keys
             PROVE  Fresh(k)' /\ Kept(k)'
  BY StoreStep DEF KeptInv
<1>1. StoreInv /\ \A j \in Keys : Fresh(j) /\ Kept(j)
  <2>1. Clean
    BY EventsStay DEF Clean, Without
  <2> QED
    BY <2>1 DEF KeptInv
<1>2. ASSUME CloseAndOpen
      PROVE  Fresh(k)' /\ Kept(k)'
  <2> DEFINE rooted == sidecar = "ok" \/ hdrRoot
  <2>1. /\ Opened(rooted) /\ opens < MaxOpens /\ pc = "idle" /\ \A j \in Keys : dirty[j] = Absent
        /\ UNCHANGED <<disk, hdrRoot, ever, saved, lists>>
    BY <1>2 DEF CloseAndOpen
  <2>2. ~rooted => index[k] = 0
    BY <1>1, <2>1 DEF StoreInv, FlushState, HasRoot
  <2>3. hdrRoot => rooted
    OBVIOUS
  <2> HIDE DEF rooted
  <2>4. Stored(k)' = IF rooted THEN Stored(k) ELSE <<>>
    BY <1>1, <2>1, OpenRecords DEF StoreInv
  <2>5. Stored(k)' = Records(k)
    BY <2>1, <2>2, <2>4 DEF Stored, Records
  <2>6. ToSet(lists'[k]) \subseteq DstsIn(Stored(k)')
    BY <1>1, <2>1, <2>5 DEF Kept
  <2> QED
    BY <1>1, <2>1, <2>3, <2>6, KeptOpen
<1>3. ASSUME CrashAndOpen
      PROVE  Fresh(k)' /\ Kept(k)'
  <2> DEFINE rooted == sidecar' = "ok" \/ hdrRoot
  <2>1. /\ Opened(rooted) /\ opens < MaxOpens /\ lists' = saved
        /\ UNCHANGED <<disk, hdrRoot, ever, saved>>
    BY <1>3 DEF CrashAndOpen
  <2>2. hdrRoot => rooted
    OBVIOUS
  <2> HIDE DEF rooted
  <2>3. Stored(k)' = IF rooted THEN Stored(k) ELSE <<>>
    BY <1>1, <2>1, OpenRecords DEF StoreInv
  <2>4. ToSet(lists'[k]) \subseteq DstsIn(Stored(k)')
    BY <1>1, <2>1, <2>2, <2>3, NoDsts DEF Kept
  <2> QED
    BY <1>1, <2>1, <2>2, <2>4, KeptOpen
<1>4. ASSUME NEW j \in Keys, Load(j)
      PROVE  Fresh(k)' /\ Kept(k)'
  BY <1>1, <1>4, KeptLoad
<1>5. ASSUME NEW j \in Keys, WriteCluster(j)
      PROVE  Fresh(k)' /\ Kept(k)'
  BY <1>1, <1>5, KeptWrite
<1>6. ASSUME NEW a \in Nodes, NEW b \in Nodes, NEW t \in AnyType, Insert(a, b, t)
      PROVE  Fresh(k)' /\ Kept(k)'
  BY <1>1, <1>6, KeptInsert
<1>7. ASSUME FlushStart \/ WriteSidecar \/ SyncHeader \/ UNCHANGED vars
      PROVE  Fresh(k)' /\ Kept(k)'
  BY <1>1, <1>7, KeptFlushing
<1> QED
  BY <1>2, <1>3, <1>4, <1>5, <1>6, <1>7 DEF Next, AnyType

LEMMA KeptAlways == Spec => []KeptInv
BY KeptInit, KeptStep, PTL DEF Spec

\* What neighbors returns, as a set: the records.
LEMMA NeighborsAreRecords ==
  ASSUME KeptInv, Clean, NEW k \in Keys
  PROVE  ToSet(Neighbors(k)) = DstsIn(Records(k))
<1>1. StoreInv /\ Kept(k)
  BY DEF KeptInv
<1>2. CASE cache[k] # Absent
  BY <1>1, <1>2 DEF Neighbors, Kept
<1>3. CASE cache[k] = Absent
  BY <1>1, <1>3, NotCachedNotDirty, RecordsAreEdges, DstsInIsSet DEF Neighbors, StoreInv
<1> QED
  BY <1>2, <1>3

\* Over any number of inserts, flushes, loads, crashes and openings, neighbors
\* returns every edge inserted and not lost to a crash since the last completed
\* flush, and none that was never inserted, unless a key flushed before was
\* inserted under again or a cluster outgrew its page.
THEOREM NeighborsAreComplete == Spec => []ReadsCompleteOnceListed
<1>1. KeptInv => ReadsCompleteOnceListed
  <2> SUFFICES ASSUME KeptInv, Clean, NEW k \in Keys
               PROVE  /\ ToSet(lists[k]) \subseteq ToSet(Neighbors(k))
                      /\ ToSet(Neighbors(k)) \subseteq ever[k]
    BY DEF ReadsCompleteOnceListed, ReadsComplete, Clean
  <2> QED
    BY NeighborsAreRecords DEF KeptInv, Kept
<1> QED
  BY <1>1, KeptAlways, PTL

-----------------------------------------------------------------------------
(* The two directions of an edge *)

Out(a) == <<a, "out">>
In(b) == <<b, "in">>
RecordsMirrored ==
  \A a, b \in Nodes : b \in DstsIn(Records(Out(a))) <=> a \in DstsIn(Records(In(b)))
StoredMirrored ==
  \A a, b \in Nodes : b \in DstsIn(Stored(Out(a))) <=> a \in DstsIn(Stored(In(b)))

Whole == Without({"relisted", "spilled", "halved"})
MirrorInv == KeptInv /\ (Whole => RecordsMirrored /\ (pc # "clusters" => StoredMirrored))

LEMMA KeysOfNodes ==
  /\ \A a \in Nodes : Out(a) \in Keys /\ In(a) \in Keys
  /\ \A a, b \in Nodes : Out(a) # In(b) /\ (Out(a) = Out(b) <=> a = b) /\ (In(a) = In(b) <=> a = b)
BY DEF Keys, Out, In

LEMMA MirrorInit == Init => MirrorInv
<1> SUFFICES ASSUME Init
             PROVE  RecordsMirrored /\ StoredMirrored
  BY KeptInit DEF MirrorInv
<1>1. \A k \in Keys : dirty[k] = Absent /\ index[k] = 0
  BY DEF Init, Nothing
<1>2. \A k \in Keys : Records(k) = <<>> /\ Stored(k) = <<>>
  BY <1>1 DEF Records, Stored
<1> QED
  BY <1>2, KeysOfNodes, NoDsts DEF RecordsMirrored, StoredMirrored

LEMMA QuietMirrored ==
  ASSUME UNCHANGED <<dirty, index, disk>>
  PROVE  /\ RecordsMirrored => RecordsMirrored'
         /\ StoredMirrored => StoredMirrored'
<1>1. \A k \in Keys : Records(k)' = Records(k) /\ Stored(k)' = Stored(k)
  BY QuietRecords
<1> QED
  BY <1>1, KeysOfNodes DEF RecordsMirrored, StoredMirrored

LEMMA InsertMirrored ==
  ASSUME StoreInv, RecordsMirrored, "relisted" \notin events',
         NEW a \in Nodes, NEW b \in Nodes, NEW t \in AnyType, Insert(a, b, t)
  PROVE  RecordsMirrored' /\ (StoredMirrored => StoredMirrored')
<1> DEFINE q == nextPage + Room(Out(a))
<1>1. /\ Added(Out(a), b, t, nextPage) /\ Added(In(b), a, t, q)
      /\ \A k \in Keys \ {Out(a), In(b)} : Same(k)
  BY InsertEffect DEF StoreInv, Out, In
<1>2. nextPage \in Pages /\ q \in Pages
  BY PagesForInsert DEF Out
<1>3. UNCHANGED <<index, disk>> /\ Out(a) \in Keys /\ In(b) \in Keys
  BY KeysOfNodes DEF Insert
<1> HIDE DEF q
<1> DEFINE eo == [dst |-> b, type |-> t]
           ei == [dst |-> a, type |-> t]
<1>4. Records(Out(a))' = Append(Records(Out(a)), eo) /\ eo \in Edge
  BY <1>1, <1>2, <1>3, AddedRecords
<1>5. Records(In(b))' = Append(Records(In(b)), ei) /\ ei \in Edge
  BY <1>1, <1>2, <1>3, AddedRecords
<1>6. eo.dst = b /\ ei.dst = a
  OBVIOUS
<1> HIDE DEF eo, ei
<1>7. /\ DstsIn(Records(Out(a))') = DstsIn(Records(Out(a))) \cup {b}
      /\ DstsIn(Records(In(b))') = DstsIn(Records(In(b))) \cup {a}
  BY <1>3, <1>4, <1>5, <1>6, RecordsAreEdges, AppendDsts DEF StoreInv
<1>8. \A k \in Keys \ {Out(a), In(b)} : Records(k)' = Records(k)
  BY <1>1, <1>3 DEF Same, Records, Stored
<1>9. \A k \in Keys : Stored(k)' = Stored(k)
  BY <1>3 DEF Stored
<1>10. ASSUME NEW x \in Nodes, NEW y \in Nodes
       PROVE  y \in DstsIn(Records(Out(x))') <=> x \in DstsIn(Records(In(y))')
  <2>1. y \in DstsIn(Records(Out(x))') <=> y \in DstsIn(Records(Out(x))) \/ (x = a /\ y = b)
    BY <1>7, <1>8, KeysOfNodes
  <2>2. x \in DstsIn(Records(In(y))') <=> x \in DstsIn(Records(In(y))) \/ (x = a /\ y = b)
    BY <1>7, <1>8, KeysOfNodes
  <2> QED
    BY <2>1, <2>2 DEF RecordsMirrored
<1>11. RecordsMirrored'
  BY <1>10 DEF RecordsMirrored, Out, In
<1> QED
  BY <1>9, <1>11, KeysOfNodes DEF StoredMirrored

LEMMA OpenMirrored ==
  ASSUME TypeOK, NEW rooted, Opened(rooted), opens < MaxOpens, disk' = disk, StoredMirrored
  PROVE  RecordsMirrored' /\ StoredMirrored'
<1>1. \A k \in Keys : Records(k)' = Stored(k)' /\ Stored(k)' = IF rooted THEN Stored(k) ELSE <<>>
  BY OpenRecords
<1>2. CASE rooted
  <2>1. \A k \in Keys : Records(k)' = Stored(k) /\ Stored(k)' = Stored(k)
    BY <1>1, <1>2
  <2> QED
    BY <2>1, KeysOfNodes DEF RecordsMirrored, StoredMirrored
<1>3. CASE ~rooted
  <2>1. \A k \in Keys : Records(k)' = <<>> /\ Stored(k)' = <<>>
    BY <1>1, <1>3
  <2> QED
    BY <2>1, KeysOfNodes, NoDsts DEF RecordsMirrored, StoredMirrored
<1> QED
  BY <1>2, <1>3

LEMMA MirrorStep == MirrorInv /\ [Next]_vars => MirrorInv'
<1> SUFFICES ASSUME MirrorInv, [Next]_vars, Whole'
             PROVE  RecordsMirrored' /\ (pc' # "clusters" => StoredMirrored')
  BY KeptStep DEF MirrorInv
<1>1. /\ StoreInv /\ TypeOK /\ RecordsMirrored /\ (pc # "clusters" => StoredMirrored)
      /\ \A k \in Keys : Fresh(k)
  <2>1. Whole /\ Clean
    BY EventsStay DEF Whole, Clean, Without
  <2> QED
    BY <2>1 DEF MirrorInv, KeptInv, StoreInv
<1>2. "relisted" \notin events' /\ "spilled" \notin events' /\ "halved" \notin events'
  BY DEF Whole, Without
<1>3. ASSUME NEW k \in Keys, Load(k)
      PROVE  RecordsMirrored' /\ (pc' # "clusters" => StoredMirrored')
  BY <1>1, <1>3, QuietMirrored DEF Load
<1>4. ASSUME NEW k \in Keys, WriteCluster(k)
      PROVE  RecordsMirrored' /\ (pc' # "clusters" => StoredMirrored')
  <2>1. \A j \in Keys : Records(j)' = Records(j) /\ (pc' # "clusters" => Stored(j)' = Records(j))
    BY <1>1, <1>2, <1>4, WriteRecords
  <2> QED
    BY <1>1, <2>1, KeysOfNodes DEF RecordsMirrored, StoredMirrored
<1>5. ASSUME NEW a \in Nodes, NEW b \in Nodes, NEW t \in AnyType, Insert(a, b, t)
      PROVE  RecordsMirrored' /\ (pc' # "clusters" => StoredMirrored')
  BY <1>1, <1>2, <1>5, InsertMirrored DEF Insert
<1>6. ASSUME FlushStart \/ WriteSidecar \/ SyncHeader \/ UNCHANGED vars
      PROVE  RecordsMirrored' /\ (pc' # "clusters" => StoredMirrored')
  <2>1. UNCHANGED <<dirty, index, disk>>
    BY <1>6 DEF FlushStart, WriteSidecar, SyncHeader, vars
  <2>2. pc' # "clusters" => pc # "clusters"
    BY <1>6 DEF FlushStart, WriteSidecar, SyncHeader, vars
  <2> QED
    BY <1>1, <2>1, <2>2, QuietMirrored
<1>7. ASSUME CloseAndOpen
      PROVE  RecordsMirrored' /\ (pc' # "clusters" => StoredMirrored')
  <2>1. Opened(sidecar = "ok" \/ hdrRoot) /\ opens < MaxOpens /\ disk' = disk /\ pc = "idle"
    BY <1>7 DEF CloseAndOpen
  <2> QED
    BY <1>1, <2>1, OpenMirrored
<1>8. ASSUME CrashAndOpen
      PROVE  RecordsMirrored' /\ (pc' # "clusters" => StoredMirrored')
  <2>1. Opened(sidecar' = "ok" \/ hdrRoot) /\ opens < MaxOpens /\ disk' = disk
    BY <1>8 DEF CrashAndOpen
  <2>2. pc # "clusters"
    BY <1>2, <1>8 DEF CrashAndOpen, If
  <2> QED
    BY <1>1, <2>1, <2>2, OpenMirrored
<1> QED
  BY <1>3, <1>4, <1>5, <1>6, <1>7, <1>8 DEF Next, AnyType

LEMMA NeighborsIsList ==
  ASSUME TypeOK, NEW k \in Keys
  PROVE  Neighbors(k) \in Seq(Nodes)
BY RecordsAreEdges, DstsIsNodes DEF Neighbors, TypeOK

\* An edge is in the outgoing list of its source exactly when it is in the
\* incoming list of its target, although two clusters on two pages hold it and
\* are flushed and read back one by one.
THEOREM DirectionsStayTogether == Spec => []DirectionsAgree
<1>1. MirrorInv => DirectionsAgree
  <2> SUFFICES ASSUME MirrorInv, Whole, NEW a \in Nodes, NEW b \in Nodes
               PROVE  Contains(Neighbors(Out(a)), b) <=> Contains(Neighbors(In(b)), a)
    BY DEF DirectionsAgree, Whole, Out, In
  <2>1. KeptInv /\ Clean /\ TypeOK /\ Out(a) \in Keys /\ In(b) \in Keys /\ RecordsMirrored
    BY KeysOfNodes DEF MirrorInv, KeptInv, StoreInv, Whole, Clean, Without
  <2>2. /\ Contains(Neighbors(Out(a)), b) <=> b \in DstsIn(Records(Out(a)))
        /\ Contains(Neighbors(In(b)), a) <=> a \in DstsIn(Records(In(b)))
    BY <2>1, NeighborsIsList, NeighborsAreRecords, ContainsIsMember
  <2> QED
    BY <2>1, <2>2 DEF RecordsMirrored
<1> QED
  BY <1>1, MirrorInit, MirrorStep, PTL DEF Spec

-----------------------------------------------------------------------------
(* Order and types *)

Unbroken == Without({"relisted", "spilled", "crashed"})
OrderKept(k) ==
  Without({"repeated"}) => /\ lists[k] = Dsts(Records(k))
                           /\ cache[k] # Absent => cache[k] = lists[k]
TypesKept(k) ==
  Without({"cleared"}) =>
    \A d \in Nodes : /\ given[<<k, d>>] = LastType(Records(k), d)
                     /\ cache[k] # Absent => types[<<k, d>>] = given[<<k, d>>]

OrderInv == KeptInv /\ (Unbroken => \A k \in Keys : OrderKept(k) /\ TypesKept(k))

LEMMA AppendedDsts ==
  ASSUME NEW edges \in Seq(Edge), NEW e \in Edge
  PROVE  Dsts(Append(edges, e)) = Append(Dsts(edges), e.dst)
<1> DEFINE n == Len(edges)
           r == Append(edges, e)
           x == Dsts(r)
           y == Append(Dsts(edges), e.dst)
<1>1. n \in Nat /\ Len(r) = n + 1 /\ r[n + 1] = e /\ (\A i \in 1..n : r[i] = edges[i]) /\ r \in Seq(Edge)
  OBVIOUS
<1>2. e.dst \in Nodes
  BY DEF Edge
<1>3. /\ Dsts(edges) \in Seq(Nodes) /\ Len(Dsts(edges)) = n
      /\ \A i \in 1..n : Dsts(edges)[i] = edges[i].dst
  BY DstsIsNodes
<1>4. y \in Seq(Nodes) /\ Len(y) = n + 1 /\ y[n + 1] = e.dst /\ \A i \in 1..n : y[i] = edges[i].dst
  BY <1>1, <1>2, <1>3
<1> HIDE DEF n, r, y
<1>5. x \in Seq(Nodes) /\ Len(x) = n + 1 /\ \A i \in 1..(n + 1) : x[i] = r[i].dst
  BY <1>1, DstsIsNodes
<1> HIDE DEF x
<1>6. \A i \in 1..(n + 1) : x[i] = y[i]
  <2>1. \A i \in 1..(n + 1) : i \in 1..n \/ i = n + 1
    BY <1>1
  <2> QED
    BY <1>1, <1>4, <1>5, <2>1
<1>7. x = y
  BY <1>4, <1>5, <1>6
<1> QED
  BY <1>7 DEF x, y, r

LEMMA NoTypes == \A d : Typed(<<>>, d) = {} /\ LastType(<<>>, d) = NoType
<1>1. \A d : Typed(<<>>, d) = {}
  BY DEF Typed
<1> QED
  BY <1>1 DEF LastType

LEMMA AppendedType ==
  ASSUME NEW edges \in Seq(Edge), NEW e \in Edge, NEW d \in Nodes
  PROVE  LastType(Append(edges, e), d) =
           IF e.dst = d /\ e.type # NoType THEN e.type ELSE LastType(edges, d)
<1> DEFINE n == Len(edges)
           r == Append(edges, e)
<1>1. n \in Nat /\ Len(r) = n + 1 /\ r[n + 1] = e /\ \A i \in 1..n : r[i] = edges[i]
  OBVIOUS
<1> HIDE DEF n, r
<1>2. \A i \in 1..(n + 1) : i \in 1..n \/ i = n + 1
  BY <1>1
<1>3. n + 1 \in 1..(n + 1) /\ \A i \in 1..n : i \in 1..(n + 1) /\ i <= n + 1 /\ i # n + 1
  BY <1>1
<1>4. Typed(edges, d) = {i \in 1..n : edges[i].dst = d /\ edges[i].type # NoType}
  BY DEF Typed, n
<1>5. Typed(r, d) = {i \in 1..(n + 1) : r[i].dst = d /\ r[i].type # NoType}
  BY <1>1 DEF Typed
<1>6. CASE e.dst = d /\ e.type # NoType
  <2> DEFINE i == CHOOSE i \in Typed(r, d) : \A j \in Typed(r, d) : j <= i
  <2>1. n + 1 \in Typed(r, d)
    BY <1>1, <1>3, <1>5, <1>6
  <2>2. \A j \in Typed(r, d) : j \in 1..(n + 1)
    BY <1>5
  <2>3. \A j \in Typed(r, d) : j <= n + 1
    BY <1>1, <2>2
  <2>4. i \in Typed(r, d) /\ \A j \in Typed(r, d) : j <= i
    BY <2>1, <2>3
  <2>5. LastType(r, d) = r[i].type
    BY <2>1 DEF LastType
  <2> HIDE DEF i
  <2>6. i = n + 1
    BY <1>1, <2>1, <2>2, <2>4
  <2> QED
    BY <1>1, <1>6, <2>5, <2>6 DEF r
<1>7. CASE ~(e.dst = d /\ e.type # NoType)
  <2>1. Typed(r, d) = Typed(edges, d)
    BY <1>1, <1>2, <1>3, <1>4, <1>5, <1>7
  <2>2. CASE Typed(edges, d) = {}
    BY <1>7, <2>1, <2>2 DEF LastType, r
  <2>3. CASE Typed(edges, d) # {}
    <3> DEFINE i == CHOOSE i \in Typed(edges, d) : \A j \in Typed(edges, d) : j <= i
    <3>1. i \in Typed(edges, d)
      BY <2>3, LastTyped
    <3>2. LastType(edges, d) = edges[i].type /\ LastType(r, d) = r[i].type
      BY <2>1, <2>3 DEF LastType
    <3> HIDE DEF i
    <3>3. i \in 1..n
      BY <1>4, <3>1
    <3>4. r[i] = edges[i]
      BY <1>1, <3>3
    <3> QED
      BY <1>7, <3>2, <3>4 DEF r
  <2> QED
    BY <2>2, <2>3
<1> QED
  BY <1>6, <1>7

LEMMA OrderInit == Init => OrderInv
<1> SUFFICES ASSUME Init
             PROVE  \A k \in Keys : OrderKept(k) /\ TypesKept(k)
  BY KeptInit DEF OrderInv
<1> TAKE k \in Keys
<1>1. cache[k] = Absent /\ dirty[k] = Absent /\ index[k] = 0 /\ lists[k] = <<>>
  BY DEF Init, Nothing
<1>2. \A d \in Nodes : given[<<k, d>>] = NoType
  BY DEF Init, Untyped
<1>3. Records(k) = <<>>
  BY <1>1 DEF Records, Stored
<1>4. Dsts(<<>>) = <<>>
  BY DEF Dsts
<1> QED
  BY <1>1, <1>2, <1>3, <1>4, NoTypes DEF OrderKept, TypesKept

LEMMA OrderLoad ==
  ASSUME StoreInv, \A k \in Keys : OrderKept(k) /\ TypesKept(k),
         NEW j \in Keys, Load(j), NEW k \in Keys
  PROVE  OrderKept(k)' /\ TypesKept(k)'
<1>1. UNCHANGED <<dirty, index, disk, lists, given, events>> /\ cache[j] = Absent
  BY DEF Load
<1>2. Records(k)' = Records(k)
  BY <1>1, QuietRecords
<1>3. /\ cache'[j] = Dsts(Stored(j)) /\ \A i \in Keys \ {j} : cache'[i] = cache[i]
      /\ \A d \in Nodes : types'[<<j, d>>] = LoadedType(j, d)
      /\ \A i \in Keys \ {j}, d \in Nodes : types'[<<i, d>>] = types[<<i, d>>]
  BY LoadEffect DEF StoreInv
<1>4. CASE k = j
  <2>1. Stored(j) = Records(j)
    BY <1>1, NotCachedNotDirty
  <2>2. \A d \in Nodes : types[<<j, d>>] = NoType
    BY <1>1 DEF StoreInv, FlushState
  <2>3. \A d \in Nodes : types'[<<j, d>>] = LastType(Records(j), d)
    <3>1. \A d \in Nodes : Typed(Records(j), d) = {} => LastType(Records(j), d) = NoType
      BY DEF LastType
    <3> QED
      BY <1>3, <2>1, <2>2, <3>1, LoadedTypeIs DEF StoreInv
  <2> QED
    BY <1>1, <1>2, <1>3, <1>4, <2>1, <2>3 DEF OrderKept, TypesKept, Without
<1>5. CASE k # j
  BY <1>1, <1>2, <1>3, <1>5 DEF OrderKept, TypesKept, Without
<1> QED
  BY <1>4, <1>5

LEMMA OrderAdded ==
  ASSUME StoreInv, UNCHANGED <<index, disk>>, events \subseteq events',
         NEW k \in Keys, OrderKept(k), TypesKept(k), NEW d \in Nodes,
         NEW t \in AnyType, NEW p \in Pages, Added(k, d, t, p), "relisted" \notin events'
  PROVE  OrderKept(k)' /\ TypesKept(k)'
<1> DEFINE e == [dst |-> d, type |-> t]
<1>1. /\ Records(k)' = Append(Records(k), e) /\ e \in Edge
      /\ dirty[k] = Absent => Records(k) = <<>>
  BY AddedRecords
<1>2. e.dst = d /\ e.type = t
  OBVIOUS
<1> HIDE DEF e
<1>3. /\ cache[k] \in Seq(Nodes) \cup {Absent} /\ cache'[k] = Listed(cache[k], d)
      /\ lists[k] \in Seq(Nodes) /\ lists'[k] = Listed(lists[k], d) /\ lists[k] # Absent
      /\ cache'[k] # Absent
  <2>1. /\ cache[k] \in Seq(Nodes) \cup {Absent} /\ cache'[k] = Listed(cache[k], d)
        /\ lists[k] \in Seq(Nodes) /\ lists'[k] = Listed(lists[k], d) /\ lists[k] # Absent
    BY AbsentAssumption DEF StoreInv, TypeOK, Added
  <2> QED
    BY <2>1, ListedIsList
<1>4. Dsts(Records(k)') = Append(Dsts(Records(k)), d)
  BY <1>1, <1>2, RecordsAreEdges, AppendedDsts DEF StoreInv
<1>5. InsertEvents(k, d, t) \subseteq events'
  BY DEF Added
<1>6. ASSUME Without({"repeated"})'
      PROVE  lists'[k] = Dsts(Records(k)') /\ cache'[k] = lists'[k]
  <2>1. lists[k] = Dsts(Records(k)) /\ (cache[k] # Absent => cache[k] = lists[k])
    BY <1>6 DEF OrderKept, Without
  <2>2. ~Contains(lists[k], d)
    BY <1>5, <1>6 DEF Without, InsertEvents, If
  <2>3. lists'[k] = Append(lists[k], d)
    BY <1>3, <2>2, ListedIsList
  <2>4. CASE cache[k] # Absent
    BY <1>3, <1>4, <2>1, <2>3, <2>4
  <2>5. CASE cache[k] = Absent
    <3>1. Records(k) = <<>>
      BY <1>1, <2>5, NotCachedNotDirty
    <3>2. lists[k] = <<>>
      BY <2>1, <3>1 DEF Dsts
    <3>3. Append(<<>>, d) = <<d>>
      OBVIOUS
    <3> QED
      BY <1>3, <1>4, <2>1, <2>3, <2>5, <3>2, <3>3, ListedIsList
  <2> QED
    BY <2>4, <2>5
<1>7. ASSUME Without({"cleared"})', NEW x \in Nodes
      PROVE  given'[<<k, x>>] = LastType(Records(k)', x) /\ types'[<<k, x>>] = given'[<<k, x>>]
  <2>1. \A y \in Nodes : /\ given[<<k, y>>] = LastType(Records(k), y)
                         /\ cache[k] # Absent => types[<<k, y>>] = given[<<k, y>>]
    BY <1>7 DEF TypesKept, Without
  <2>2. LastType(Records(k)', x) = IF d = x /\ t # NoType THEN t ELSE LastType(Records(k), x)
    BY <1>1, <1>2, RecordsAreEdges, AppendedType DEF StoreInv
  <2>3. CASE x = d
    <3>1. given'[<<k, d>>] = t /\ types'[<<k, d>>] = t
      BY DEF Added
    <3>2. t = NoType => given[<<k, d>>] = NoType
      BY <1>5, <1>7 DEF Without, InsertEvents, If
    <3> QED
      BY <2>1, <2>2, <2>3, <3>1, <3>2
  <2>4. CASE x # d
    <3>1. given'[<<k, x>>] = given[<<k, x>>] /\ types'[<<k, x>>] = types[<<k, x>>]
      BY <2>4 DEF Added
    <3>2. types[<<k, x>>] = given[<<k, x>>]
      <4>1. CASE cache[k] # Absent
        BY <2>1, <4>1
      <4>2. CASE cache[k] = Absent
        <5>1. Records(k) = <<>>
          BY <1>1, <4>2, NotCachedNotDirty
        <5>2. types[<<k, x>>] = NoType
          BY <4>2 DEF StoreInv, FlushState
        <5> QED
          BY <2>1, <5>1, <5>2, NoTypes
      <4> QED
        BY <4>1, <4>2
    <3> QED
      BY <2>1, <2>2, <2>4, <3>1, <3>2
  <2> QED
    BY <2>3, <2>4
<1> QED
  BY <1>6, <1>7 DEF OrderKept, TypesKept

LEMMA OrderStep == OrderInv /\ [Next]_vars => OrderInv'
<1> SUFFICES ASSUME OrderInv, [Next]_vars, Unbroken', NEW k \in Keys
             PROVE  OrderKept(k)' /\ TypesKept(k)'
  BY KeptStep DEF OrderInv
<1>1. /\ StoreInv /\ TypeOK /\ events \subseteq events'
      /\ \A j \in Keys : Fresh(j) /\ OrderKept(j) /\ TypesKept(j)
  <2>1. Unbroken /\ Clean /\ events \subseteq events'
    BY EventsStay DEF Unbroken, Clean, Without
  <2> QED
    BY <2>1 DEF OrderInv, KeptInv, StoreInv
<1>2. "relisted" \notin events' /\ "spilled" \notin events' /\ "crashed" \notin events'
  BY DEF Unbroken, Without
<1>3. ASSUME Records(k)' = Records(k), lists'[k] = lists[k],
             \A d \in Nodes : given'[<<k, d>>] = given[<<k, d>>],
             \/ cache'[k] = Absent
             \/ cache'[k] = cache[k] /\ \A d \in Nodes : types'[<<k, d>>] = types[<<k, d>>]
      PROVE  OrderKept(k)' /\ TypesKept(k)'
  <2>1. OrderKept(k) /\ TypesKept(k)
    BY <1>1
  <2>2. OrderKept(k)'
    BY <1>1, <1>3, <2>1 DEF OrderKept, Without
  <2>3. TypesKept(k)'
    BY <1>1, <1>3, <2>1 DEF TypesKept, Without
  <2> QED
    BY <2>2, <2>3
<1>4. ASSUME NEW j \in Keys, Load(j)
      PROVE  OrderKept(k)' /\ TypesKept(k)'
  BY <1>1, <1>4, OrderLoad
<1>5. ASSUME NEW j \in Keys, WriteCluster(j)
      PROVE  OrderKept(k)' /\ TypesKept(k)'
  <2>1. Records(k)' = Records(k)
    BY <1>1, <1>2, <1>5, WriteRecords
  <2>2. UNCHANGED <<lists, given, cache, types>>
    BY <1>5 DEF WriteCluster
  <2> QED
    BY <1>3, <2>1, <2>2
<1>6. ASSUME NEW a \in Nodes, NEW b \in Nodes, NEW t \in AnyType, Insert(a, b, t)
      PROVE  OrderKept(k)' /\ TypesKept(k)'
  <2> DEFINE q == nextPage + Room(Out(a))
  <2>1. /\ Added(Out(a), b, t, nextPage) /\ Added(In(b), a, t, q)
        /\ \A j \in Keys \ {Out(a), In(b)} : Same(j)
    BY <1>1, <1>6, InsertEffect DEF Out, In
  <2>2. nextPage \in Pages /\ q \in Pages
    BY <1>1, <1>6, PagesForInsert DEF Out
  <2>3. UNCHANGED <<index, disk>>
    BY <1>6 DEF Insert
  <2> HIDE DEF q
  <2>4. CASE k = Out(a)
    BY <1>1, <1>2, <2>1, <2>2, <2>3, <2>4, OrderAdded
  <2>5. CASE k = In(b)
    BY <1>1, <1>2, <2>1, <2>2, <2>3, <2>5, OrderAdded
  <2>6. CASE k \notin {Out(a), In(b)}
    <3>1. Same(k)
      BY <2>1, <2>6
    <3>2. Records(k)' = Records(k)
      BY <2>3, <3>1 DEF Same, Records, Stored
    <3> QED
      BY <1>3, <3>1, <3>2 DEF Same
  <2> QED
    BY <2>4, <2>5, <2>6
<1>7. ASSUME FlushStart \/ WriteSidecar \/ SyncHeader \/ UNCHANGED vars
      PROVE  OrderKept(k)' /\ TypesKept(k)'
  <2>1. UNCHANGED <<dirty, index, disk, lists, given, cache, types>>
    BY <1>7 DEF FlushStart, WriteSidecar, SyncHeader, vars
  <2> QED
    BY <1>3, <2>1, QuietRecords
<1>8. ASSUME CloseAndOpen
      PROVE  OrderKept(k)' /\ TypesKept(k)'
  <2> DEFINE rooted == sidecar = "ok" \/ hdrRoot
  <2>1. /\ Opened(rooted) /\ opens < MaxOpens /\ pc = "idle" /\ \A j \in Keys : dirty[j] = Absent
        /\ UNCHANGED <<disk, lists, given>>
    BY <1>8 DEF CloseAndOpen
  <2>2. ~rooted => index[k] = 0
    BY <1>1, <2>1 DEF StoreInv, FlushState, HasRoot
  <2> HIDE DEF rooted
  <2>3. Records(k)' = Stored(k)' /\ cache'[k] = Absent /\ Stored(k)' = IF rooted THEN Stored(k) ELSE <<>>
    BY <1>1, <2>1, OpenRecords
  <2>4. Records(k)' = Records(k)
    BY <2>1, <2>2, <2>3 DEF Stored, Records
  <2> QED
    BY <1>3, <2>1, <2>3, <2>4
<1>9. ~CrashAndOpen
  BY <1>2 DEF CrashAndOpen
<1> QED
  BY <1>4, <1>5, <1>6, <1>7, <1>8, <1>9 DEF Next, AnyType

\* Closing and opening the store does not change a neighbour list, not even its
\* order, and loading a list brings back the type each edge was last given.
THEOREM OpeningKeepsLists == Spec => []SameListsAfterOpen
<1>1. OrderInv => SameListsAfterOpen
  <2> SUFFICES ASSUME OrderInv, Unbroken
               PROVE  /\ Without({"repeated"}) => \A k \in Keys : Neighbors(k) = lists[k]
                      /\ Without({"cleared"}) =>
                           \A k \in Keys, d \in Nodes :
                             cache[k] # Absent => types[<<k, d>>] = given[<<k, d>>]
    BY DEF SameListsAfterOpen, Unbroken
  <2>1. StoreInv /\ \A k \in Keys : OrderKept(k) /\ TypesKept(k)
    BY DEF OrderInv, KeptInv
  <2>2. ASSUME Without({"repeated"}), NEW k \in Keys
        PROVE  Neighbors(k) = lists[k]
    <3>1. cache[k] = Absent => Stored(k) = Records(k)
      BY <2>1, NotCachedNotDirty
    <3> QED
      BY <2>1, <2>2, <3>1 DEF OrderKept, Neighbors
  <2>3. Without({"cleared"}) => \A k \in Keys, d \in Nodes :
                                  cache[k] # Absent => types[<<k, d>>] = given[<<k, d>>]
    BY <2>1 DEF TypesKept
  <2> QED
    BY <2>2, <2>3
<1> QED
  BY <1>1, OrderInit, OrderStep, PTL DEF Spec
=============================================================================
