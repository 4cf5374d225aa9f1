--------------------------- MODULE NodeStore_proofs ---------------------------
(***************************************************************************)
(* Theorems about NodeStore, for any number of ids, pages, records in a    *)
(* page and openings: types, and what readers and the file have of a node. *)
(***************************************************************************)
EXTENDS NodeStore, WellFoundedInduction, FiniteSetTheorems, TLAPS

\* A non-empty set of naturals has a least element.
LEMMA LeastNatural ==
  ASSUME NEW T, T \subseteq Nat, T # {}
  PROVE  \E x \in T : \A y \in T : x <= y
<1> DEFINE LT == OpToRel(<, Nat)
<1>1. \A x, y \in Nat : y < x => <<y, x>> \in LT
  BY DEF OpToRel
<1>2. IsWellFoundedOn(LT, Nat)
  BY NatLessThanWellFounded
<1> HIDE DEF LT
<1>3. PICK x \in T : \A y \in T : ~(<<y, x>> \in LT)
  BY <1>2, WFMin, Zenon
<1>4. \A y \in T : ~(y < x)
  BY <1>1, <1>3, Zenon
<1> QED
  BY <1>4

-----------------------------------------------------------------------------
(* Pages and records *)

\* A page is a sequence of at most PageCap records.
LEMMA PagesAreSequences ==
  /\ \A page \in PageContents : page \in Seq(Record) /\ Len(page) <= PageCap
  /\ \A page \in Seq(Record) : Len(page) <= PageCap => page \in PageContents
<1>1. ASSUME NEW page \in PageContents
      PROVE  page \in Seq(Record) /\ Len(page) <= PageCap
  <2>1. PICK n \in 0..PageCap : page \in [1..n -> Record]
    BY DEF PageContents
  <2>2. n \in Nat /\ n <= PageCap
    BY NodeAssumption
  <2> QED
    BY <2>1, <2>2
<1>2. ASSUME NEW page \in Seq(Record), Len(page) <= PageCap
      PROVE  page \in PageContents
  <2>1. Len(page) \in 0..PageCap /\ page \in [1..Len(page) -> Record]
    BY <1>2, NodeAssumption
  <2> QED
    BY <2>1 DEF PageContents
<1> QED
  BY <1>1, <1>2

LEMMA EmptyPage == <<>> \in PageContents /\ <<>> # Absent
<1>1. <<>> \in Seq(Record) /\ Len(<<>>) <= PageCap
  BY NodeAssumption
<1> QED
  BY <1>1, PagesAreSequences, PageAssumption

\* The first record of an id that a page has.
LEMMA FirstHit ==
  ASSUME NEW page \in PageContents, NEW id, Hits(page, id) # {}
  PROVE  /\ First(page, id) \in Hits(page, id)
         /\ \A j \in Hits(page, id) : First(page, id) <= j
         /\ First(page, id) \in 1..Len(page)
<1>1. Hits(page, id) \subseteq 1..Len(page) /\ DOMAIN page = 1..Len(page) /\ Len(page) \in Nat
  BY PagesAreSequences DEF Hits
<1>2. \E i \in Hits(page, id) : \A j \in Hits(page, id) : i <= j
  BY <1>1, LeastNatural
<1> QED
  BY <1>1, <1>2 DEF First

LEMMA FindType ==
  ASSUME NEW page \in PageContents, NEW id
  PROVE  /\ Find(page, id) \in Payloads \cup {Absent}
         /\ Find(page, id) # Absent <=> Hits(page, id) # {}
<1>1. CASE Hits(page, id) = {}
  BY <1>1 DEF Find
<1>2. CASE Hits(page, id) # {}
  <2>1. page[First(page, id)] \in Record
    BY <1>2, FirstHit, PagesAreSequences
  <2> QED
    BY <1>2, <2>1, NodeAssumption DEF Find, Record
<1> QED
  BY <1>1, <1>2

\* A record at the end of a page is found if there is none before it, and every
\* other id is found as before.
LEMMA FindAppended ==
  ASSUME NEW page \in PageContents, Len(page) < PageCap, NEW rec \in Record
  PROVE  /\ Append(page, rec) \in PageContents
         /\ Append(page, rec) # Absent
         /\ \A id \in Ids : Find(Append(page, rec), id) =
              IF Find(page, id) # Absent \/ id # rec.id THEN Find(page, id) ELSE rec.val
<1> DEFINE longer == Append(page, rec)
<1>1. page \in Seq(Record) /\ Len(page) \in Nat
  BY PagesAreSequences
<1>2. /\ longer \in Seq(Record)
      /\ Len(longer) = Len(page) + 1
      /\ \A i \in 1..Len(page) : longer[i] = page[i]
      /\ longer[Len(page) + 1] = rec
      /\ DOMAIN page = 1..Len(page)
      /\ DOMAIN longer = 1..(Len(page) + 1)
  BY <1>1
<1> HIDE DEF longer
<1>3. longer \in PageContents /\ longer # Absent
  BY <1>1, <1>2, PagesAreSequences, PageAssumption, NodeAssumption
<1>4. ASSUME NEW id \in Ids
      PROVE  Find(longer, id) =
               IF Find(page, id) # Absent \/ id # rec.id THEN Find(page, id) ELSE rec.val
  <2>1. Hits(longer, id) = Hits(page, id) \cup (IF rec.id = id THEN {Len(page) + 1} ELSE {})
    BY <1>1, <1>2 DEF Hits
  <2>2. CASE Hits(page, id) # {}
    <3>1. /\ First(page, id) \in Hits(longer, id)
          /\ First(page, id) \in 1..Len(page)
          /\ \A j \in Hits(longer, id) : First(page, id) <= j
      BY <1>1, <2>1, <2>2, FirstHit
    <3>2. /\ First(longer, id) \in Hits(longer, id)
          /\ First(longer, id) \in 1..Len(longer)
          /\ \A j \in Hits(longer, id) : First(longer, id) <= j
      BY <1>3, <3>1, FirstHit
    <3>3. First(longer, id) = First(page, id)
      BY <1>1, <1>2, <3>1, <3>2
    <3> QED
      BY <1>2, <2>2, <3>1, <3>3, FindType DEF Find
  <2>3. CASE Hits(page, id) = {} /\ id # rec.id
    BY <2>1, <2>3 DEF Find
  <2>4. CASE Hits(page, id) = {} /\ id = rec.id
    <3>1. Hits(longer, id) = {Len(page) + 1}
      BY <2>1, <2>4
    <3>2. First(longer, id) = Len(page) + 1
      BY <1>3, <3>1, FirstHit
    <3> QED
      BY <1>2, <2>4, <3>1, <3>2, FindType DEF Find
  <2> QED
    BY <2>2, <2>3, <2>4
<1> QED
  BY <1>3, <1>4 DEF longer

\* Replacing the record of an id changes what is found of it and of no other.
LEMMA FindReplaced ==
  ASSUME NEW page \in PageContents, NEW id \in Ids, Find(page, id) # Absent,
         NEW v \in Payloads
  PROVE  /\ Replaced(page, id, v) \in PageContents
         /\ Replaced(page, id, v) # Absent
         /\ \A j \in Ids : Find(Replaced(page, id, v), j) =
              IF j = id THEN v ELSE Find(page, j)
<1> DEFINE i == First(page, id)
           new == Replaced(page, id, v)
<1>1. page \in Seq(Record) /\ Len(page) <= PageCap
  BY PagesAreSequences
<1>2. i \in Hits(page, id) /\ i \in 1..Len(page)
  BY FindType, FirstHit
<1>3. page[i] \in Record /\ page[i].id = id
  BY <1>1, <1>2 DEF Hits
<1>4. [page[i] EXCEPT !.val = v] \in Record /\ [page[i] EXCEPT !.val = v].id = id
      /\ [page[i] EXCEPT !.val = v].val = v
  BY <1>3 DEF Record
<1>5. new = [page EXCEPT ![i] = [page[i] EXCEPT !.val = v]]
  BY DEF Replaced
<1>6. /\ new \in Seq(Record) /\ Len(new) = Len(page)
      /\ new[i] \in Record /\ new[i].id = id /\ new[i].val = v
      /\ \A j \in 1..Len(page) : j # i => new[j] = page[j]
      /\ DOMAIN new = DOMAIN page /\ DOMAIN page = 1..Len(page)
  BY <1>1, <1>2, <1>4, <1>5
<1>7. new \in PageContents
  BY <1>1, <1>6, PagesAreSequences
<1> HIDE DEF i, new
<1>8. ASSUME NEW j \in Ids
      PROVE  Find(new, j) = IF j = id THEN v ELSE Find(page, j)
  <2>1. Hits(new, j) = Hits(page, j)
    BY <1>3, <1>6 DEF Hits
  <2>2. First(new, j) = First(page, j)
    BY <2>1 DEF First
  <2>3. CASE j = id
    BY <1>2, <1>6, <2>1, <2>2, <2>3 DEF Find, i
  <2>4. CASE j # id /\ Hits(page, j) # {}
    <3>1. First(page, j) \in Hits(page, j) /\ First(page, j) \in 1..Len(page)
      BY <2>4, FirstHit
    <3>2. First(page, j) # i
      BY <1>3, <2>4, <3>1 DEF Hits
    <3> QED
      BY <1>6, <2>1, <2>2, <2>4, <3>1, <3>2 DEF Find
  <2>5. CASE j # id /\ Hits(page, j) = {}
    BY <2>1, <2>5 DEF Find
  <2> QED
    BY <2>3, <2>4, <2>5
<1> QED
  BY <1>7, <1>8, PageAssumption DEF new

-----------------------------------------------------------------------------
(* Types *)

\* No page is cached that the file does not have.
CachedOnDisk == \A p \in Pages : cache[p] # Absent => disk[p] # Absent

NodeTypes == TypeOK /\ CachedOnDisk

Contents == PageContents \cup {Absent}

LEMMA NothingType ==
  /\ None(Pages) \in [Pages -> Contents]
  /\ None(Ids) \in [Ids -> Payloads \cup {Absent}]
BY DEF None, Contents

\* Putting a page into page_cache and evicting one.
LEMMA CachedWithEffect ==
  ASSUME cache \in [Pages -> Contents], NEW p \in Pages, NEW page \in PageContents,
         NEW c \in CachedWith(p, page)
  PROVE  /\ c \in [Pages -> Contents]
         /\ \A q \in Pages : c[q] \in {Absent, IF q = p THEN page ELSE cache[q]}
<1> DEFINE put == [cache EXCEPT ![p] = page]
<1>1. Cached \cup {p} \subseteq Pages
  BY DEF Cached
<1>2. c = put \/ \E q \in Pages : c = [put EXCEPT ![q] = Absent]
  BY <1>1 DEF CachedWith
<1>3. put \in [Pages -> Contents]
  BY DEF Contents
<1>4. CASE c = put
  BY <1>3, <1>4
<1>5. ASSUME NEW q \in Pages, c = [put EXCEPT ![q] = Absent]
      PROVE  /\ c \in [Pages -> Contents]
             /\ \A r \in Pages : c[r] \in {Absent, IF r = p THEN page ELSE cache[r]}
  BY <1>3, <1>5 DEF Contents
<1> QED
  BY <1>2, <1>4, <1>5

\* load_node_page of a page that the file has.
LEMMA LoadedType ==
  ASSUME NodeTypes, NEW p \in Pages
  PROVE  /\ disk[p] # Absent => Loaded(p) \in PageContents
         /\ dirty[p] # Absent \/ cache[p] # Absent => disk[p] # Absent
BY DEF NodeTypes, TypeOK, CachedOnDisk, Loaded

LEMMA LoadingEffect ==
  ASSUME NodeTypes, NEW p \in Pages, disk[p] # Absent, NEW c \in CachedByLoading(p)
  PROVE  /\ c \in [Pages -> Contents]
         /\ \A q \in Pages : c[q] \in {Absent, cache[q], IF q = p THEN disk[p] ELSE cache[q]}
         /\ dirty[p] # Absent => c = cache
<1>1. cache \in [Pages -> Contents] /\ disk[p] \in PageContents
  BY DEF NodeTypes, TypeOK, Contents
<1> QED
  BY <1>1, CachedWithEffect DEF CachedByLoading

\* What lookup_node finds is a record of the page the index names.
LEMMA LookupType ==
  ASSUME NodeTypes, NEW id \in Ids
  PROVE  /\ Lookup(id) \in Payloads \cup {Absent}
         /\ Durable(id) \in Payloads \cup {Absent}
         /\ index[id] # 0 => index[id] \in Pages /\ disk[index[id]] # Absent
<1>1. index[id] # 0 => index[id] \in Pages /\ disk[index[id]] # Absent
  BY DEF NodeTypes, TypeOK
<1>2. index[id] # 0 => disk[index[id]] \in PageContents /\ Loaded(index[id]) \in PageContents
  BY <1>1, LoadedType DEF NodeTypes, TypeOK
<1> QED
  BY <1>1, <1>2, FindType DEF Lookup, Durable

\* The page that receives a record, before and after.
LEMMA PlaceType ==
  ASSUME NodeTypes, NEW p \in Pages, NEW new \in BOOLEAN, Target(p, new)
  PROVE  /\ Before(p, new) \in PageContents
         /\ Len(Before(p, new)) < PageCap
         /\ ~new => disk[p] # Absent
         /\ total' = (IF new THEN p ELSE total) => total' \in Nat
BY LoadedType, EmptyPage DEF Target, Before, NodeTypes, TypeOK

\* What happens to file, staged pages and cache when a record is placed.
LEMMA PlaceEffect ==
  ASSUME NodeTypes, NEW p \in Pages, NEW new \in BOOLEAN, Target(p, new),
         NEW rec \in Record, Place(p, new, rec)
  PROVE  /\ disk' \in [Pages -> Contents]
         /\ dirty' \in [Pages -> Contents]
         /\ cache' \in [Pages -> Contents]
         /\ \A q \in Pages : disk[q] # Absent => disk'[q] # Absent
         /\ disk'[p] # Absent
         /\ \A q \in Pages : dirty'[q] # Absent => batch /\ disk'[q] # Absent
         /\ \A q \in Pages : cache'[q] # Absent => disk'[q] # Absent
         /\ total' \in Nat
<1> DEFINE page == Append(Before(p, new), rec)
<1>1. page \in PageContents /\ page # Absent
  BY PlaceType, FindAppended
<1> HIDE DEF page
<1>2. /\ disk' = IF ~batch THEN [disk EXCEPT ![p] = page]
                 ELSE IF new THEN [disk EXCEPT ![p] = <<>>] ELSE disk
      /\ dirty' = IF batch THEN [dirty EXCEPT ![p] = page] ELSE dirty
      /\ cache' \in CachedByPlacing(p, new, page)
      /\ total' = IF new THEN p ELSE total
  BY DEF Place, page
<1>3. /\ disk \in [Pages -> Contents] /\ dirty \in [Pages -> Contents]
      /\ cache \in [Pages -> Contents]
      /\ batch \in BOOLEAN
      /\ \A q \in Pages : dirty[q] # Absent => batch /\ disk[q] # Absent
      /\ \A q \in Pages : cache[q] # Absent => disk[q] # Absent
  BY DEF NodeTypes, TypeOK, Contents, CachedOnDisk
<1>4. /\ cache' \in [Pages -> Contents]
      /\ \A q \in Pages : q # p => cache'[q] \in {Absent, cache[q]}
  BY <1>1, <1>2, <1>3, EmptyPage, CachedWithEffect DEF CachedByPlacing
<1>5. /\ disk' \in [Pages -> Contents] /\ dirty' \in [Pages -> Contents]
      /\ disk'[p] # Absent
      /\ \A q \in Pages : disk[q] # Absent => disk'[q] # Absent
  BY <1>1, <1>2, <1>3, EmptyPage, PlaceType DEF Contents
<1>6. \A q \in Pages : dirty'[q] # Absent => batch /\ disk'[q] # Absent
  BY <1>1, <1>2, <1>3, <1>5
<1>7. \A q \in Pages : cache'[q] # Absent => disk'[q] # Absent
  BY <1>3, <1>4, <1>5
<1> QED
  BY <1>2, <1>4, <1>5, <1>6, <1>7, PlaceType

\* Noting an event leaves the history a set of events.
LEMMA EventType ==
  ASSUME NEW condition, NEW event \in Events
  PROVE  If(condition, event) \subseteq Events
BY DEF If

LEMMA TypeInit == Init => NodeTypes
<1> SUFFICES ASSUME Init PROVE NodeTypes
  OBVIOUS
<1>1. /\ disk \in [Pages -> Contents] /\ cache \in [Pages -> Contents]
      /\ dirty \in [Pages -> Contents]
      /\ nodeCache \in [Ids -> Payloads \cup {Absent}]
      /\ promised \in [Ids -> Payloads \cup {Absent}]
      /\ base \in [Ids -> Payloads \cup {Absent}]
      /\ \A p \in Pages : dirty[p] = Absent /\ cache[p] = Absent
  BY NothingType DEF Init, None
<1>2. nextId \in 1..(MaxId + 1)
  BY NodeAssumption DEF Init
<1>3. index \in [Ids -> {0} \cup {p \in Pages : disk[p] # Absent}]
  BY DEF Init
<1>4. /\ batch \in BOOLEAN /\ mixed \in BOOLEAN
      /\ guard \in {"none", "empty", "nodes", "edges"}
      /\ events \subseteq Events
      /\ count \in Nat /\ diskCount \in Nat /\ total \in Nat /\ diskTotal \in Nat
  BY DEF Init
<1> QED
  BY <1>1, <1>2, <1>3, <1>4 DEF NodeTypes, TypeOK, CachedOnDisk, Contents

LEMMA InsertTypes ==
  ASSUME NodeTypes, NEW p \in Pages, NEW new \in BOOLEAN, NEW v \in Payloads,
         InsertNode(p, new, v) \/ BatchInsertNode(p, new, v)
  PROVE  NodeTypes'
<1>1. InsertInner(p, new, v)
  BY DEF InsertNode, BatchInsertNode
<1>2. nextId \in Ids /\ nextId' \in 1..(MaxId + 1)
  BY <1>1, NodeAssumption DEF InsertInner, NodeTypes, TypeOK, Ids
<1> DEFINE rec == [id |-> nextId, val |-> v]
<1>3. rec \in Record /\ Target(p, new) /\ Place(p, new, rec)
  BY <1>1, <1>2 DEF InsertInner, Record
<1> HIDE DEF rec
<1>4. /\ disk' \in [Pages -> Contents]
      /\ dirty' \in [Pages -> Contents]
      /\ cache' \in [Pages -> Contents]
      /\ \A q \in Pages : disk[q] # Absent => disk'[q] # Absent
      /\ disk'[p] # Absent
      /\ \A q \in Pages : dirty'[q] # Absent => batch /\ disk'[q] # Absent
      /\ \A q \in Pages : cache'[q] # Absent => disk'[q] # Absent
      /\ total' \in Nat
  BY <1>3, PlaceEffect
<1>5. index' \in [Ids -> {0} \cup {q \in Pages : disk'[q] # Absent}]
  <2>1. index' = [index EXCEPT ![nextId] = p]
    BY <1>1 DEF InsertInner
  <2>2. \A i \in Ids : index[i] \in {0} \cup {q \in Pages : disk'[q] # Absent}
    BY <1>4 DEF NodeTypes, TypeOK
  <2> QED
    BY <1>2, <1>4, <2>1, <2>2 DEF NodeTypes, TypeOK
<1>6. events' \subseteq Events
  BY <1>1, EventType DEF InsertInner, NodeTypes, TypeOK, Events
<1>7. count' \in Nat /\ promised' \in [Ids -> Payloads \cup {Absent}]
  BY <1>1, <1>2 DEF InsertInner, NodeTypes, TypeOK
<1>8. CASE InsertNode(p, new, v)
  <2>1. /\ base' \in [Ids -> Payloads \cup {Absent}] /\ diskCount' \in Nat
        /\ mixed' \in BOOLEAN
    BY <1>2, <1>7, <1>8 DEF InsertNode, NodeTypes, TypeOK
  <2>2. UNCHANGED <<diskTotal, nodeCache, batch, guard, opens>>
    BY <1>8 DEF InsertNode
  <2> QED
    BY <1>2, <1>4, <1>5, <1>6, <1>7, <2>1, <2>2
    DEF NodeTypes, TypeOK, CachedOnDisk, Contents
<1>9. CASE BatchInsertNode(p, new, v)
  BY <1>2, <1>4, <1>5, <1>6, <1>7, <1>9
  DEF BatchInsertNode, NodeTypes, TypeOK, CachedOnDisk, Contents
<1> QED
  BY <1>8, <1>9

LEMMA FetchTypes ==
  ASSUME NodeTypes, NEW id \in Ids, Fetch(id)
  PROVE  /\ cache' \in [Pages -> Contents]
         /\ nodeCache' \in [Ids -> Payloads \cup {Absent}]
         /\ \A p \in Pages : cache'[p] # Absent => disk[p] # Absent
<1>1. CASE nodeCache[id] # Absent \/ index[id] = 0
  BY <1>1 DEF Fetch, NodeTypes, TypeOK, CachedOnDisk, Contents
<1>2. CASE ~(nodeCache[id] # Absent \/ index[id] = 0)
  <2> DEFINE p == index[id]
  <2>1. p \in Pages /\ disk[p] # Absent /\ Lookup(id) \in Payloads \cup {Absent}
    BY <1>2, LookupType
  <2>2. cache' \in CachedByLoading(p) /\ nodeCache' = [nodeCache EXCEPT ![id] = Lookup(id)]
    BY <1>2 DEF Fetch
  <2> HIDE DEF p
  <2> QED
    BY <2>1, <2>2, LoadingEffect DEF NodeTypes, TypeOK, CachedOnDisk
<1> QED
  BY <1>1, <1>2

LEMMA ReadTypes ==
  ASSUME NodeTypes, NEW id \in Ids, GetNode(id) \/ BatchInsertEdge(id)
  PROVE  NodeTypes'
<1>1. /\ Fetch(id) /\ UNCHANGED <<dirty, nextId, batch, count, total>>
      /\ UNCHANGED <<disk, index, diskCount, diskTotal>>
      /\ UNCHANGED <<promised, base, mixed, events, opens>>
  BY DEF GetNode, BatchInsertEdge, fileVars, histVars
<1>2. guard' \in {"none", "empty", "nodes", "edges"}
  BY DEF GetNode, BatchInsertEdge, NodeTypes, TypeOK
<1> QED
  BY <1>1, <1>2, FetchTypes DEF NodeTypes, TypeOK, CachedOnDisk, Contents

\* Writing a page that the file already has.
LEMMA WriteTypes ==
  ASSUME NodeTypes, NEW p \in Pages, disk[p] # Absent,
         NEW page \in PageContents, page # Absent,
         WritePage(p, page), cache' \in CachedWith(p, page)
  PROVE  /\ disk' \in [Pages -> Contents]
         /\ dirty' \in [Pages -> Contents]
         /\ cache' \in [Pages -> Contents]
         /\ \A q \in Pages : disk'[q] # Absent <=> disk[q] # Absent
         /\ \A q \in Pages : dirty'[q] # Absent => batch /\ disk'[q] # Absent
         /\ \A q \in Pages : cache'[q] # Absent => disk'[q] # Absent
<1>1. /\ disk \in [Pages -> Contents] /\ dirty \in [Pages -> Contents]
      /\ cache \in [Pages -> Contents]
      /\ \A q \in Pages : dirty[q] # Absent => batch /\ disk[q] # Absent
      /\ \A q \in Pages : cache[q] # Absent => disk[q] # Absent
  BY DEF NodeTypes, TypeOK, Contents, CachedOnDisk
<1>2. /\ cache' \in [Pages -> Contents]
      /\ \A q \in Pages : q # p => cache'[q] \in {Absent, cache[q]}
  BY <1>1, CachedWithEffect
<1>3. CASE batch
  BY <1>1, <1>2, <1>3 DEF WritePage, Contents
<1>4. CASE ~batch
  BY <1>1, <1>2, <1>4 DEF WritePage, Contents
<1> QED
  BY <1>3, <1>4

LEMMA UpdateTypes ==
  ASSUME NodeTypes, NEW id \in Ids, NEW v \in Payloads, UpdateNode(id, v)
  PROVE  NodeTypes'
<1> DEFINE p == index[id]
           page == Replaced(Loaded(p), id, v)
<1>1. Lookup(id) # Absent /\ index[id] # 0
  BY DEF UpdateNode, Lookup
<1>2. p \in Pages /\ disk[p] # Absent /\ Loaded(p) \in PageContents
  BY <1>1, LookupType, LoadedType
<1>3. page \in PageContents /\ page # Absent
  BY <1>1, <1>2, FindReplaced DEF Lookup
<1>4. WritePage(p, page) /\ cache' \in CachedWith(p, page)
  BY DEF UpdateNode
<1> HIDE DEF page, p
<1>5. /\ disk' \in [Pages -> Contents]
      /\ dirty' \in [Pages -> Contents]
      /\ cache' \in [Pages -> Contents]
      /\ \A q \in Pages : disk'[q] # Absent <=> disk[q] # Absent
      /\ \A q \in Pages : dirty'[q] # Absent => batch /\ disk'[q] # Absent
      /\ \A q \in Pages : cache'[q] # Absent => disk'[q] # Absent
  BY <1>2, <1>3, <1>4, WriteTypes
<1>6. /\ nodeCache' \in [Ids -> Payloads \cup {Absent}]
      /\ promised' \in [Ids -> Payloads \cup {Absent}]
      /\ base' \in [Ids -> Payloads \cup {Absent}]
      /\ mixed' \in BOOLEAN
      /\ {count', diskCount', total', diskTotal'} \subseteq Nat
  BY DEF UpdateNode, HeaderFlushed, NodeTypes, TypeOK
<1>7. UNCHANGED <<index, nextId, batch, guard, events>>
  BY DEF UpdateNode
<1>8. index' \in [Ids -> {0} \cup {q \in Pages : disk'[q] # Absent}]
  BY <1>5, <1>7 DEF NodeTypes, TypeOK
<1> QED
  BY <1>5, <1>6, <1>7, <1>8 DEF NodeTypes, TypeOK, CachedOnDisk, Contents

LEMMA DeleteTypes ==
  ASSUME NodeTypes, NEW id \in Ids, DeleteEntity(id)
  PROVE  NodeTypes'
<1> DEFINE p == index[id]
<1>1. /\ nodeCache' \in [Ids -> Payloads \cup {Absent}]
      /\ promised' \in [Ids -> Payloads \cup {Absent}]
      /\ base' \in [Ids -> Payloads \cup {Absent}]
      /\ {count', diskCount', total', diskTotal'} \subseteq Nat
      /\ events' \subseteq Events
  <2>1. nodeCache' = [nodeCache EXCEPT ![id] = Absent]
    BY DEF DeleteEntity
  <2>2. LessOne(count) \in Nat
    BY DEF LessOne, NodeTypes, TypeOK
  <2>3. /\ count' \in Nat /\ total' \in Nat /\ diskCount' = count' /\ diskTotal' = total'
    BY <2>2 DEF DeleteEntity, HeaderFlushed, NodeTypes, TypeOK
  <2>4. events' \subseteq Events
    BY EventType DEF DeleteEntity, NodeTypes, TypeOK, Events
  <2> QED
    BY <2>1, <2>3, <2>4 DEF DeleteEntity, NodeTypes, TypeOK
<1>2. UNCHANGED <<nextId, batch, guard, mixed>>
  BY DEF DeleteEntity
<1>3. CASE Lookup(id) # Absent
  <2>1. p \in Pages /\ disk[p] # Absent /\ Loaded(p) \in PageContents
    BY <1>3, LookupType, LoadedType DEF Lookup
  <2>2. Loaded(p) # Absent
    BY <2>1, PageAssumption
  <2>3. /\ WritePage(p, Loaded(p)) /\ cache' \in CachedWith(p, Loaded(p))
        /\ index' = [index EXCEPT ![id] = 0]
    BY <1>3 DEF DeleteEntity, DeleteRecord
  <2> HIDE DEF p
  <2>4. /\ disk' \in [Pages -> Contents]
        /\ dirty' \in [Pages -> Contents]
        /\ cache' \in [Pages -> Contents]
        /\ \A q \in Pages : disk'[q] # Absent <=> disk[q] # Absent
        /\ \A q \in Pages : dirty'[q] # Absent => batch /\ disk'[q] # Absent
        /\ \A q \in Pages : cache'[q] # Absent => disk'[q] # Absent
    BY <2>1, <2>2, <2>3, WriteTypes
  <2>5. index' \in [Ids -> {0} \cup {q \in Pages : disk'[q] # Absent}]
    BY <2>3, <2>4 DEF NodeTypes, TypeOK
  <2> QED
    BY <1>1, <1>2, <2>4, <2>5 DEF NodeTypes, TypeOK, CachedOnDisk, Contents
<1>4. CASE Lookup(id) = Absent
  <2>1. UNCHANGED <<disk, dirty, index>>
    BY <1>4 DEF DeleteEntity, DeleteRecord
  <2>2. /\ cache' \in [Pages -> Contents]
        /\ \A q \in Pages : cache'[q] # Absent => disk[q] # Absent
    <3>1. CASE index[id] = 0
      BY <1>4, <3>1 DEF DeleteEntity, DeleteRecord, NodeTypes, TypeOK, CachedOnDisk, Contents
    <3>2. CASE index[id] # 0
      <4>1. p \in Pages /\ disk[p] # Absent /\ cache' \in CachedByLoading(p)
        BY <1>4, <3>2, LookupType DEF DeleteEntity, DeleteRecord
      <4> HIDE DEF p
      <4> QED
        BY <4>1, LoadingEffect DEF NodeTypes, CachedOnDisk
    <3> QED
      BY <3>1, <3>2
  <2> QED
    BY <1>1, <1>2, <2>1, <2>2 DEF NodeTypes, TypeOK, CachedOnDisk, Contents
<1> QED
  BY <1>3, <1>4

\* The file after the staged pages of P were written.
LEMMA WrittenType ==
  ASSUME NodeTypes, NEW P \in SUBSET Staged
  PROVE  /\ Written(P) \in [Pages -> Contents]
         /\ \A p \in Pages : Written(P)[p] # Absent <=> disk[p] # Absent
<1>1. P \subseteq Pages /\ \A p \in P : dirty[p] # Absent /\ disk[p] # Absent
  BY DEF Staged, NodeTypes, TypeOK
<1> QED
  BY <1>1 DEF Written, NodeTypes, TypeOK, Contents

LEMMA BatchTypes ==
  ASSUME NodeTypes, BeginBatch \/ CommitBatch \/ RollBack
  PROVE  NodeTypes'
<1>1. CASE BeginBatch
  <2>1. /\ dirty' \in [Pages -> Contents] /\ \A p \in Pages : dirty'[p] = Absent
    BY <1>1, NothingType DEF BeginBatch, None
  <2>2. events' \subseteq Events
    BY <1>1, EventType DEF BeginBatch, NodeTypes, TypeOK, Events
  <2>3. /\ UNCHANGED <<cache, nodeCache, nextId, count, total, promised, base>>
        /\ UNCHANGED <<disk, index, diskCount, diskTotal>>
        /\ guard' = "empty" /\ batch' = TRUE /\ mixed' = FALSE
    BY <1>1 DEF BeginBatch, fileVars
  <2> QED
    BY <2>1, <2>2, <2>3 DEF NodeTypes, TypeOK, CachedOnDisk, Contents
<1>2. CASE CommitBatch
  <2>1. /\ UNCHANGED <<index, nodeCache, nextId, count, total, promised, events>>
        /\ guard' = "none" /\ {diskCount', diskTotal'} \subseteq Nat
    BY <1>2 DEF CommitBatch, NodeTypes, TypeOK
  <2>2. CASE guard = "nodes"
    <3>1. /\ disk' = Written(Staged) /\ cache' \in CachedByCommit
          /\ dirty' = None(Pages) /\ batch' = FALSE
          /\ base' = promised /\ mixed' = FALSE
      BY <1>2, <2>2 DEF CommitBatch
    <3>2. /\ disk' \in [Pages -> Contents]
          /\ \A p \in Pages : disk'[p] # Absent <=> disk[p] # Absent
      BY <3>1, WrittenType
    <3>3. /\ cache' \in [Pages -> Contents]
          /\ \A p \in Pages : cache'[p] # Absent => disk'[p] # Absent
      <4>1. \A p \in Pages : cache'[p] \in {Absent, IF p \in Staged THEN dirty[p] ELSE cache[p]}
        BY <3>1 DEF CachedByCommit
      <4>2. cache' \in [Pages -> {Absent} \cup {cache[p] : p \in Cached} \cup {dirty[p] : p \in Staged}]
        BY <3>1 DEF CachedByCommit
      <4>3. \A p \in Pages : cache[p] \in Contents /\ dirty[p] \in Contents
        BY DEF NodeTypes, TypeOK, Contents
      <4>4. \A p \in Pages : cache'[p] # Absent => disk[p] # Absent
        BY <4>1 DEF Staged, NodeTypes, TypeOK, CachedOnDisk
      <4>5. cache' \in [Pages -> Contents]
        BY <4>1, <4>2, <4>3 DEF Contents
      <4> QED
        BY <3>2, <4>4, <4>5
    <3>4. dirty' \in [Pages -> Contents] /\ \A p \in Pages : dirty'[p] = Absent
      BY <3>1, NothingType DEF None
    <3>5. index' \in [Ids -> {0} \cup {p \in Pages : disk'[p] # Absent}]
      BY <2>1, <3>2 DEF NodeTypes, TypeOK
    <3> QED
      BY <2>1, <3>1, <3>2, <3>3, <3>4, <3>5 DEF NodeTypes, TypeOK, CachedOnDisk, Contents
  <2>3. CASE guard # "nodes"
    <3>1. UNCHANGED <<disk, cache, dirty, batch, base, mixed>>
      BY <1>2, <2>3 DEF CommitBatch
    <3> QED
      BY <2>1, <3>1 DEF NodeTypes, TypeOK, CachedOnDisk, Contents
  <2> QED
    BY <2>2, <2>3
<1>3. CASE RollBack
  <2>1. /\ dirty' \in [Pages -> Contents] /\ \A p \in Pages : dirty'[p] = Absent
    BY <1>3, NothingType DEF RollBack, None
  <2>2. events' \subseteq Events
    BY <1>3, EventType DEF RollBack, NodeTypes, TypeOK, Events
  <2>3. /\ UNCHANGED <<cache, nodeCache, nextId, count, total, base>>
        /\ UNCHANGED <<disk, index, diskCount, diskTotal>>
        /\ guard' = "none" /\ batch' = FALSE /\ mixed' = FALSE /\ promised' = base
    BY <1>3 DEF RollBack, fileVars
  <2> QED
    BY <2>1, <2>2, <2>3 DEF NodeTypes, TypeOK, CachedOnDisk, Contents
<1> QED
  BY <1>1, <1>2, <1>3

LEMMA FlushTypes ==
  ASSUME NodeTypes, Flush
  PROVE  NodeTypes'
BY DEF Flush, memVars, histVars, NodeTypes, TypeOK, CachedOnDisk

\* What is left when the database is opened, given a file and an index into it.
LEMMA OpenedTypes ==
  ASSUME NodeTypes, Opened,
         disk' \in [Pages -> Contents],
         index' \in [Ids -> {0} \cup {p \in Pages : disk'[p] # Absent}],
         diskCount' \in Nat, diskTotal' \in Nat,
         promised' \in [Ids -> Payloads \cup {Absent}],
         base' \in [Ids -> Payloads \cup {Absent}],
         events' \subseteq Events
  PROVE  NodeTypes'
<1>1. /\ cache' \in [Pages -> Contents] /\ dirty' \in [Pages -> Contents]
      /\ \A p \in Pages : cache'[p] = Absent /\ dirty'[p] = Absent
      /\ nodeCache' \in [Ids -> Payloads \cup {Absent}]
  BY NothingType DEF Opened, None
<1>2. nextId' \in 1..(MaxId + 1)
  BY NodeAssumption DEF Opened
<1>3. /\ batch' \in BOOLEAN /\ mixed' \in BOOLEAN
      /\ guard' \in {"none", "empty", "nodes", "edges"}
      /\ count' \in Nat /\ total' \in Nat
  BY DEF Opened
<1> QED
  BY <1>1, <1>2, <1>3 DEF NodeTypes, TypeOK, CachedOnDisk, Contents

\* What the file has of every id, when callers can rely on nothing else.
LEMMA SurvivedTypes ==
  ASSUME NEW files \in SUBSET Events, events \subseteq Events, Survived(files),
         disk' \in [Pages -> Contents],
         index' \in [Ids -> {0} \cup {p \in Pages : disk'[p] # Absent}]
  PROVE  /\ promised' \in [Ids -> Payloads \cup {Absent}]
         /\ base' = promised'
         /\ \A i \in Ids : promised'[i] =
              IF index'[i] = 0 THEN Absent ELSE Find(disk'[index'[i]], i)
         /\ events' = events \cup files
         /\ events' \subseteq Events
<1>1. \A i \in Ids : index'[i] # 0 => disk'[index'[i]] \in PageContents
  BY DEF Contents
<1>2. \A i \in Ids : index'[i] # 0 => Find(disk'[index'[i]], i) \in Payloads \cup {Absent}
  BY <1>1, FindType
<1> QED
  BY <1>2 DEF Survived

LEMMA CloseTypes ==
  ASSUME NodeTypes, CloseAndOpen
  PROVE  NodeTypes'
<1>1. /\ Opened
      /\ diskCount' \in Nat /\ diskTotal' \in Nat
      /\ UNCHANGED <<disk, index, promised, base>>
  BY DEF CloseAndOpen, NodeTypes, TypeOK
<1>2. events' \subseteq Events
  BY EventType DEF CloseAndOpen, NodeTypes, TypeOK, Events
<1>3. /\ disk' \in [Pages -> Contents]
      /\ index' \in [Ids -> {0} \cup {p \in Pages : disk'[p] # Absent}]
      /\ promised' \in [Ids -> Payloads \cup {Absent}]
      /\ base' \in [Ids -> Payloads \cup {Absent}]
  BY <1>1 DEF NodeTypes, TypeOK, Contents
<1> QED
  BY <1>1, <1>2, <1>3, OpenedTypes

\* The file and the index after a crash, whichever call it came in.
CrashLeaves(files) ==
  /\ Opened /\ Survived(files) /\ files \subseteq Events
  /\ disk' \in [Pages -> Contents]
  /\ index' \in [Ids -> {0} \cup {p \in Pages : disk'[p] # Absent}]
  /\ UNCHANGED <<diskCount, diskTotal>>

LEMMA CrashTypes ==
  ASSUME NodeTypes, NEW files, CrashLeaves(files)
  PROVE  NodeTypes'
<1>1. /\ promised' \in [Ids -> Payloads \cup {Absent}] /\ base' = promised'
      /\ events' \subseteq Events
  BY SurvivedTypes DEF CrashLeaves, NodeTypes, TypeOK
<1>2. diskCount' \in Nat /\ diskTotal' \in Nat
  BY DEF CrashLeaves, NodeTypes, TypeOK
<1> QED
  BY <1>1, <1>2, OpenedTypes DEF CrashLeaves

LEMMA CrashAndOpenLeaves ==
  ASSUME NodeTypes, NEW P \in SUBSET Staged, CrashAndOpen(P)
  PROVE  CrashLeaves(If(guard = "nodes", "cut") \cup If(mixed, "lost"))
<1>1. /\ disk' = Written(P) /\ UNCHANGED <<index, diskCount, diskTotal>>
      /\ Opened /\ Survived(If(guard = "nodes", "cut") \cup If(mixed, "lost"))
  BY DEF CrashAndOpen
<1>2. /\ disk' \in [Pages -> Contents]
      /\ \A p \in Pages : disk'[p] # Absent <=> disk[p] # Absent
  BY <1>1, WrittenType
<1>3. index' \in [Ids -> {0} \cup {p \in Pages : disk'[p] # Absent}]
  BY <1>1, <1>2 DEF NodeTypes, TypeOK
<1>4. If(guard = "nodes", "cut") \cup If(mixed, "lost") \subseteq Events
  BY EventType DEF Events
<1> QED
  BY <1>1, <1>2, <1>3, <1>4 DEF CrashLeaves

LEMMA InsertCutLeaves ==
  ASSUME NodeTypes, NEW p \in Pages, NEW new \in BOOLEAN, NEW v \in Payloads,
         NEW indexed \in BOOLEAN, InsertCut(p, new, v, indexed)
  PROVE  CrashLeaves({"cut"} \cup If(new /\ disk[p] # Absent, "overwritten"))
<1> DEFINE rec == [id |-> nextId, val |-> v]
           page == Append(Before(p, new), rec)
<1>1. nextId \in Ids /\ rec \in Record
  BY DEF InsertCut, NodeTypes, TypeOK, Ids, Record
<1>2. page \in PageContents /\ page # Absent
  BY <1>1, PlaceType, FindAppended DEF InsertCut
<1>3. disk' = [disk EXCEPT ![p] = page]
  BY DEF InsertCut
<1> HIDE DEF page, rec
<1>4. /\ disk' \in [Pages -> Contents] /\ disk'[p] # Absent
      /\ \A q \in Pages : disk[q] # Absent => disk'[q] # Absent
  BY <1>2, <1>3 DEF NodeTypes, TypeOK, Contents
<1>5. \A i \in Ids : index[i] \in {0} \cup {q \in Pages : disk'[q] # Absent}
  BY <1>4 DEF NodeTypes, TypeOK
<1>6. index' \in [Ids -> {0} \cup {q \in Pages : disk'[q] # Absent}]
  <2>1. index' = index \/ index' = [index EXCEPT ![nextId] = p]
    BY DEF InsertCut
  <2> QED
    BY <1>1, <1>4, <1>5, <2>1 DEF NodeTypes, TypeOK
<1>7. {"cut"} \cup If(new /\ disk[p] # Absent, "overwritten") \subseteq Events
  BY EventType DEF Events
<1> QED
  BY <1>4, <1>6, <1>7 DEF CrashLeaves, InsertCut

LEMMA DeleteCutLeaves ==
  ASSUME NodeTypes, NEW id \in Ids, DeleteCut(id)
  PROVE  CrashLeaves({"cut"} \cup If(mixed, "lost"))
<1> DEFINE p == index[id]
<1>1. p \in Pages /\ disk[p] # Absent /\ Loaded(p) \in PageContents
  BY LookupType, LoadedType DEF DeleteCut, Lookup
<1>2. Loaded(p) # Absent
  BY <1>1, PageAssumption
<1>3. /\ disk' = (IF batch THEN disk ELSE [disk EXCEPT ![p] = Loaded(p)])
      /\ index' = [index EXCEPT ![id] = 0]
  BY DEF DeleteCut
<1> HIDE DEF p
<1>4. /\ disk' \in [Pages -> Contents]
      /\ \A q \in Pages : disk'[q] # Absent <=> disk[q] # Absent
  BY <1>1, <1>2, <1>3 DEF NodeTypes, TypeOK, Contents
<1>5. index' \in [Ids -> {0} \cup {q \in Pages : disk'[q] # Absent}]
  BY <1>3, <1>4 DEF NodeTypes, TypeOK
<1>6. {"cut"} \cup If(mixed, "lost") \subseteq Events
  BY EventType DEF Events
<1> QED
  BY <1>4, <1>5, <1>6 DEF CrashLeaves, DeleteCut

LEMMA TypeStep ==
  ASSUME NodeTypes, [Next]_vars
  PROVE  NodeTypes'
<1>1. CASE Next
  BY <1>1, InsertTypes, ReadTypes, UpdateTypes, DeleteTypes, BatchTypes, FlushTypes,
     CloseTypes, CrashTypes, CrashAndOpenLeaves, InsertCutLeaves, DeleteCutLeaves
  DEF Next
<1>2. CASE UNCHANGED vars
  BY <1>2 DEF vars, NodeTypes, TypeOK, CachedOnDisk
<1> QED
  BY <1>1, <1>2

LEMMA TypesInvariant == Spec => []NodeTypes
<1>1. NodeTypes /\ [Next]_vars => NodeTypes'
  BY TypeStep
<1> QED
  BY <1>1, TypeInit, PTL DEF Spec

\* Every reachable state is well formed: pages never hold more than fits, the
\* index names pages that the file has, and nothing is staged outside a batch.
THEOREM TypeCorrect == Spec => []TypeOK
<1>1. NodeTypes => TypeOK
  BY DEF NodeTypes
<1> QED
  BY <1>1, TypesInvariant, PTL

-----------------------------------------------------------------------------
(* What readers and the file have *)

Untouched == Without({"reused", "overwritten", "phantom", "lost"})

\* The page as a batch sees it.
Current(p) == IF dirty[p] # Absent THEN dirty[p] ELSE disk[p]

\* Outside a batch nothing is staged with it; a batch with nodes is open only in
\* batch mode, and without one the promises are the committed ones.
BatchInv ==
  /\ mixed => batch
  /\ guard # "none" => batch
  /\ guard # "nodes" => base = promised

\* A page that is not staged is cached as it is in the file.  What is staged has
\* what the file has and, as long as nothing but deletes was, nothing else.
CacheInv ==
  /\ \A p \in Pages : dirty[p] = Absent => cache[p] \in {Absent, disk[p]}
  /\ \A p \in Pages, i \in Ids :
       disk[p] # Absent /\ Find(disk[p], i) # Absent => Find(Current(p), i) # Absent
  /\ guard # "nodes" /\ ~mixed =>
       \A p \in Pages : /\ dirty[p] \in {Absent, disk[p]}
                        /\ cache[p] \in {Absent, disk[p]}

\* The page that the index names has what was promised, a cached record is what
\* was promised, and the file has what was committed.
PromiseInv ==
  /\ \A i \in Ids : promised[i] = IF index[i] = 0 THEN Absent ELSE Find(Current(index[i]), i)
  /\ \A i \in Ids : nodeCache[i] \in {Absent, promised[i]}
  /\ ~mixed => \A i \in Ids : Durable(i) = base[i]

DataInv == Untouched => BatchInv /\ CacheInv /\ PromiseInv

\* Events are only added.
LEMMA EventsStay ==
  ASSUME NEW more, events' = events \cup more, Untouched'
  PROVE  /\ Untouched
         /\ \A e \in {"reused", "overwritten", "phantom", "lost"} : e \notin more
BY DEF Untouched, Without

\* A load returns the page as the batch sees it, and a read what was promised.
LEMMA LoadedIsCurrent ==
  ASSUME NodeTypes, CacheInv, NEW p \in Pages
  PROVE  Loaded(p) = Current(p)
BY DEF CacheInv, Loaded, Current

LEMMA LookupIsPromised ==
  ASSUME NodeTypes, CacheInv, PromiseInv, NEW id \in Ids
  PROVE  Lookup(id) = promised[id] /\ Read(id) = promised[id]
<1>1. index[id] # 0 => index[id] \in Pages
  BY LookupType
<1>2. Lookup(id) = promised[id]
  BY <1>1, LoadedIsCurrent DEF Lookup, PromiseInv
<1> QED
  BY <1>2 DEF Read, PromiseInv

LEMMA CurrentType ==
  ASSUME NodeTypes, NEW p \in Pages, disk[p] # Absent
  PROVE  Current(p) \in PageContents /\ disk[p] \in PageContents /\ Current(p) # Absent
BY DEF NodeTypes, TypeOK, Current

LEMMA FindInEmpty == \A id : Find(<<>>, id) = Absent
<1>1. \A id : Hits(<<>>, id) = {}
  BY DEF Hits
<1> QED
  BY <1>1 DEF Find

LEMMA DataInit == Init => BatchInv /\ CacheInv /\ PromiseInv
<1> SUFFICES ASSUME Init PROVE BatchInv /\ CacheInv /\ PromiseInv
  OBVIOUS
<1>1. /\ \A p \in Pages : disk[p] = Absent /\ dirty[p] = Absent /\ cache[p] = Absent
      /\ \A i \in Ids : index[i] = 0 /\ promised[i] = Absent /\ base[i] = Absent
                        /\ nodeCache[i] = Absent
      /\ base = promised /\ guard = "none" /\ mixed = FALSE
  BY DEF Init, None
<1> QED
  BY <1>1 DEF BatchInv, CacheInv, PromiseInv, Durable

\* A record of a new id is placed on a page: what both kinds of insert have in common.
LEMMA PlacedRecord ==
  ASSUME NodeTypes, BatchInv, CacheInv, PromiseInv,
         NEW p \in Pages, NEW new \in BOOLEAN, NEW v \in Payloads,
         InsertInner(p, new, v), Untouched'
  PROVE  /\ nextId \in Ids
         /\ promised[nextId] = Absent
         /\ Durable(nextId) = Absent
         /\ \A q \in Pages : q # p => /\ disk'[q] = disk[q] /\ dirty'[q] = dirty[q]
                                      /\ cache'[q] \in {Absent, cache[q]}
         /\ new => disk[p] = Absent
         /\ \A i \in Ids : /\ index'[i] = IF i = nextId THEN p ELSE index[i]
                           /\ promised'[i] = IF i = nextId THEN v ELSE promised[i]
         /\ Find(Current(p)', nextId) = v
         /\ \A i \in Ids : disk[p] # Absent /\ i # nextId =>
                             Find(Current(p)', i) = Find(Current(p), i)
         /\ IF batch THEN /\ dirty'[p] # Absent
                          /\ \A i \in Ids : Find(disk'[p], i) =
                               IF new THEN Absent ELSE Find(disk[p], i)
                          /\ Find(disk'[p], nextId) = Absent
                     ELSE /\ disk'[p] = Current(p)'
                          /\ dirty' = dirty
                          /\ cache'[p] \in {Absent, disk'[p]}
<1> DEFINE rec == [id |-> nextId, val |-> v]
           page == Append(Before(p, new), rec)
<1>1. nextId \in Ids /\ rec \in Record /\ rec.id = nextId /\ rec.val = v
  BY DEF InsertInner, NodeTypes, TypeOK, Ids, Record
<1>2. ~Recorded(nextId) /\ (new => disk[p] = Absent)
  <2>1. events' = events \cup (If(Recorded(nextId), "reused")
                               \cup If(new /\ disk[p] # Absent, "overwritten"))
    BY DEF InsertInner
  <2>2. "reused" \notin If(Recorded(nextId), "reused")
    BY <2>1, EventsStay
  <2>3. "overwritten" \notin If(new /\ disk[p] # Absent, "overwritten")
    BY <2>1, EventsStay
  <2> QED
    BY <2>2, <2>3 DEF If
<1>3. \A q \in Pages : disk[q] # Absent =>
        Find(disk[q], nextId) = Absent /\ Find(Current(q), nextId) = Absent
  BY <1>2 DEF Recorded, Current
<1>4. promised[nextId] = Absent /\ Durable(nextId) = Absent
  BY <1>1, <1>3, LookupType DEF PromiseInv, Durable
<1>5. Target(p, new) /\ Place(p, new, rec)
  BY DEF InsertInner
<1>6. /\ Before(p, new) \in PageContents /\ Len(Before(p, new)) < PageCap
      /\ ~new => disk[p] # Absent
  BY <1>5, PlaceType
<1>7. Before(p, new) = IF new THEN <<>> ELSE Current(p)
  <2>1. new => dirty[p] = Absent
    BY <1>2 DEF NodeTypes, TypeOK
  <2> QED
    BY <2>1, LoadedIsCurrent DEF Before
<1>8. Find(Before(p, new), nextId) = Absent
  BY <1>3, <1>6, <1>7, FindInEmpty
<1>9. /\ page \in PageContents /\ page # Absent
      /\ Find(page, nextId) = v
      /\ \A i \in Ids : i # nextId => Find(page, i) = Find(Before(p, new), i)
  BY <1>1, <1>6, <1>8, FindAppended
<1>10. /\ disk' = IF ~batch THEN [disk EXCEPT ![p] = page]
                  ELSE IF new THEN [disk EXCEPT ![p] = <<>>] ELSE disk
       /\ dirty' = IF batch THEN [dirty EXCEPT ![p] = page] ELSE dirty
       /\ cache' \in CachedByPlacing(p, new, page)
  BY <1>5 DEF Place
<1> HIDE DEF page, rec
<1>11. /\ disk \in [Pages -> Contents] /\ dirty \in [Pages -> Contents]
       /\ cache \in [Pages -> Contents]
       /\ ~batch => \A q \in Pages : dirty[q] = Absent
  BY DEF NodeTypes, TypeOK, Contents
<1>12. /\ \A q \in Pages : q # p => cache'[q] \in {Absent, cache[q]}
       /\ ~batch => cache'[p] \in {Absent, page}
  BY <1>9, <1>10, <1>11, EmptyPage, CachedWithEffect DEF CachedByPlacing
<1>13. /\ \A q \in Pages : q # p => disk'[q] = disk[q] /\ dirty'[q] = dirty[q]
       /\ batch => dirty'[p] = page
       /\ ~batch => disk'[p] = page /\ dirty' = dirty
       /\ batch => disk'[p] = IF new THEN <<>> ELSE disk[p]
  BY <1>10, <1>11
<1>14. Current(p)' = page
  BY <1>9, <1>11, <1>13 DEF Current
<1>15. \A i \in Ids : /\ index'[i] = IF i = nextId THEN p ELSE index[i]
                      /\ promised'[i] = IF i = nextId THEN v ELSE promised[i]
  BY <1>1 DEF InsertInner, NodeTypes, TypeOK
<1>16. \A i \in Ids : disk[p] # Absent /\ i # nextId =>
                        Find(Current(p)', i) = Find(Current(p), i)
  BY <1>2, <1>7, <1>9, <1>14
<1>17. batch => /\ \A i \in Ids : Find(disk'[p], i) = IF new THEN Absent ELSE Find(disk[p], i)
                /\ Find(disk'[p], nextId) = Absent
  BY <1>1, <1>3, <1>6, <1>13, FindInEmpty
<1> QED
  BY <1>1, <1>2, <1>4, <1>9, <1>12, <1>13, <1>14, <1>15, <1>16, <1>17

LEMMA InsertData ==
  ASSUME NodeTypes, BatchInv, CacheInv, PromiseInv,
         NEW p \in Pages, NEW new \in BOOLEAN, NEW v \in Payloads,
         InsertNode(p, new, v) \/ BatchInsertNode(p, new, v), Untouched'
  PROVE  BatchInv' /\ CacheInv' /\ PromiseInv'
<1>1. InsertInner(p, new, v)
  BY DEF InsertNode, BatchInsertNode
<1> DEFINE
      Old(q) == disk'[q] = disk[q] /\ dirty'[q] = dirty[q] /\ cache'[q] \in {Absent, cache[q]}
<1>2. /\ nextId \in Ids
      /\ promised[nextId] = Absent
      /\ Durable(nextId) = Absent
      /\ \A q \in Pages : q # p => Old(q)
      /\ new => disk[p] = Absent
      /\ \A i \in Ids : /\ index'[i] = IF i = nextId THEN p ELSE index[i]
                        /\ promised'[i] = IF i = nextId THEN v ELSE promised[i]
      /\ Find(Current(p)', nextId) = v
      /\ \A i \in Ids : disk[p] # Absent /\ i # nextId =>
                          Find(Current(p)', i) = Find(Current(p), i)
  BY <1>1, PlacedRecord
<1>3. batch => /\ dirty'[p] # Absent
               /\ \A i \in Ids : Find(disk'[p], i) = IF new THEN Absent ELSE Find(disk[p], i)
               /\ Find(disk'[p], nextId) = Absent
  BY <1>1, PlacedRecord
<1>4. ~batch => disk'[p] = Current(p)' /\ dirty' = dirty /\ cache'[p] \in {Absent, disk'[p]}
  BY <1>1, PlacedRecord
<1>5. UNCHANGED <<batch, nodeCache>>
  BY DEF InsertNode, BatchInsertNode
<1>6. \A i \in Ids : index[i] # 0 => index[i] \in Pages /\ disk[index[i]] # Absent
  BY LookupType
<1>7. \A q \in Pages : q # p => Current(q)' = Current(q)
  BY <1>2 DEF Current
<1>8. ~batch => guard = "none" /\ ~mixed /\ \A q \in Pages : dirty[q] = Absent
  BY DEF BatchInv, NodeTypes, TypeOK
<1>9. /\ p # 0
      /\ \A i \in Ids : promised'[i] =
           IF index'[i] = 0 THEN Absent ELSE Find(Current(index[i])', i)
      /\ \A i \in Ids : nodeCache'[i] \in {Absent, promised'[i]}
  <2>1. p # 0
    BY DEF Pages
  <2>2. ASSUME NEW i \in Ids, i # nextId
        PROVE  promised'[i] = IF index'[i] = 0 THEN Absent ELSE Find(Current(index[i])', i)
    <3>1. index'[i] = index[i] /\ promised'[i] = promised[i]
      BY <1>2, <2>2
    <3>2. CASE index[i] = p
      BY <1>2, <1>6, <2>1, <2>2, <3>1, <3>2 DEF PromiseInv, Current
    <3>3. CASE index[i] # p
      BY <1>6, <1>7, <3>1, <3>3 DEF PromiseInv, Current
    <3> QED
      BY <3>2, <3>3
  <2>3. \A i \in Ids : nodeCache'[i] \in {Absent, promised'[i]}
    BY <1>2, <1>5 DEF PromiseInv
  <2>4. ASSUME NEW i \in Ids, i = nextId
        PROVE  promised'[i] = IF index'[i] = 0 THEN Absent ELSE Find(Current(index[i])', i)
    BY <1>2, <2>1, <2>4 DEF Current
  <2> QED
    BY <2>1, <2>2, <2>3, <2>4
<1>10. ~mixed' => \A i \in Ids : Durable(i)' = base'[i]
  <2> SUFFICES ASSUME ~mixed', NEW i \in Ids
               PROVE  Durable(i)' = base'[i]
    OBVIOUS
  <2>1. ~mixed /\ Durable(i) = base[i] /\ Durable(nextId) = base[nextId]
    BY <1>2, <1>8 DEF InsertNode, BatchInsertNode, PromiseInv
  <2>2. CASE InsertNode(p, new, v)
    <3>1. ~batch /\ base'[i] = IF i = nextId THEN v ELSE base[i]
      BY <1>2, <2>2 DEF InsertNode, NodeTypes, TypeOK
    <3>2. CASE i = nextId
      BY <1>2, <1>4, <1>9, <3>1, <3>2 DEF Durable
    <3>3. CASE i # nextId /\ index[i] = p
      BY <1>2, <1>4, <1>6, <1>8, <1>9, <2>1, <3>1, <3>3 DEF Durable, Current
    <3>4. CASE i # nextId /\ index[i] # p
      BY <1>2, <1>6, <2>1, <3>1, <3>4 DEF Durable
    <3> QED
      BY <3>2, <3>3, <3>4
  <2>3. CASE BatchInsertNode(p, new, v)
    <3>1. batch /\ base' = base
      BY <2>3 DEF BatchInsertNode, BatchInv
    <3>2. CASE i = nextId
      BY <1>2, <1>3, <1>9, <2>1, <3>1, <3>2 DEF Durable
    <3>3. CASE i # nextId /\ index[i] = p
      BY <1>2, <1>3, <1>6, <1>9, <2>1, <3>1, <3>3 DEF Durable
    <3>4. CASE i # nextId /\ index[i] # p
      BY <1>2, <1>6, <2>1, <3>1, <3>4 DEF Durable
    <3> QED
      BY <3>2, <3>3, <3>4
  <2> QED
    BY <2>2, <2>3
<1>11. \A q \in Pages : dirty'[q] = Absent => cache'[q] \in {Absent, disk'[q]}
  BY <1>2, <1>3, <1>4 DEF CacheInv
<1>12. \A q \in Pages, i \in Ids :
         disk'[q] # Absent /\ Find(disk'[q], i) # Absent => Find(Current(q)', i) # Absent
  <2> SUFFICES ASSUME NEW q \in Pages, NEW i \in Ids,
                      disk'[q] # Absent, Find(disk'[q], i) # Absent
               PROVE  Find(Current(q)', i) # Absent
    OBVIOUS
  <2>1. CASE q # p
    BY <1>2, <1>7, <2>1 DEF CacheInv
  <2>2. CASE q = p /\ ~batch
    BY <1>4, <2>2
  <2>3. CASE q = p /\ batch
    <3>1. ~new /\ Find(disk[p], i) # Absent /\ i # nextId
      BY <1>3, <2>3
    <3>2. disk[p] # Absent
      BY <1>1, <3>1, PlaceType DEF InsertInner
    <3> QED
      BY <1>2, <2>3, <3>1, <3>2 DEF CacheInv
  <2> QED
    BY <2>1, <2>2, <2>3
<1>13. guard' # "nodes" /\ ~mixed' =>
         \A q \in Pages : dirty'[q] \in {Absent, disk'[q]} /\ cache'[q] \in {Absent, disk'[q]}
  <2> SUFFICES ASSUME guard' # "nodes", ~mixed'
               PROVE  \A q \in Pages : /\ dirty'[q] \in {Absent, disk'[q]}
                                       /\ cache'[q] \in {Absent, disk'[q]}
    OBVIOUS
  <2>1. ~batch
    BY DEF InsertNode, BatchInsertNode
  <2> QED
    BY <1>4, <1>8, <1>11, <2>1
<1>14. BatchInv'
  BY DEF BatchInv, InsertNode, BatchInsertNode, InsertInner
<1>15. CacheInv'
  BY <1>11, <1>12, <1>13 DEF CacheInv
<1> QED
  BY <1>9, <1>10, <1>14, <1>15 DEF PromiseInv

\* A page of the file is written back, in a batch staged, with what is found of
\* one id changed to v (a record it has stays a record).
Rewritten(p, page, id, v) ==
  /\ disk[p] # Absent /\ page \in PageContents /\ page # Absent
  /\ WritePage(p, page) /\ cache' \in CachedWith(p, page)
  /\ \A i \in Ids : Find(page, i) = IF i = id THEN v ELSE Find(Current(p), i)

LEMMA RewrittenPage ==
  ASSUME NodeTypes, BatchInv, CacheInv, UNCHANGED batch,
         NEW p \in Pages, NEW page, NEW id \in Ids, NEW v \in Payloads,
         Rewritten(p, page, id, v)
  PROVE  /\ \A q \in Pages : q # p => /\ disk'[q] = disk[q] /\ dirty'[q] = dirty[q]
                                      /\ cache'[q] \in {Absent, cache[q]}
         /\ Current(p)' = page
         /\ batch => disk' = disk /\ dirty'[p] = page
         /\ ~batch => disk'[p] = page /\ dirty' = dirty
         /\ cache'[p] \in {Absent, page}
         /\ \A q \in Pages : dirty'[q] = Absent => cache'[q] \in {Absent, disk'[q]}
         /\ \A q \in Pages, i \in Ids :
              disk'[q] # Absent /\ Find(disk'[q], i) # Absent => Find(Current(q)', i) # Absent
<1> USE DEF Rewritten
<1>1. /\ disk \in [Pages -> Contents] /\ dirty \in [Pages -> Contents]
      /\ cache \in [Pages -> Contents]
      /\ ~batch => \A q \in Pages : dirty[q] = Absent
  BY DEF NodeTypes, TypeOK, Contents
<1>2. \A q \in Pages : cache'[q] \in {Absent, IF q = p THEN page ELSE cache[q]}
  BY <1>1, CachedWithEffect
<1>3. /\ \A q \in Pages : q # p => disk'[q] = disk[q] /\ dirty'[q] = dirty[q]
      /\ batch => disk' = disk /\ dirty'[p] = page
      /\ ~batch => disk'[p] = page /\ dirty' = dirty
  BY <1>1 DEF WritePage
<1>4. Current(p)' = page
  BY <1>1, <1>3 DEF Current
<1>5. \A q \in Pages : dirty'[q] = Absent => cache'[q] \in {Absent, disk'[q]}
  BY <1>2, <1>3 DEF CacheInv
<1>6. v # Absent
  BY NodeAssumption
<1>7. ASSUME NEW q \in Pages, NEW i \in Ids, disk'[q] # Absent, Find(disk'[q], i) # Absent
      PROVE  Find(Current(q)', i) # Absent
  <2>1. CASE q # p
    <3>1. Current(q)' = Current(q)
      BY <1>3, <2>1 DEF Current
    <3> QED
      BY <1>3, <1>7, <2>1, <3>1 DEF CacheInv
  <2>2. CASE q = p /\ ~batch
    BY <1>3, <1>4, <1>7, <2>2
  <2>3. CASE q = p /\ batch
    BY <1>3, <1>4, <1>6, <1>7, <2>3 DEF CacheInv
  <2> QED
    BY <2>1, <2>2, <2>3
<1> QED
  BY <1>2, <1>3, <1>4, <1>5, <1>7

LEMMA UpdateData ==
  ASSUME NodeTypes, BatchInv, CacheInv, PromiseInv,
         NEW id \in Ids, NEW v \in Payloads, UpdateNode(id, v)
  PROVE  BatchInv' /\ CacheInv' /\ PromiseInv'
<1> DEFINE p == index[id]
           page == Replaced(Loaded(p), id, v)
<1>1. Lookup(id) # Absent /\ index[id] # 0
  BY DEF UpdateNode, Lookup
<1>2. p \in Pages /\ disk[p] # Absent /\ Loaded(p) \in PageContents /\ Loaded(p) = Current(p)
  BY <1>1, LookupType, LoadedType, LoadedIsCurrent
<1>3. /\ page \in PageContents /\ page # Absent
      /\ \A i \in Ids : Find(page, i) = IF i = id THEN v ELSE Find(Current(p), i)
  BY <1>1, <1>2, FindReplaced DEF Lookup
<1>4. WritePage(p, page) /\ cache' \in CachedWith(p, page)
  BY DEF UpdateNode
<1>5. PICK r \in Pages : r = p
  BY <1>2
<1>6. PICK new : new = page
  OBVIOUS
<1>7. Rewritten(r, new, id, v)
  BY <1>2, <1>3, <1>4, <1>5, <1>6 DEF Rewritten
<1>8. index[id] = r
  BY <1>5
<1> HIDE DEF page, p
<1>9. UNCHANGED <<index, batch, guard>> /\ mixed' = batch
  BY DEF UpdateNode
<1>10. /\ \A q \in Pages : q # r => disk'[q] = disk[q] /\ dirty'[q] = dirty[q]
                                    /\ cache'[q] \in {Absent, cache[q]}
       /\ Current(r)' = new
       /\ batch => disk' = disk /\ dirty'[r] = new
       /\ ~batch => disk'[r] = new /\ dirty' = dirty
       /\ cache'[r] \in {Absent, new}
       /\ \A q \in Pages : dirty'[q] = Absent => cache'[q] \in {Absent, disk'[q]}
       /\ \A q \in Pages, i \in Ids :
            disk'[q] # Absent /\ Find(disk'[q], i) # Absent => Find(Current(q)', i) # Absent
  BY <1>7, <1>9, RewrittenPage
<1>11. \A i \in Ids : /\ promised'[i] = IF i = id THEN v ELSE promised[i]
                      /\ base'[i] = IF i = id THEN v ELSE base[i]
                      /\ nodeCache'[i] = IF i = id THEN Absent ELSE nodeCache[i]
  BY DEF UpdateNode, NodeTypes, TypeOK
<1>12. \A i \in Ids : index[i] # 0 => index[i] \in Pages /\ disk[index[i]] # Absent
  BY LookupType
<1>13. \A i \in Ids : Find(new, i) = IF i = id THEN v ELSE Find(Current(r), i)
  BY <1>7 DEF Rewritten
<1>14. ASSUME NEW i \in Ids
       PROVE  promised'[i] = IF index'[i] = 0 THEN Absent ELSE Find(Current(index[i])', i)
  <2>1. CASE index[i] = r
    <3>1. Current(index[i])' = new
      BY <1>9, <1>10, <2>1 DEF Current
    <3> QED
      BY <1>8, <1>9, <1>11, <1>13, <2>1, <3>1, <1>12 DEF PromiseInv, Pages
  <2>2. CASE index[i] # r /\ index[i] # 0
    <3>1. Current(index[i])' = Current(index[i])
      BY <1>9, <1>10, <1>12, <2>2 DEF Current
    <3> QED
      BY <1>8, <1>9, <1>11, <2>2, <3>1 DEF PromiseInv
  <2>3. CASE index[i] = 0
    BY <1>1, <1>9, <1>11, <2>3 DEF PromiseInv
  <2> QED
    BY <2>1, <2>2, <2>3
<1>15. ~batch => guard = "none" /\ ~mixed /\ \A q \in Pages : dirty[q] = Absent
  BY DEF BatchInv, NodeTypes, TypeOK
<1>16. ASSUME ~mixed', NEW i \in Ids
       PROVE  Durable(i)' = base'[i]
  <2>1. ~batch /\ Durable(i) = base[i]
    BY <1>9, <1>15, <1>16 DEF PromiseInv
  <2>2. CASE index[i] = r
    <3>1. Durable(i)' = Find(new, i)
      BY <1>9, <1>10, <2>1, <2>2 DEF Durable, Pages
    <3>2. Durable(i) = Find(Current(r), i)
      BY <1>15, <2>1, <2>2 DEF Durable, Current, Pages
    <3> QED
      BY <1>11, <1>13, <2>1, <3>1, <3>2
  <2>3. CASE index[i] # r
    <3>1. i # id /\ Durable(i)' = Durable(i)
      BY <1>8, <1>9, <1>10, <1>12, <2>3 DEF Durable
    <3> QED
      BY <1>11, <2>1, <3>1
  <2> QED
    BY <2>2, <2>3
<1>17. \A i \in Ids : nodeCache'[i] \in {Absent, promised'[i]}
  BY <1>11 DEF PromiseInv
<1>18. BatchInv'
  <2>1. guard' # "nodes" => base' = promised'
    BY <1>9 DEF BatchInv, UpdateNode
  <2>2. mixed' => batch'
    BY <1>9
  <2>3. guard' # "none" => batch'
    BY <1>9 DEF BatchInv
  <2> QED
    BY <2>1, <2>2, <2>3 DEF BatchInv
<1>19. guard' # "nodes" /\ ~mixed' =>
         \A q \in Pages : dirty'[q] \in {Absent, disk'[q]} /\ cache'[q] \in {Absent, disk'[q]}
  BY <1>9, <1>10, <1>15
<1>20. CacheInv'
  BY <1>10, <1>19 DEF CacheInv
<1> QED
  BY <1>14, <1>16, <1>17, <1>18, <1>20 DEF PromiseInv

\* Loading a page that the index names leaves the pages in cache right.
LEMMA LoadingData ==
  ASSUME NodeTypes, BatchInv, CacheInv, NEW p \in Pages, disk[p] # Absent,
         cache' \in CachedByLoading(p), UNCHANGED <<disk, dirty, mixed>>,
         guard' # "nodes" => guard # "nodes"
  PROVE  CacheInv'
<1>1. /\ \A q \in Pages : cache'[q] \in {Absent, cache[q], IF q = p THEN disk[p] ELSE cache[q]}
      /\ dirty[p] # Absent => cache' = cache
  BY LoadingEffect
<1>2. \A q \in Pages : dirty'[q] = Absent => cache'[q] \in {Absent, disk'[q]}
  BY <1>1 DEF CacheInv
<1>3. \A q \in Pages, i \in Ids :
        disk'[q] # Absent /\ Find(disk'[q], i) # Absent => Find(Current(q)', i) # Absent
  BY DEF CacheInv, Current
<1>4. guard' # "nodes" /\ ~mixed' =>
        \A q \in Pages : dirty'[q] \in {Absent, disk'[q]} /\ cache'[q] \in {Absent, disk'[q]}
  BY <1>1 DEF CacheInv
<1> QED
  BY <1>2, <1>3, <1>4 DEF CacheInv

LEMMA ReadData ==
  ASSUME NodeTypes, BatchInv, CacheInv, PromiseInv,
         NEW id \in Ids, GetNode(id) \/ BatchInsertEdge(id)
  PROVE  BatchInv' /\ CacheInv' /\ PromiseInv'
<1>1. /\ Fetch(id)
      /\ UNCHANGED <<disk, index, dirty, batch, promised, base, mixed>>
      /\ guard' = guard \/ (guard = "empty" /\ guard' = "edges")
  BY DEF GetNode, BatchInsertEdge, fileVars, histVars
<1>2. BatchInv'
  BY <1>1 DEF BatchInv
<1>3. \A i \in Ids : nodeCache'[i] \in {Absent, promised'[i]}
  BY <1>1, LookupIsPromised DEF Fetch, PromiseInv, NodeTypes, TypeOK
<1>4. PromiseInv'
  BY <1>1, <1>3 DEF PromiseInv, Durable, Current
<1>5. CacheInv'
  <2>1. CASE nodeCache[id] # Absent \/ index[id] = 0
    BY <1>1, <2>1 DEF Fetch, CacheInv, Current
  <2>2. CASE ~(nodeCache[id] # Absent \/ index[id] = 0)
    <3>1. PICK p \in Pages : p = index[id] /\ disk[p] # Absent
      BY <2>2, LookupType
    <3>2. cache' \in CachedByLoading(p)
      BY <1>1, <2>2, <3>1 DEF Fetch
    <3> QED
      BY <1>1, <3>1, <3>2, LoadingData
  <2> QED
    BY <2>1, <2>2
<1> QED
  BY <1>2, <1>4, <1>5

\* delete_entity of a node: its page is written back, its index entry removed.
LEMMA DeletedData ==
  ASSUME NodeTypes, BatchInv, CacheInv, PromiseInv,
         NEW id \in Ids, DeleteEntity(id), Lookup(id) # Absent
  PROVE  BatchInv' /\ CacheInv' /\ PromiseInv'
<1>1. PICK p \in Pages : p = index[id] /\ disk[p] # Absent
  BY LookupType DEF Lookup
<1>2. /\ Loaded(p) = Current(p) /\ Current(p) \in PageContents /\ Current(p) # Absent
      /\ disk[p] \in PageContents
  BY <1>1, LoadedIsCurrent, CurrentType
<1>3. /\ WritePage(p, Current(p)) /\ cache' \in CachedWith(p, Current(p))
      /\ index' = [index EXCEPT ![id] = 0]
      /\ UNCHANGED <<batch, guard, mixed>>
  BY <1>1, <1>2 DEF DeleteEntity, DeleteRecord
<1>4. /\ disk \in [Pages -> Contents] /\ dirty \in [Pages -> Contents]
      /\ cache \in [Pages -> Contents]
      /\ ~batch => \A q \in Pages : dirty[q] = Absent
  BY DEF NodeTypes, TypeOK, Contents
<1>5. \A q \in Pages : cache'[q] \in {Absent, IF q = p THEN Current(p) ELSE cache[q]}
  BY <1>2, <1>3, <1>4, CachedWithEffect
<1>6. /\ \A q \in Pages : q # p => disk'[q] = disk[q] /\ dirty'[q] = dirty[q]
      /\ disk'[p] = disk[p]
      /\ batch => dirty'[p] = Current(p)
      /\ ~batch => dirty' = dirty
  BY <1>3, <1>4 DEF WritePage, Current
<1>7. \A q \in Pages : disk'[q] = disk[q] /\ Current(q)' = Current(q)
  BY <1>2, <1>4, <1>6 DEF Current
<1>8. \A i \in Ids : /\ index'[i] = IF i = id THEN 0 ELSE index[i]
                     /\ promised'[i] = IF i = id THEN Absent ELSE promised[i]
                     /\ base'[i] = IF i = id THEN Absent ELSE base[i]
                     /\ nodeCache'[i] = IF i = id THEN Absent ELSE nodeCache[i]
  BY <1>3 DEF DeleteEntity, NodeTypes, TypeOK
<1>9. BatchInv'
  <2>1. guard' # "nodes" => base' = promised'
    BY <1>3 DEF BatchInv, DeleteEntity
  <2> QED
    BY <1>3, <2>1 DEF BatchInv
<1>10. CacheInv'
  <2>1. \A q \in Pages : dirty'[q] = Absent => cache'[q] \in {Absent, disk'[q]}
    BY <1>2, <1>4, <1>5, <1>6 DEF CacheInv, Current
  <2>2. \A q \in Pages, i \in Ids :
          disk'[q] # Absent /\ Find(disk'[q], i) # Absent => Find(Current(q)', i) # Absent
    BY <1>7 DEF CacheInv
  <2>3. guard' # "nodes" /\ ~mixed' =>
          \A q \in Pages : dirty'[q] \in {Absent, disk'[q]} /\ cache'[q] \in {Absent, disk'[q]}
    BY <1>3, <1>4, <1>5, <1>6 DEF CacheInv, Current
  <2> QED
    BY <2>1, <2>2, <2>3 DEF CacheInv
<1>11. \A i \in Ids : index[i] # 0 => index[i] \in Pages
  BY LookupType
<1>12. PromiseInv'
  <2>1. ASSUME NEW i \in Ids
        PROVE  promised'[i] = IF index'[i] = 0 THEN Absent ELSE Find(Current(index[i])', i)
    <3>1. CASE i = id
      BY <1>8, <3>1
    <3>2. CASE i # id /\ index[i] # 0
      <4>1. Current(index[i])' = Current(index[i])
        BY <1>7, <1>8, <1>11, <3>2 DEF Current
      <4> QED
        BY <1>8, <3>2, <4>1 DEF PromiseInv
    <3>3. CASE i # id /\ index[i] = 0
      BY <1>8, <3>3 DEF PromiseInv
    <3> QED
      BY <3>1, <3>2, <3>3
  <2>2. \A i \in Ids : nodeCache'[i] \in {Absent, promised'[i]}
    BY <1>8 DEF PromiseInv
  <2>3. ASSUME ~mixed', NEW i \in Ids
        PROVE  Durable(i)' = base'[i]
    BY <1>3, <1>7, <1>8, <1>11, <2>3 DEF PromiseInv, Durable
  <2>4. \A i \in Ids : promised'[i] = IF index'[i] = 0 THEN Absent ELSE Find(Current(index[i])', i)
    BY <2>1
  <2> QED
    BY <2>2, <2>3, <2>4, <1>8 DEF PromiseInv, Current
<1> QED
  BY <1>9, <1>10, <1>12

\* delete_entity of an id that no node has: its page may have been loaded.
LEMMA MissedData ==
  ASSUME NodeTypes, BatchInv, CacheInv, PromiseInv,
         NEW id \in Ids, DeleteEntity(id), Lookup(id) = Absent
  PROVE  BatchInv' /\ CacheInv' /\ PromiseInv'
<1>1. UNCHANGED <<disk, dirty, index, batch, guard, mixed>>
  BY DEF DeleteEntity, DeleteRecord
<1>2. \A i \in Ids : /\ promised'[i] = IF i = id THEN Absent ELSE promised[i]
                     /\ base'[i] = IF i = id THEN Absent ELSE base[i]
                     /\ nodeCache'[i] = IF i = id THEN Absent ELSE nodeCache[i]
  BY DEF DeleteEntity, NodeTypes, TypeOK
<1>3. promised[id] = Absent
  BY LookupIsPromised
<1>4. Durable(id) = Absent
  <2>1. CASE index[id] = 0
    BY <2>1 DEF Durable
  <2>2. CASE index[id] # 0
    <3>1. index[id] \in Pages /\ disk[index[id]] # Absent
      BY <2>2, LookupType
    <3>2. Find(Current(index[id]), id) = Absent
      BY <1>3, <2>2 DEF PromiseInv
    <3> QED
      BY <2>2, <3>1, <3>2 DEF CacheInv, Durable
  <2> QED
    BY <2>1, <2>2
<1>5. BatchInv'
  <2>1. guard' # "nodes" => base' = promised'
    BY <1>1 DEF BatchInv, DeleteEntity
  <2> QED
    BY <1>1, <2>1 DEF BatchInv
<1>6. CacheInv'
  <2>1. CASE index[id] = 0
    BY <1>1, <2>1 DEF DeleteEntity, DeleteRecord, CacheInv, Current
  <2>2. CASE index[id] # 0
    <3>1. PICK p \in Pages : p = index[id] /\ disk[p] # Absent
      BY <2>2, LookupType
    <3>2. cache' \in CachedByLoading(p)
      BY <2>2, <3>1 DEF DeleteEntity, DeleteRecord
    <3> QED
      BY <1>1, <3>1, <3>2, LoadingData
  <2> QED
    BY <2>1, <2>2
<1>7. \A i \in Ids : promised'[i] = promised[i]
  BY <1>2, <1>3
<1>8. PromiseInv'
  <2>1. ~mixed' => \A i \in Ids : Durable(i)' = base'[i]
    BY <1>1, <1>2, <1>4 DEF PromiseInv, Durable
  <2>2. \A i \in Ids : nodeCache'[i] \in {Absent, promised'[i]}
    BY <1>2, <1>7 DEF PromiseInv
  <2> QED
    BY <1>1, <1>7, <2>1, <2>2 DEF PromiseInv, Current
<1> QED
  BY <1>5, <1>6, <1>8

LEMMA DeleteData ==
  ASSUME NodeTypes, BatchInv, CacheInv, PromiseInv, NEW id \in Ids, DeleteEntity(id)
  PROVE  BatchInv' /\ CacheInv' /\ PromiseInv'
BY DeletedData, MissedData

\* A batch begins with nothing staged, which changes what is seen only if a call
\* outside a batch was staged before.
LEMMA BeginData ==
  ASSUME NodeTypes, BatchInv, CacheInv, PromiseInv, BeginBatch, Untouched'
  PROVE  BatchInv' /\ CacheInv' /\ PromiseInv'
<1>1. /\ guard = "none" /\ guard' = "empty" /\ batch' = TRUE /\ mixed' = FALSE
      /\ \A p \in Pages : dirty'[p] = Absent
      /\ UNCHANGED <<disk, index, cache, nodeCache, promised, base>>
  BY DEF BeginBatch, None, fileVars
<1>2. ~mixed
  BY EventsStay DEF BeginBatch, If
<1>3. base = promised
  BY <1>1 DEF BatchInv
<1>4. \A p \in Pages : dirty[p] \in {Absent, disk[p]} /\ cache[p] \in {Absent, disk[p]}
  BY <1>1, <1>2 DEF CacheInv
<1>5. BatchInv'
  BY <1>1, <1>3 DEF BatchInv
<1>6. CacheInv'
  BY <1>1, <1>4 DEF CacheInv, Current
<1>7. \A i \in Ids : index[i] # 0 => index[i] \in Pages
  BY LookupType
<1>8. PromiseInv'
  BY <1>1, <1>2, <1>4, <1>7 DEF PromiseInv, Durable, Current
<1> QED
  BY <1>5, <1>6, <1>8

LEMMA CommitData ==
  ASSUME NodeTypes, BatchInv, CacheInv, PromiseInv, CommitBatch
  PROVE  BatchInv' /\ CacheInv' /\ PromiseInv'
<1>1. guard' = "none" /\ UNCHANGED <<index, nodeCache, promised>>
  BY DEF CommitBatch
<1>2. CASE guard # "nodes"
  <2>1. UNCHANGED <<disk, cache, dirty, batch, base, mixed>>
    BY <1>2 DEF CommitBatch
  <2> QED
    BY <1>1, <1>2, <2>1 DEF BatchInv, CacheInv, PromiseInv, Durable, Current
<1>3. CASE guard = "nodes"
  <2>1. /\ disk' = Written(Staged) /\ cache' \in CachedByCommit
        /\ dirty' = None(Pages) /\ base' = promised /\ mixed' = FALSE
    BY <1>3 DEF CommitBatch
  <2>2. \A p \in Pages : disk'[p] = Current(p) /\ dirty'[p] = Absent
    BY <2>1 DEF Written, Staged, Current, None
  <2>3. \A p \in Pages : cache'[p] \in {Absent, disk'[p]}
    BY <2>1, <2>2 DEF CachedByCommit, Staged, Current, CacheInv
  <2>4. \A i \in Ids : index[i] # 0 => index[i] \in Pages
    BY LookupType
  <2>5. BatchInv'
    BY <1>1, <2>1 DEF BatchInv
  <2>6. CacheInv'
    BY <2>2, <2>3 DEF CacheInv, Current
  <2>7. PromiseInv'
    BY <1>1, <2>1, <2>2, <2>4 DEF PromiseInv, Durable, Current
  <2> QED
    BY <2>5, <2>6, <2>7
<1> QED
  BY <1>2, <1>3

LEMMA RollBackData ==
  ASSUME NodeTypes, BatchInv, CacheInv, PromiseInv, RollBack, Untouched'
  PROVE  BatchInv' /\ CacheInv' /\ PromiseInv'
<1>1. /\ guard' = "none" /\ mixed' = FALSE /\ promised' = base
      /\ \A p \in Pages : dirty'[p] = Absent
      /\ UNCHANGED <<disk, index, cache, nodeCache, base>>
  BY DEF RollBack, None, fileVars
<1> DEFINE stale == \/ \E i \in Ids : nodeCache[i] \notin {Absent, base[i]}
                    \/ \E p \in Pages : cache[p] \notin {Absent, disk[p]}
<1>2. ~mixed /\ ~stale
  <2>1. events' = events \cup (If(mixed, "lost") \cup If(guard = "nodes", "rolledBack")
                               \cup If(stale, "phantom"))
    BY DEF RollBack
  <2>2. "lost" \notin If(mixed, "lost") /\ "phantom" \notin If(stale, "phantom")
    BY <2>1, EventsStay
  <2> QED
    BY <2>2 DEF If
<1>3. \A i \in Ids : Durable(i) = base[i]
  BY <1>2 DEF PromiseInv
<1>4. \A i \in Ids : index[i] # 0 => index[i] \in Pages
  BY LookupType
<1>5. BatchInv'
  BY <1>1 DEF BatchInv
<1>6. CacheInv'
  BY <1>1, <1>2 DEF CacheInv, Current
<1>7. PromiseInv'
  BY <1>1, <1>2, <1>3, <1>4 DEF PromiseInv, Durable, Current
<1> QED
  BY <1>5, <1>6, <1>7

LEMMA FlushData ==
  ASSUME BatchInv, CacheInv, PromiseInv, Flush \/ UNCHANGED vars
  PROVE  BatchInv' /\ CacheInv' /\ PromiseInv'
<1>1. /\ UNCHANGED <<disk, index, cache, dirty, nodeCache, batch, guard>>
      /\ UNCHANGED <<promised, base, mixed>>
  BY DEF Flush, memVars, histVars, vars
<1> QED
  BY <1>1 DEF BatchInv, CacheInv, PromiseInv, Durable, Current

\* Opening leaves nothing but the file: the promises must be what it has.
LEMMA OpenedData ==
  ASSUME Opened, base' = promised',
         \A i \in Ids : index'[i] \in {0} \cup Pages /\ promised'[i] = Durable(i)'
  PROVE  BatchInv' /\ CacheInv' /\ PromiseInv'
<1>1. /\ guard' = "none" /\ mixed' = FALSE
      /\ \A p \in Pages : cache'[p] = Absent /\ dirty'[p] = Absent
      /\ \A i \in Ids : nodeCache'[i] = Absent
  BY DEF Opened, None
<1>2. BatchInv'
  BY <1>1 DEF BatchInv
<1>3. CacheInv'
  BY <1>1 DEF CacheInv, Current
<1>4. PromiseInv'
  BY <1>1 DEF PromiseInv, Durable, Current
<1> QED
  BY <1>2, <1>3, <1>4

LEMMA CloseData ==
  ASSUME NodeTypes, BatchInv, CacheInv, PromiseInv, CloseAndOpen, Untouched'
  PROVE  BatchInv' /\ CacheInv' /\ PromiseInv'
<1>1. /\ Opened /\ guard = "none"
      /\ UNCHANGED <<disk, index, promised, base>>
  BY DEF CloseAndOpen
<1>2. ~mixed
  BY EventsStay DEF CloseAndOpen, If
<1>3. base = promised /\ \A i \in Ids : Durable(i) = base[i]
  BY <1>1, <1>2 DEF BatchInv, PromiseInv
<1>4. base' = promised' /\ \A i \in Ids : promised'[i] = Durable(i)'
  BY <1>1, <1>3 DEF Durable
<1>5. \A i \in Ids : index'[i] \in {0} \cup Pages
  BY <1>1 DEF NodeTypes, TypeOK
<1> QED
  BY <1>1, <1>4, <1>5, OpenedData

LEMMA CrashData ==
  ASSUME NodeTypes, NEW files, CrashLeaves(files)
  PROVE  BatchInv' /\ CacheInv' /\ PromiseInv'
<1>1. /\ base' = promised'
      /\ \A i \in Ids : promised'[i] =
           IF index'[i] = 0 THEN Absent ELSE Find(disk'[index'[i]], i)
  BY SurvivedTypes DEF CrashLeaves, NodeTypes, TypeOK
<1>2. \A i \in Ids : promised'[i] = Durable(i)'
  BY <1>1 DEF Durable
<1>3. \A i \in Ids : index'[i] \in {0} \cup Pages
  BY DEF CrashLeaves
<1> QED
  BY <1>1, <1>2, <1>3, OpenedData DEF CrashLeaves

\* What excuses a reader stays in the history.
LEMMA HistoryGrows ==
  ASSUME [Next]_vars
  PROVE  events \subseteq events'
BY DEF Next, vars, histVars, InsertNode, BatchInsertNode, InsertInner, InsertCut, GetNode,
   BatchInsertEdge, DeleteEntity, DeleteCut, UpdateNode, BeginBatch, CommitBatch, RollBack,
   Flush, CloseAndOpen, CrashAndOpen, Survived

LEMMA StaysUntouched ==
  ASSUME [Next]_vars, Untouched'
  PROVE  Untouched
BY HistoryGrows DEF Untouched, Without

LEMMA DataStep ==
  ASSUME NodeTypes, DataInv, [Next]_vars
  PROVE  DataInv'
<1> SUFFICES ASSUME Untouched' PROVE BatchInv' /\ CacheInv' /\ PromiseInv'
  BY DEF DataInv
<1>1. BatchInv /\ CacheInv /\ PromiseInv
  BY StaysUntouched DEF DataInv
<1>2. ASSUME NEW p \in Pages, NEW new \in BOOLEAN, NEW v \in Payloads,
             InsertNode(p, new, v) \/ BatchInsertNode(p, new, v)
      PROVE  BatchInv' /\ CacheInv' /\ PromiseInv'
  BY <1>1, <1>2, InsertData
<1>3. ASSUME NEW id \in Ids, GetNode(id) \/ BatchInsertEdge(id) \/ DeleteEntity(id)
      PROVE  BatchInv' /\ CacheInv' /\ PromiseInv'
  BY <1>1, <1>3, ReadData, DeleteData
<1>4. ASSUME NEW id \in Ids, NEW v \in Payloads, UpdateNode(id, v)
      PROVE  BatchInv' /\ CacheInv' /\ PromiseInv'
  BY <1>1, <1>4, UpdateData
<1>5. ASSUME BeginBatch \/ CommitBatch \/ RollBack
      PROVE  BatchInv' /\ CacheInv' /\ PromiseInv'
  BY <1>1, <1>5, BeginData, CommitData, RollBackData
<1>6. ASSUME Flush \/ CloseAndOpen \/ UNCHANGED vars
      PROVE  BatchInv' /\ CacheInv' /\ PromiseInv'
  BY <1>1, <1>6, FlushData, CloseData
<1>7. ASSUME \/ \E P \in SUBSET Staged : CrashAndOpen(P)
             \/ \E id \in Ids : DeleteCut(id)
             \/ \E p \in Pages, new \in BOOLEAN, v \in Payloads, indexed \in BOOLEAN :
                  InsertCut(p, new, v, indexed)
      PROVE  BatchInv' /\ CacheInv' /\ PromiseInv'
  BY <1>7, CrashData, CrashAndOpenLeaves, DeleteCutLeaves, InsertCutLeaves
<1> QED
  BY <1>2, <1>3, <1>4, <1>5, <1>6, <1>7 DEF Next

LEMMA DataInvariant == Spec => [](NodeTypes /\ DataInv)
<1>1. Init => DataInv
  BY DataInit DEF DataInv
<1>2. NodeTypes /\ DataInv /\ [Next]_vars => DataInv'
  BY DataStep
<1> QED
  BY <1>1, <1>2, TypesInvariant, PTL DEF Spec

\* get_node returns what the last call about the node made of it, from whichever
\* of node_cache, the staged page, page_cache and the file it is read, across
\* batches, commits, rollbacks, evictions, closes and crashes, with the four
\* excuses that ReadsAreRight names.
THEOREM EveryReadIsRight == Spec => []ReadsAreRight
<1>1. NodeTypes /\ DataInv => ReadsAreRight
  BY LookupIsPromised DEF DataInv, Untouched, ReadsAreRight
<1> QED
  BY <1>1, DataInvariant, PTL

\* The file never has anything of an open batch (commit_batch writes its pages,
\* insert_node stages them) and has everything that was committed.
THEOREM CommittedSurvives == Spec => []CommittedIsInFile
<1>1. NodeTypes /\ DataInv => CommittedIsInFile
  BY DEF DataInv, Untouched, PromiseInv, CommittedIsInFile
<1> QED
  BY <1>1, DataInvariant, PTL

-----------------------------------------------------------------------------
(* The count in the header *)

Known == {i \in Ids : promised[i] # Absent}

\* What makes header.node_count differ from the number of nodes.
Miscounting == {"reused", "overwritten", "phantom", "lost", "rolledBack", "missed", "cut"}

\* The header in the file lags behind the one in memory only while a batch has
\* nodes.  Without any event nodes are numbered from 1 without a gap, and the
\* next id is the one after them, or 1 again after the database was opened.
CountInv ==
  /\ Without(Miscounting) =>
       /\ count = Cardinality(Known)
       /\ guard # "nodes" => diskCount = count
  /\ Without(Events) =>
       /\ count <= MaxId
       /\ nextId \in {1, count + 1}
       /\ \A i \in Ids : promised[i] # Absent <=> i <= count

LEMMA KnownIsFinite == IsFiniteSet(Known)
<1>1. IsFiniteSet(1..MaxId)
  BY NodeAssumption, FS_Interval
<1> QED
  BY <1>1, FS_Subset DEF Known, Ids

LEMMA CountInit == Init => CountInv
<1> SUFFICES ASSUME Init PROVE CountInv
  OBVIOUS
<1>1. \A i \in Ids : promised[i] = Absent
  BY DEF Init, None
<1>2. Known = {}
  BY <1>1 DEF Known
<1>3. count = Cardinality(Known) /\ diskCount = count
  BY <1>2, FS_EmptySet DEF Init
<1>4. count <= MaxId /\ nextId \in {1, count + 1} /\ \A i \in Ids : promised[i] # Absent <=> i <= count
  BY <1>1, NodeAssumption DEF Init, Ids
<1> QED
  BY <1>3, <1>4 DEF CountInv

\* A history without an event had none before, and was not miscounted.
LEMMA WithoutEvents ==
  ASSUME [Next]_vars
  PROVE  /\ Without(Miscounting)' => Without(Miscounting)
         /\ Without(Events)' => Without(Events) /\ Without(Miscounting)'
         /\ Without(Miscounting)' => Untouched'
BY HistoryGrows DEF Without, Miscounting, Events, Untouched

\* A call after which the same ids have nodes and the counts agree.
LEMMA SameCount ==
  ASSUME CountInv, [Next]_vars,
         Without(Miscounting)' =>
           /\ \A i \in Ids : promised'[i] # Absent <=> promised[i] # Absent
           /\ count' = count
           /\ guard' # "nodes" => diskCount' = count'
           /\ nextId' \in {1, nextId}
  PROVE  CountInv'
<1> SUFFICES ASSUME Without(Miscounting)' PROVE CountInv'
  BY WithoutEvents DEF CountInv
<1>1. Known' = Known
  BY DEF Known
<1> QED
  BY <1>1, WithoutEvents DEF CountInv

LEMMA InsertCount ==
  ASSUME NodeTypes, DataInv, CountInv, NEW p \in Pages, NEW new \in BOOLEAN, NEW v \in Payloads,
         InsertNode(p, new, v) \/ BatchInsertNode(p, new, v), Next
  PROVE  CountInv'
<1> SUFFICES ASSUME Without(Miscounting)' PROVE CountInv'
  BY WithoutEvents DEF CountInv
<1>1. /\ Without(Miscounting) /\ Untouched' /\ Untouched
      /\ InsertInner(p, new, v)
  BY WithoutEvents, StaysUntouched DEF InsertNode, BatchInsertNode
<1>2. nextId \in Ids
  BY <1>1, NodeAssumption DEF InsertInner, NodeTypes, TypeOK, Ids
<1>3. ~Recorded(nextId)
  BY <1>1, EventsStay DEF InsertInner, If, Untouched, Without
<1>4. promised[nextId] = Absent
  <2>1. index[nextId] # 0 => index[nextId] \in Pages /\ disk[index[nextId]] # Absent
    BY <1>2, LookupType
  <2>2. index[nextId] # 0 => Find(Current(index[nextId]), nextId) = Absent
    BY <1>3, <2>1 DEF Recorded, Current
  <2> QED
    BY <1>1, <1>2, <2>2 DEF DataInv, PromiseInv
<1>5. /\ \A i \in Ids : promised'[i] = IF i = nextId THEN v ELSE promised[i]
      /\ count' = count + 1 /\ nextId' = nextId + 1
      /\ guard' # "nodes" => diskCount' = count'
      /\ v # Absent
      /\ count \in Nat
  BY <1>1, NodeAssumption DEF InsertInner, InsertNode, BatchInsertNode, NodeTypes, TypeOK
<1>6. Known' = Known \cup {nextId} /\ nextId \notin Known
  BY <1>2, <1>4, <1>5 DEF Known
<1>7. count' = Cardinality(Known')
  BY <1>1, <1>5, <1>6, KnownIsFinite, FS_AddElement DEF CountInv
<1>8. ASSUME Without(Events)
      PROVE  /\ count' <= MaxId
             /\ nextId' = count' + 1
             /\ \A i \in Ids : promised'[i] # Absent <=> i <= count'
  <2>1. nextId \in {1, count + 1} /\ \A i \in Ids : promised[i] # Absent <=> i <= count
    BY <1>8 DEF CountInv
  <2>2. nextId = count + 1
    BY <1>2, <1>4, <1>5, <2>1 DEF Ids
  <2> QED
    BY <1>2, <1>5, <2>1, <2>2, NodeAssumption DEF Ids
<1> QED
  BY <1>5, <1>7, <1>8, WithoutEvents DEF CountInv

LEMMA DeleteCount ==
  ASSUME NodeTypes, DataInv, CountInv, NEW id \in Ids, DeleteEntity(id), Next
  PROVE  CountInv'
<1>1. ~Without(Events)'
  BY DEF DeleteEntity, Without, Events
<1> SUFFICES ASSUME Without(Miscounting)' PROVE CountInv'
  BY <1>1 DEF CountInv
<1>2. Without(Miscounting) /\ Untouched
  BY WithoutEvents, StaysUntouched
<1>3. Lookup(id) # Absent
  BY DEF DeleteEntity, If, Without, Miscounting
<1>4. promised[id] # Absent
  BY <1>2, <1>3, LookupIsPromised DEF DataInv
<1>5. Known' = Known \ {id} /\ id \in Known
  BY <1>4 DEF DeleteEntity, NodeTypes, TypeOK, Known
<1>6. /\ Cardinality(Known \ {id}) = Cardinality(Known) - 1
      /\ Cardinality(Known) \in Nat /\ Cardinality(Known \ {id}) \in Nat
  BY <1>5, KnownIsFinite, FS_RemoveElement, FS_CardinalityType
<1>7. count' = Cardinality(Known') /\ diskCount' = count'
  BY <1>2, <1>5, <1>6 DEF CountInv, DeleteEntity, LessOne, HeaderFlushed
<1> QED
  BY <1>1, <1>7 DEF CountInv

\* What the file and the header in it have is what a crash between two calls
\* leaves, and outside a batch with nodes that is everything.
LEMMA CrashCount ==
  ASSUME NodeTypes, DataInv, CountInv, NEW P \in SUBSET Staged, CrashAndOpen(P), Next
  PROVE  CountInv'
<1> SUFFICES ASSUME Without(Miscounting)'
             PROVE  /\ \A i \in Ids : promised'[i] = promised[i]
                    /\ count' = count
                    /\ diskCount' = count'
                    /\ nextId' = 1
  BY SameCount
<1>1. Without(Miscounting) /\ Untouched
  BY WithoutEvents, StaysUntouched
<1>2. guard # "nodes" /\ ~mixed
  BY DEF CrashAndOpen, Survived, If, Without, Miscounting
<1>3. P = {} /\ \A p \in Pages : disk'[p] = disk[p]
  BY <1>2 DEF CrashAndOpen, Written
<1>4. \A i \in Ids : index[i] # 0 => index[i] \in Pages
  BY LookupType
<1>5. \A i \in Ids : promised'[i] = Durable(i)
  BY <1>3, <1>4 DEF CrashAndOpen, Survived, Durable
<1>6. \A i \in Ids : Durable(i) = base[i] /\ base = promised
  BY <1>1, <1>2 DEF DataInv, BatchInv, PromiseInv
<1>7. diskCount = count
  BY <1>1, <1>2 DEF CountInv
<1> QED
  BY <1>5, <1>6, <1>7 DEF CrashAndOpen, Opened

LEMMA CountStep ==
  ASSUME NodeTypes, DataInv, CountInv, [Next]_vars
  PROVE  CountInv'
<1>1. ASSUME NEW p \in Pages, NEW new \in BOOLEAN, NEW v \in Payloads, Next,
             InsertNode(p, new, v) \/ BatchInsertNode(p, new, v)
      PROVE  CountInv'
  BY <1>1, InsertCount
<1>2. ASSUME NEW id \in Ids, GetNode(id) \/ BatchInsertEdge(id)
      PROVE  CountInv'
  BY <1>2, SameCount, WithoutEvents DEF GetNode, BatchInsertEdge, fileVars, histVars, CountInv
<1>3. ASSUME NEW id \in Ids, NEW v \in Payloads, UpdateNode(id, v)
      PROVE  CountInv'
  <2> SUFFICES ASSUME Without(Miscounting)'
               PROVE  /\ \A i \in Ids : promised'[i] # Absent <=> promised[i] # Absent
                      /\ count' = count /\ diskCount' = count' /\ nextId' = nextId
    BY SameCount
  <2>1. Untouched
    BY WithoutEvents, StaysUntouched
  <2>2. promised[id] # Absent
    BY <1>3, <2>1, LookupIsPromised DEF UpdateNode, DataInv
  <2>3. v # Absent
    BY NodeAssumption
  <2> QED
    BY <1>3, <2>2, <2>3 DEF UpdateNode, HeaderFlushed, NodeTypes, TypeOK
<1>4. ASSUME NEW id \in Ids, DeleteEntity(id), Next
      PROVE  CountInv'
  BY <1>4, DeleteCount
<1>5. CASE BeginBatch
  BY <1>5, SameCount, WithoutEvents DEF BeginBatch, fileVars, CountInv
<1>6. CASE CommitBatch
  BY <1>6, SameCount, WithoutEvents DEF CommitBatch, CountInv
<1>7. CASE RollBack
  <2> SUFFICES ASSUME Without(Miscounting)'
               PROVE  /\ promised' = promised
                      /\ count' = count /\ diskCount' = count' /\ nextId' = nextId
    BY SameCount
  <2>1. Without(Miscounting) /\ Untouched
    BY WithoutEvents, StaysUntouched
  <2>2. guard # "nodes"
    BY <1>7 DEF RollBack, If, Without, Miscounting
  <2> QED
    BY <1>7, <2>1, <2>2 DEF RollBack, fileVars, DataInv, BatchInv, CountInv
<1>8. CASE Flush \/ CloseAndOpen \/ UNCHANGED vars
  BY <1>8, SameCount, WithoutEvents
  DEF Flush, CloseAndOpen, Opened, vars, memVars, histVars, CountInv
<1>9. ASSUME NEW P \in SUBSET Staged, CrashAndOpen(P), Next
      PROVE  CountInv'
  BY <1>9, CrashCount
<1>10. ASSUME \/ \E id \in Ids : DeleteCut(id)
              \/ \E p \in Pages, new \in BOOLEAN, v \in Payloads, indexed \in BOOLEAN :
                   InsertCut(p, new, v, indexed)
       PROVE  CountInv'
  <2>1. "cut" \in events'
    BY <1>10 DEF DeleteCut, InsertCut, Survived
  <2> QED
    BY <2>1 DEF CountInv, Without, Miscounting, Events
<1> QED
  BY <1>1, <1>2, <1>3, <1>4, <1>5, <1>6, <1>7, <1>8, <1>9, <1>10 DEF Next

\* node_count in the header is the number of nodes, and entity_ids, which lists
\* the ids up to it, returns every node, whatever was inserted, updated,
\* committed, flushed or reopened, with the excuses CountIsRight names.
THEOREM CountStaysRight == Spec => []CountIsRight
<1>1. Init => CountInv
  BY CountInit
<1>2. NodeTypes /\ DataInv /\ CountInv /\ [Next]_vars => CountInv'
  BY CountStep
<1>3. NodeTypes /\ DataInv /\ CountInv => CountIsRight
  <2> SUFFICES ASSUME NodeTypes, DataInv, CountInv PROVE CountIsRight
    OBVIOUS
  <2>1. Without(Miscounting) => count = Cardinality({i \in Ids : promised[i] # Absent})
    BY DEF CountInv, Known
  <2>2. ASSUME Without(Events)
        PROVE  EntityIds = {i \in Ids : promised[i] # Absent}
    <3>1. Untouched
      BY <2>2 DEF Without, Events, Untouched
    <3>2. \A i \in Ids : Read(i) = promised[i]
      BY <3>1, LookupIsPromised DEF DataInv
    <3>3. \A i \in Ids : promised[i] # Absent <=> i <= count
      BY <2>2 DEF CountInv
    <3>4. count \in Nat
      BY DEF NodeTypes, TypeOK
    <3> QED
      BY <3>2, <3>3, <3>4, NodeAssumption DEF EntityIds, Ids
  <2> QED
    BY <2>1, <2>2 DEF CountIsRight, Miscounting
<1> QED
  BY <1>1, <1>2, <1>3, DataInvariant, PTL DEF Spec
=============================================================================
