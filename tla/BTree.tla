-------------------------------- MODULE BTree ---------------------------------
(***************************************************************************)
(* The B+tree of the V3 engine (node id -> page, and node and direction -> *)
(* page of edges): insertion that splits full pages on the way down, as    *)
(* the page writes it consists of; deletion, which never merges; lookup,   *)
(* which follows the leaf chain; a header that learns of a new root late;  *)
(* and crashes between any two page writes.                                *)
(*                                                                         *)
(* A manager is used under a lock, so nothing but a crash comes between    *)
(* the steps of an insert.  Pages are written through to disk and synced   *)
(* one by one, each atomically; the page cache therefore never shows       *)
(* anything else than the disk and is left out.  The allocator is taken to *)
(* keep its promise (PagePool) and not to fail.                            *)
(*                                                                         *)
(* The sorted arrays of a page are functions: the entries of a leaf lead   *)
(* from keys to values, the children of an internal page from separators   *)
(* to pages.  A child stands under the least key its separators allow, the *)
(* first one under 0, the least key there is; so what the code finds by    *)
(* position is found here by order.                                        *)
(***************************************************************************)
EXTENDS Integers, Sequences, FiniteSets, SequencesExt, Functions

CONSTANTS
  MaxKey,        \* the greatest key, u64::MAX in the code
  Values,        \* page numbers stored under keys
  None,          \* no value
  Cap,           \* MAX_KEYS and MAX_ENTRIES
  LastIndexPage, \* bound: inserts stop when pages may run out
  MaxUpdates,    \* bound on the inserts and deletes
  MaxCrashes     \* bound on the crashes

ASSUME BTreeAssumption ==
  /\ MaxKey \in Nat
  /\ None \notin Values
  /\ Cap \in Nat /\ Cap >= 2
  /\ LastIndexPage \in Nat
  /\ MaxUpdates \in Nat
  /\ MaxCrashes \in Nat

VARIABLES
  disk,     \* the index pages
  root,     \* root_page_id, 0 if the tree is empty
  height,   \* tree_height
  hdr,      \* root and height in the file header
  nextPage, \* the page the allocator hands out next
  op,       \* the insert under way: [key, value, at, newRoot], or NoOp
  writes,   \* its page writes still to be made, each <<page number, page>>
  content,  \* history: what the completed inserts and deletes amount to
  events,   \* history: events that excuse what a lookup returns
  updates, crashes  \* counters behind MaxUpdates and MaxCrashes

treeVars == <<disk, root, height, hdr, nextPage, op, writes, content, events,
              updates, crashes>>

-----------------------------------------------------------------------------
(* Pages *)

Keys == 0..MaxKey
PageIds == 1..LastIndexPage

Leaf(entries, next) == [kind |-> "leaf", entries |-> entries, next |-> next]
Internal(children) == [kind |-> "internal", children |-> children]
Unwritten == [kind |-> "unwritten"]

IsLeaf(p) == disk[p].kind = "leaf"
KeysOf(p) == DOMAIN disk[p].entries

\* key_count: the entries of a leaf, the separators of an internal page.
Size(page) == IF page.kind = "leaf" THEN Cardinality(DOMAIN page.entries)
              ELSE Cardinality(DOMAIN page.children) - 1

\* needs_split_leaf, needs_split_internal
Full(page) == Size(page) >= Cap

NoOp == [key |-> 0, value |-> None, at |-> 0, newRoot |-> 0]
Events == {
  "deleted",   \* an entry was removed
  "torn",      \* a crash after the first of the three page writes of a split
  "chained",   \* a crash that leaves leaves to be found by the leaf chain only
  "undeleted"} \* a delete that left the key in a leaf further along the chain
If(condition, event) == IF condition THEN {event} ELSE {}

IsLeafPage(page) ==
  \E K \in SUBSET Keys : \E e \in [K -> Values], n \in 0..LastIndexPage :
    page = Leaf(e, n) /\ Size(page) <= Cap
IsInternalPage(page) ==
  \E K \in SUBSET Keys : \E c \in [K \cup {0} -> PageIds] :
    page = Internal(c) /\ Size(page) <= Cap
IsPage(page) == page = Unwritten \/ IsLeafPage(page) \/ IsInternalPage(page)

TreeTypeOK ==
  /\ DOMAIN disk = PageIds
  /\ \A p \in PageIds : IsPage(disk[p])
  /\ root \in 0..LastIndexPage
  /\ height \in Nat
  /\ hdr.root \in 0..LastIndexPage
  /\ nextPage \in 1..(LastIndexPage + 1)
  /\ Len(writes) <= 3
  /\ \A i \in 1..Len(writes) : writes[i][1] \in PageIds /\ IsPage(writes[i][2])
  /\ content \in [Keys -> Values \cup {None}]
  /\ events \subseteq Events

TreeInit ==
  /\ disk = [p \in PageIds |-> Unwritten]
  /\ root = 0
  /\ height = 0
  /\ hdr = [root |-> 0, height |-> 0]
  /\ nextPage = 1
  /\ op = NoOp
  /\ writes = <<>>
  /\ content = [k \in Keys |-> None]
  /\ events = {}
  /\ updates = 0
  /\ crashes = 0

-----------------------------------------------------------------------------
(* Reading *)

\* Mutant: a key equal to a separator is looked for on its left.
SlotOf_Left(page, k) ==
  CHOOSE b \in DOMAIN page.children :
    /\ b < k \/ b = 0
    /\ \A c \in DOMAIN page.children : c < k => c <= b

\* find_child_index: the greatest separator that is not above the key.
SlotOf(page, k) ==
  CHOOSE b \in DOMAIN page.children :
    /\ b <= k
    /\ \A c \in DOMAIN page.children : c <= k => c <= b
ChildOf(page, k) == page.children[SlotOf(page, k)]

\* find_leaf: the leaf the separators lead to, 0 if they lead to no page.  No
\* descent and no walk along the chain is longer than there are pages.
StepDown(p, k) == IF p # 0 /\ disk[p].kind = "internal" THEN ChildOf(disk[p], k) ELSE p
FindLeaf(k) ==
  LET at[n \in 0..nextPage] == IF n = 0 THEN root ELSE StepDown(at[n - 1], k)
  IN at[nextPage]

\* The value the leaf chain from page p on has for a key.
HasKey(p, k) == p # 0 /\ IsLeaf(p) /\ k \in KeysOf(p)
StepOn(p, k) == IF p # 0 /\ IsLeaf(p) /\ ~HasKey(p, k) THEN disk[p].next ELSE p
FoundFrom(p, k) ==
  LET at[n \in 0..nextPage] == IF n = 0 THEN p ELSE StepOn(at[n - 1], k)
  IN IF HasKey(at[nextPage], k) THEN disk[at[nextPage]].entries[k] ELSE None

\* lookup: from the leaf of the key along the chain until a leaf has it.
Lookup(k) == FoundFrom(FindLeaf(k), k)

-----------------------------------------------------------------------------
(* Splitting *)

Smallest(S, n) == CHOOSE T \in SUBSET S :
                    /\ Cardinality(T) = n
                    /\ \A x \in T, y \in S \ T : x < y
LowestOf(S) == CHOOSE x \in S : \A y \in S : x <= y

\* How many entries of a full leaf stay, how many keys of a full internal page.
LeafSplit(n) == n \div 2

InternalSplit(n) == (n - 1) \div 2

\* Mutant: the sibling does not take over the rest of the chain.
LeafHalves_EndChain(page, sibling) ==
  LET low  == Smallest(DOMAIN page.entries, LeafSplit(Size(page)))
      high == DOMAIN page.entries \ low
  IN [low  |-> Leaf(Restrict(page.entries, low), sibling),
      high |-> Leaf(Restrict(page.entries, high), 0),
      separator |-> LowestOf(high)]

\* The two halves of a full page and the key that separates them: of a leaf, the
\* lower half stays in place and is chained to its sibling ...
LeafHalves(page, sibling) ==
  LET low  == Smallest(DOMAIN page.entries, LeafSplit(Size(page)))
      high == DOMAIN page.entries \ low
  IN [low  |-> Leaf(Restrict(page.entries, low), sibling),
      high |-> Leaf(Restrict(page.entries, high), page.next),
      separator |-> LowestOf(high)]

\* ... of an internal page, the separator moves up, and the child it stood for
\* becomes the first one of the sibling.
InternalHalves(page) ==
  LET low  == Smallest(DOMAIN page.children, InternalSplit(Size(page)) + 1)
      rest == DOMAIN page.children \ low
      separator == LowestOf(rest)
  IN [low  |-> Internal(Restrict(page.children, low)),
      high |-> Internal([b \in {0} \cup (rest \ {separator}) |->
                           page.children[IF b = 0 THEN separator ELSE b]]),
      separator |-> separator]

Halves(page, sibling) ==
  IF page.kind = "leaf" THEN LeafHalves(page, sibling) ELSE InternalHalves(page)

\* Mutant: the new child is put before the old one.
Adopting_Before(parent, separator, sibling) ==
  LET slot == SlotOf(parent, separator)
  IN Internal([b \in DOMAIN parent.children \cup {separator} |->
                 IF b = slot THEN sibling
                 ELSE parent.children[IF b = separator THEN slot ELSE b]])

\* The parent with the separator and the new child put in behind the old one.
Adopting(parent, separator, sibling) ==
  Internal([b \in DOMAIN parent.children \cup {separator} |->
              IF b = separator THEN sibling ELSE parent.children[b]])

\* The root above two halves.
RootOver(p, separator, sibling) ==
  Internal([b \in {0, separator} |-> IF b = separator THEN sibling ELSE p])

-----------------------------------------------------------------------------
(* Inserting *)

Idle == op = NoOp
Working(at, newRoot, key, value) ==
  op' = [key |-> key, value |-> value, at |-> at, newRoot |-> newRoot]

MayUpdate == Idle /\ updates < MaxUpdates /\ updates' = updates + 1

\* insert_into_empty_tree
InsertIntoEmptyTree(k, v) ==
  /\ MayUpdate
  /\ root = 0
  /\ nextPage <= LastIndexPage
  /\ nextPage' = nextPage + 1
  /\ disk' = [disk EXCEPT ![nextPage] = Leaf([x \in {k} |-> v], 0)]
  /\ root' = nextPage
  /\ height' = 1
  /\ content' = [content EXCEPT ![k] = v]
  /\ UNCHANGED <<hdr, op, writes, events, crashes>>

\* insert with a full root: split_root sets out to write the old root, the
\* sibling and the new root.
SplitRoot(k, v) ==
  LET newRoot == nextPage
      sibling == nextPage + 1
      halves  == Halves(disk[root], sibling)
  IN
  /\ MayUpdate
  /\ root # 0
  /\ Full(disk[root])
  /\ sibling <= LastIndexPage
  /\ nextPage' = nextPage + 2
  /\ writes' = <<<<root, halves.low>>,
                 <<sibling, halves.high>>,
                 <<newRoot, RootOver(root, halves.separator, sibling)>>>>
  /\ Working(newRoot, newRoot, k, v)
  /\ UNCHANGED <<disk, root, height, hdr, content, events, crashes>>

\* insert with room in the root.
StartAtRoot(k, v) ==
  /\ MayUpdate
  /\ root # 0
  /\ ~Full(disk[root])
  /\ Working(root, 0, k, v)
  /\ UNCHANGED <<disk, root, height, hdr, nextPage, writes, content, events, crashes>>

At == op.at
Descending == ~Idle /\ writes = <<>> /\ disk[At].kind = "internal"
ChildAt == ChildOf(disk[At], op.key)

\* insert_non_full of an internal page, the child has room.
Descend ==
  /\ Descending
  /\ ~Full(disk[ChildAt])
  /\ Working(ChildAt, 0, op.key, op.value)
  /\ UNCHANGED <<disk, root, height, hdr, nextPage, writes, content, events,
                 updates, crashes>>

\* insert_non_full of an internal page, the child is full: split_child sets out
\* to write the child, its sibling and the parent, and the insert goes on in the
\* half the key belongs to.
SplitChild ==
  LET child   == ChildAt
      sibling == nextPage
      halves  == Halves(disk[child], sibling)
  IN
  /\ Descending
  /\ Full(disk[child])
  /\ sibling <= LastIndexPage
  /\ nextPage' = nextPage + 1
  /\ writes' = <<<<child, halves.low>>,
                 <<sibling, halves.high>>,
                 <<At, Adopting(disk[At], halves.separator, sibling)>>>>
  /\ Working(IF op.key >= halves.separator THEN sibling ELSE child,
             0, op.key, op.value)
  /\ UNCHANGED <<disk, root, height, hdr, content, events, updates, crashes>>

\* Mutant: the parent is written first.
WritePage_ParentFirst ==
  /\ writes # <<>>
  /\ disk' = [disk EXCEPT ![Last(writes)[1]] = Last(writes)[2]]
  /\ writes' = Front(writes)
  /\ IF writes' = <<>> /\ op.newRoot # 0
     THEN /\ root' = op.newRoot
          /\ height' = height + 1
     ELSE UNCHANGED <<root, height>>
  /\ UNCHANGED <<hdr, nextPage, op, content, events, updates, crashes>>

\* write_page; after the last write of split_root the new root takes over.
WritePage ==
  /\ writes # <<>>
  /\ disk' = [disk EXCEPT ![Head(writes)[1]] = Head(writes)[2]]
  /\ writes' = Tail(writes)
  /\ IF writes' = <<>> /\ op.newRoot # 0
     THEN /\ root' = op.newRoot
          /\ height' = height + 1
     ELSE UNCHANGED <<root, height>>
  /\ UNCHANGED <<hdr, nextPage, op, content, events, updates, crashes>>

\* insert_non_full of a leaf: the key is updated or added.
InsertIntoLeaf ==
  LET p == At
      k == op.key
  IN
  /\ ~Idle
  /\ writes = <<>>
  /\ IsLeaf(p)
  /\ disk' = [disk EXCEPT ![p].entries =
                [x \in KeysOf(p) \cup {k} |-> IF x = k THEN op.value ELSE @[x]]]
  /\ content' = [content EXCEPT ![k] = op.value]
  /\ op' = NoOp
  /\ UNCHANGED <<root, height, hdr, nextPage, writes, events, updates, crashes>>

-----------------------------------------------------------------------------
(* Deleting, syncing, crashing *)

\* delete: the key is removed from the leaf the separators lead to.
Delete(k) ==
  LET p == FindLeaf(k)
  IN
  /\ MayUpdate
  /\ p # 0
  /\ disk' = [disk EXCEPT ![p].entries = Restrict(@, KeysOf(p) \ {k})]
  /\ content' = [content EXCEPT ![k] = None]
  /\ events' = events \cup If(k \in KeysOf(p), "deleted")
                     \cup If(FoundFrom(disk[p].next, k) # None, "undeleted")
  /\ UNCHANGED <<root, height, hdr, nextPage, op, writes, crashes>>

\* The header is synced after the insert that moved the root has returned.
SyncRoot ==
  /\ Idle
  /\ hdr' = [root |-> root, height |-> height]
  /\ UNCHANGED <<disk, root, height, nextPage, op, writes, content, events,
                 updates, crashes>>

\* What a crash does at this point: to the split under way, and to what only a
\* root that the header does not know of leads to.
CrashEvents ==
  If(Len(writes) = 2, "torn")
    \cup If(Len(writes) = 1 \/ hdr.root \notin {0, root}, "chained")

CrashAndReopen ==
  /\ crashes < MaxCrashes
  /\ crashes' = crashes + 1
  /\ root' = hdr.root
  /\ height' = hdr.height
  /\ op' = NoOp
  /\ writes' = <<>>
  /\ events' = events \cup CrashEvents
  /\ content' = IF hdr.root = 0 THEN [k \in Keys |-> None] ELSE content
  /\ UNCHANGED <<disk, hdr, nextPage, updates>>

TreeNext ==
  \/ \E k \in Keys, v \in Values : \/ InsertIntoEmptyTree(k, v)
                                   \/ SplitRoot(k, v)
                                   \/ StartAtRoot(k, v)
  \/ Descend
  \/ SplitChild
  \/ WritePage
  \/ InsertIntoLeaf
  \/ \E k \in Keys : Delete(k)
  \/ SyncRoot
  \/ CrashAndReopen

TreeSpec == TreeInit /\ [][TreeNext]_treeVars

-----------------------------------------------------------------------------
(* Properties *)

Without(excuses) == events \cap excuses = {}
CrashDamage == {"torn", "chained"}

\* lookup returns for every key what the completed inserts and deletes make of
\* it, across splits and across every crash but one: that after the first of the
\* three page writes of a split.
LookupsRight ==
  Idle /\ Without({"torn", "undeleted"}) =>
    \A k \in Keys : Lookup(k) = content[k]

\* delete, which looks at the leaf the separators lead to and at no other, leaves
\* no copy of its key behind, unless a crash has left a leaf to the chain alone.
DeletesEndLookups == "undeleted" \in events => ~Without(CrashDamage)

\* No crash ever makes a parent or the header name a page that was not written:
\* write_page is called for the parent last.
NothingDangles ==
  /\ hdr.root = 0 \/ disk[hdr.root] # Unwritten
  /\ \A p \in PageIds : disk[p].kind = "internal" =>
       \A c \in Range(disk[p].children) : disk[c] # Unwritten

\* The pages at each depth below the root.
ChildrenOf(S) == UNION {Range(disk[p].children) :
                          p \in {q \in S : disk[q].kind = "internal"}}
Depth ==
  LET depth[n \in 0..LastIndexPage] ==
        IF n = 0 THEN {root} ELSE ChildrenOf(depth[n - 1])
  IN depth

\* All leaves are at the depth tree_height says, and the chain runs through all
\* of them from left to right: next_leaf names the leaf with the next larger keys.
LevelAndChained ==
  Idle /\ root # 0 /\ Without(CrashDamage) =>
    LET leaves == Depth[height - 1]
    IN /\ \A n \in 0..(height - 2) : \A p \in Depth[n] : ~IsLeaf(p)
       /\ \A p \in leaves : IsLeaf(p) /\ disk[p].next \in leaves \cup {0}
       /\ Cardinality({p \in leaves : disk[p].next = 0}) = 1
       /\ \A p \in leaves : disk[p].next # 0 =>
            \A a \in KeysOf(p), b \in KeysOf(disk[p].next) : a < b

\* While nothing is deleted no page but the root is less than half full, whatever
\* the order of the inserts.
HalfFull ==
  Without({"deleted"} \cup CrashDamage) =>
    \A n \in 1..(height - 1) : \A p \in Depth[n] :
       Size(disk[p]) >= IF IsLeaf(p) THEN Cap \div 2 ELSE (Cap - 1) \div 2

\* No page names one that was not written, and the tree keeps the shape that
\* lookup (which follows the chain to its end) and verify_invariants (which
\* rejects pages less than half full) rely on.
WellShaped == NothingDangles /\ LevelAndChained /\ HalfFull
=============================================================================
