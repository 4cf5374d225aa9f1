---------------------------- MODULE PageAllocator -----------------------------
(***************************************************************************)
(* The V3 page allocator: the bitmap, the LIFO free list, the page count,  *)
(* the copy of the count in the file header, and what a reopen makes of    *)
(* them.  Node store, edge store and the B+trees share one allocator       *)
(* behind a lock, so each of its calls is one step.                        *)
(*                                                                         *)
(* Pages are numbered from 0, the header page.  The bitmap is the set of   *)
(* the pages it marks; how far the vector reaches cannot be observed, for  *)
(* a page beyond its end is treated as one marked free.                    *)
(***************************************************************************)
EXTENDS Naturals, Sequences, FiniteSets

CONSTANTS
  Clients,      \* the parts of the engine that own pages
  LastPage,     \* bound: no page beyond it is allocated
  MaxOpens      \* bound on the number of times the database is opened

ASSUME AllocAssumption ==
  /\ LastPage \in Nat \ {0}
  /\ MaxOpens \in Nat

VARIABLES
  bitmap,    \* pages marked allocated
  freeList,  \* stack of freed pages, top at the end
  total,     \* total_pages
  hdrTotal,  \* total_pages of the header in memory
  diskTotal, \* total_pages of the header in the file
  anchored,  \* the header in the file leads to the root of an index
  held,      \* history: the pages each client owns
  answer,    \* the last answer of the allocator: [call, page, ok]
  stale,     \* history: some open read a count below a page still in use
  opens      \* counter behind MaxOpens

vars == <<bitmap, freeList, total, hdrTotal, diskTotal, anchored, held,
          answer, stale, opens>>

-----------------------------------------------------------------------------
Pages == 0..LastPage
Free  == {freeList[i] : i \in 1..Len(freeList)}
Owned == UNION {held[c] : c \in Clients}

Calls == {"none", "allocate", "deallocate"}
Answer(call, page, ok) == [call |-> call, page |-> page, ok |-> ok]

TypeOK ==
  /\ bitmap \subseteq Pages
  /\ freeList \in Seq(Pages)
  /\ total \in 0..(LastPage + 1)
  /\ hdrTotal \in 0..(LastPage + 1)
  /\ diskTotal \in 0..(LastPage + 1)
  /\ anchored \in BOOLEAN
  /\ held \in [Clients -> SUBSET Pages]
  /\ answer \in [call : Calls, page : Pages, ok : BOOLEAN]
  /\ stale \in BOOLEAN
  /\ opens \in 0..MaxOpens

\* Mutant: opening starts to count at the first data page.
Fresh_FromStart(count) ==
  /\ bitmap' = {0, 1}
  /\ freeList' = <<>>
  /\ total' = 0

\* PageAllocator::new: only the two reserved pages are marked, nothing is free.
Fresh(count) ==
  /\ bitmap' = {0, 1}
  /\ freeList' = <<>>
  /\ total' = count

Init ==
  /\ bitmap = {0, 1}
  /\ freeList = <<>>
  /\ total = 0
  /\ hdrTotal = 0
  /\ diskTotal = 0
  /\ anchored = FALSE
  /\ held = [c \in Clients |-> {}]
  /\ answer = Answer("none", 0, TRUE)
  /\ stale = FALSE
  /\ opens = 0

\* get_page_state of a page below the page count.
Allocated(p) == p = 0 \/ p \in bitmap

\* The page an append would return.
AppendedPage == IF total < 2 THEN 2 ELSE total

-----------------------------------------------------------------------------
(* The calls *)

\* Mutant: a reused page is not marked again.
Take_Unmarked(c, p) ==
  /\ bitmap' = IF p < total THEN bitmap ELSE bitmap \cup {p}
  /\ held' = [held EXCEPT ![c] = @ \cup {p}]
  /\ answer' = Answer("allocate", p, TRUE)
  /\ UNCHANGED <<hdrTotal, diskTotal, anchored, stale, opens>>

Take(c, p) ==
  /\ bitmap' = bitmap \cup {p}
  /\ held' = [held EXCEPT ![c] = @ \cup {p}]
  /\ answer' = Answer("allocate", p, TRUE)
  /\ UNCHANGED <<hdrTotal, diskTotal, anchored, stale, opens>>

\* Mutant: the last page of the list is reused but not taken off it.
Reuse_Peeks(c) ==
  /\ freeList # <<>>
  /\ Take(c, freeList[Len(freeList)])
  /\ UNCHANGED <<freeList, total>>

\* allocate_inner with something on the free list: its last page is reused.
Reuse(c) ==
  /\ freeList # <<>>
  /\ freeList' = SubSeq(freeList, 1, Len(freeList) - 1)
  /\ Take(c, freeList[Len(freeList)])
  /\ UNCHANGED total

\* allocate_inner with an empty free list: the file grows by a page.
Grow(c) ==
  /\ freeList = <<>>
  /\ AppendedPage <= LastPage
  /\ total' = AppendedPage + 1
  /\ Take(c, AppendedPage)
  /\ UNCHANGED freeList

\* Mutant: the check for a double free forgets the bitmap.
Refuses_HeaderOnly(p) == p = 0

\* deallocate of page 0, or of a page the bitmap shows free, is an error.
Refuses(p) == p = 0 \/ p \notin bitmap

Push(p) ==
  /\ bitmap' = bitmap \ {p}
  /\ freeList' = Append(freeList, p)
  /\ answer' = Answer("deallocate", p, TRUE)
  /\ UNCHANGED <<total, hdrTotal, diskTotal, anchored, stale, opens>>

Refuse(p) ==
  /\ Refuses(p)
  /\ answer' = Answer("deallocate", p, FALSE)
  /\ UNCHANGED <<bitmap, freeList, total, hdrTotal, diskTotal, anchored, held,
                 stale, opens>>

\* An owner hands a page back.
Deallocate(c, p) ==
  /\ p \in held[c]
  /\ ~Refuses(p)
  /\ Push(p)
  /\ held' = [held EXCEPT ![c] = @ \ {p}]

\* Somebody frees a page that nobody owns: a double free, the header page, or
\* page 1, which is marked from the start and which no part of the engine uses.
StrayDeallocate(p) ==
  /\ p \notin Owned
  /\ ~Refuses(p)
  /\ Push(p)
  /\ UNCHANGED held

\* flush_to_disk copies the page count into the header ...
CopyTotal ==
  /\ hdrTotal' = total
  /\ UNCHANGED <<bitmap, freeList, total, diskTotal, anchored, held, answer,
                 stale, opens>>

\* ... which sync_header writes to the file; so do insert_node and insert_edge,
\* without the copy.
SyncHeader ==
  /\ diskTotal' = hdrTotal
  /\ anchored' = (Owned # {})
  /\ UNCHANGED <<bitmap, freeList, total, hdrTotal, held, answer, stale, opens>>

\* Drop flushes, open builds a new allocator from the header in the file.
CloseAndOpen ==
  /\ opens < MaxOpens
  /\ opens' = opens + 1
  /\ hdrTotal' = total
  /\ diskTotal' = total
  /\ anchored' = (Owned # {})
  /\ Fresh(total)
  /\ UNCHANGED <<held, answer, stale>>

\* After a crash the owners reach whatever part of their pages the header in the
\* file and the index pages, which are written in place, still lead to.
CrashAndOpen ==
  /\ opens < MaxOpens
  /\ opens' = opens + 1
  /\ hdrTotal' = diskTotal
  /\ Fresh(diskTotal)
  /\ \E kept \in SUBSET (IF anchored THEN Owned ELSE {}) :
       /\ held' = [c \in Clients |-> held[c] \cap kept]
       /\ stale' = (stale \/ \E p \in kept : p >= diskTotal)
  /\ UNCHANGED <<diskTotal, anchored, answer>>

Next ==
  \/ \E c \in Clients : Reuse(c) \/ Grow(c)
  \/ \E c \in Clients, p \in Pages : Deallocate(c, p)
  \/ \E p \in Pages : Refuse(p) \/ StrayDeallocate(p)
  \/ CopyTotal
  \/ SyncHeader
  \/ CloseAndOpen
  \/ CrashAndOpen

Spec == Init /\ [][Next]_vars

-----------------------------------------------------------------------------
(* Properties *)

\* No page belongs to two parts of the engine: what one of them writes into its
\* page is never overwritten by another.
OneOwner == \A c, d \in Clients : c # d => held[c] \cap held[d] = {}

\* A page count read too low (open, after insert_node synced a header with the
\* old count) is the only thing that can give a page to two parts: closing, and
\* crashes that find an up to date count in the header, are harmless.
OneOwnerUnlessStale == ~stale => OneOwner

\* The free list (allocate_inner pops it, deallocate pushes) never offers a
\* page twice or one that is marked in use, nor one that has an owner.
FreeListSound ==
  /\ \A i, j \in 1..Len(freeList) : freeList[i] = freeList[j] => i = j
  /\ Free \cap bitmap = {}
  /\ ~stale => Free \cap Owned = {}

\* Until the database is opened again, every page between the reserved ones and
\* the page count is in use or waits on the free list, get_page_state tells
\* which, and deallocate reports a double free only of a page that its owner no
\* longer has.  (new() forgets the free list and marks nothing: a page free at
\* close is lost, and the owner of a live one is told that freeing it is a
\* double free.)
Accounted ==
  opens = 0 =>
    /\ \A p \in 2..(total - 1) :
         \/ p \in Owned /\ p \notin Free /\ Allocated(p)
         \/ p \in Free /\ p \notin Owned /\ ~Allocated(p)
    /\ answer.call = "deallocate" /\ ~answer.ok => answer.page \notin Owned

\* The allocator is the pool of pages its callers believe it to be: a grant is
\* of a page nobody owns, and only its owner's return or a crash takes a page
\* away.  Nothing is promised once a stale count has been read.
Pool == INSTANCE PagePool
          WITH owned <- IF stale THEN [c \in Clients |-> {}] ELSE held
HandsOutUnownedPages == Pool!Spec
=============================================================================
