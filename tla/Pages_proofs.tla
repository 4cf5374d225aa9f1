----------------------------- MODULE Pages_proofs -----------------------------
(***************************************************************************)
(* Theorems about the pages of the V3 engine: about PageAllocator, for any *)
(* number of clients, pages, reopens and crashes; and about BTree, for any *)
(* number of keys, values and pages, any capacity of a page, and any       *)
(* number of updates and crashes.                                          *)
(***************************************************************************)
EXTENDS BTree, PageAllocator, SequenceTheorems, WellFoundedInduction,
        FiniteSetTheorems, TLAPS

-----------------------------------------------------------------------------
(***************************************************************************)
(* PageAllocator                                                           *)
(***************************************************************************)
\* The free list holds no page twice and none that the bitmap marks.
ListInv ==
  /\ \A i, j \in 1..Len(freeList) : freeList[i] = freeList[j] => i = j
  /\ Free \cap bitmap = {}

\* An append returns a page beyond everything marked, listed or, unless a count
\* was stale, owned.
Known == bitmap \cup Free \cup (IF stale THEN {} ELSE Owned)
Beyond == \A p \in Known : p < AppendedPage

\* What a stale count may destroy.
OwnerInv == ~stale => OneOwner /\ Free \cap Owned = {}

AllocInv == TypeOK /\ ListInv /\ Beyond /\ OwnerInv

-----------------------------------------------------------------------------
\* The image of a set with one more element.
LEMMA ImageWithOneMore ==
  ASSUME NEW f, NEW A, NEW n, NEW B, B = A \cup {n}
  PROVE  {f[i] : i \in B} = {f[i] : i \in A} \cup {f[n]}
OBVIOUS

\* Pushing a page adds it to the pages on the list.
LEMMA PushedPages ==
  ASSUME NEW S, NEW s \in Seq(S), NEW p \in S, NEW t, t = Append(s, p)
  PROVE  /\ t \in Seq(S)
         /\ {t[i] : i \in 1..Len(t)} = {s[i] : i \in 1..Len(s)} \cup {p}
         /\ Len(t) = Len(s) + 1
         /\ t[Len(t)] = p
         /\ \A i \in 1..Len(s) : t[i] = s[i]
<1>1. /\ t \in Seq(S)
      /\ Len(t) = Len(s) + 1
      /\ t[Len(t)] = p
      /\ \A i \in 1..Len(s) : t[i] = s[i]
  OBVIOUS
<1>2. 1..Len(t) = (1..Len(s)) \cup {Len(t)}
  BY <1>1
<1> QED
  BY <1>1, <1>2

\* Popping a list without duplicates removes its last page and no other.
LEMMA PoppedPages ==
  ASSUME NEW S, NEW s \in Seq(S), s # <<>>,
         \A i, j \in 1..Len(s) : s[i] = s[j] => i = j,
         NEW t, t = SubSeq(s, 1, Len(s) - 1)
  PROVE  /\ t \in Seq(S)
         /\ s[Len(s)] \in S
         /\ s[Len(s)] \in {s[i] : i \in 1..Len(s)}
         /\ {t[i] : i \in 1..Len(t)} = {s[i] : i \in 1..Len(s)} \ {s[Len(s)]}
         /\ \A i, j \in 1..Len(t) : t[i] = t[j] => i = j
<1>1. /\ Len(s) \in Nat \ {0}
      /\ s \in [1..Len(s) -> S]
  BY LenProperties, EmptySeq
<1>2. /\ t \in Seq(S)
      /\ Len(t) = Len(s) - 1
      /\ \A i \in 1..Len(t) : t[i] = s[i]
  <2> DEFINE m == Len(s) - 1
  <2>1. m \in Nat
    BY <1>1
  <2>2. \A i \in 1..m : s[i] \in S
    BY <1>1
  <2> HIDE DEF m
  <2>3. /\ SubSeq(s, 1, m) \in Seq(S)
        /\ Len(SubSeq(s, 1, m)) = IF 1 <= m THEN m - 1 + 1 ELSE 0
        /\ \A i \in 1..(m - 1 + 1) : SubSeq(s, 1, m)[i] = s[1 + i - 1]
    BY <2>1, <2>2, SubSeqProperties, Z3
  <2>4. (IF 1 <= m THEN m - 1 + 1 ELSE 0) = m /\ m - 1 + 1 = m
    BY <2>1
  <2>5. \A i \in 1..m : 1 + i - 1 = i
    BY <2>1
  <2>6. t = SubSeq(s, 1, m)
    BY DEF m
  <2> QED
    BY <2>1, <2>3, <2>4, <2>5, <2>6 DEF m
<1>3. 1..Len(s) = (1..Len(t)) \cup {Len(s)} /\ Len(s) \notin 1..Len(t)
  BY <1>1, <1>2
<1>4. \A i \in 1..Len(t) : i \in 1..Len(s) /\ i # Len(s)
  BY <1>3
<1>5. {t[i] : i \in 1..Len(t)} = {s[i] : i \in 1..Len(s)} \ {s[Len(s)]}
  <2>1. {t[i] : i \in 1..Len(t)} = {s[i] : i \in 1..Len(t)}
    BY <1>2
  <2>2. {s[i] : i \in 1..Len(s)} = {s[i] : i \in 1..Len(t)} \cup {s[Len(s)]}
    <3>1. 1..Len(s) = (1..Len(t)) \cup {Len(s)}
      BY <1>3
    <3> QED
      BY <3>1, ImageWithOneMore
  <2>3. ASSUME NEW i \in 1..Len(t) PROVE s[i] # s[Len(s)]
    <3>1. i \in 1..Len(s) /\ i # Len(s)
      BY <1>4, Zenon
    <3>2. Len(s) \in 1..Len(s)
      BY <1>1
    <3> QED
      BY <3>1, <3>2, Zenon
  <2> QED
    BY <2>1, <2>2, <2>3
<1>6. \A i, j \in 1..Len(t) : t[i] = t[j] => i = j
  BY <1>2, <1>4
<1>7. /\ s[Len(s)] \in S
      /\ s[Len(s)] \in {s[i] : i \in 1..Len(s)}
  BY <1>1, <1>3
<1> QED
  BY <1>2, <1>5, <1>6, <1>7

\* Taking a page adds it to what its taker owns.
LEMMA TakenPages ==
  ASSUME NEW c \in Clients, NEW p \in Pages, held \in [Clients -> SUBSET Pages],
         held' = [held EXCEPT ![c] = @ \cup {p}]
  PROVE  /\ held' \in [Clients -> SUBSET Pages]
         /\ Owned' = Owned \cup {p}
         /\ held'[c] = held[c] \cup {p}
         /\ \A d \in Clients : d # c => held'[d] = held[d]
<1>1. /\ held' \in [Clients -> SUBSET Pages]
      /\ held'[c] = held[c] \cup {p}
      /\ \A d \in Clients : d # c => held'[d] = held[d]
  OBVIOUS
<1> QED
  BY <1>1 DEF Owned

\* Handing a page back takes it from its owner.
LEMMA ReturnedPages ==
  ASSUME NEW c \in Clients, NEW p \in Pages, held \in [Clients -> SUBSET Pages],
         held' = [held EXCEPT ![c] = @ \ {p}]
  PROVE  /\ held' \in [Clients -> SUBSET Pages]
         /\ Owned' \subseteq Owned
         /\ OneOwner /\ p \in held[c] => OneOwner' /\ p \notin Owned'
<1>1. /\ held' \in [Clients -> SUBSET Pages]
      /\ held'[c] = held[c] \ {p}
      /\ \A d \in Clients : d # c => held'[d] = held[d]
  OBVIOUS
<1>2. Owned' \subseteq Owned
  BY <1>1 DEF Owned
<1>3. ASSUME OneOwner, p \in held[c]
      PROVE  OneOwner' /\ p \notin Owned'
  <2>1. OneOwner'
    BY <1>1, <1>3 DEF OneOwner
  <2>2. \A d \in Clients : p \notin held'[d]
    BY <1>1, <1>3 DEF OneOwner
  <2> QED
    BY <2>1, <2>2 DEF Owned
<1> QED
  BY <1>1, <1>2, <1>3

\* What is on the list and what is owned are pages.
LEMMA ListedAndOwnedArePages ==
  ASSUME TypeOK
  PROVE  Free \subseteq Pages /\ Owned \subseteq Pages
<1>1. Free \subseteq Pages
  BY DEF TypeOK, Free
<1>2. Owned \subseteq Pages
  BY DEF TypeOK, Owned
<1> QED
  BY <1>1, <1>2

-----------------------------------------------------------------------------
(* The invariant *)

\* In the initial states nothing is owned and nothing is free.
LEMMA InitAlloc == Init => AllocInv
<1> SUFFICES ASSUME Init PROVE AllocInv
  OBVIOUS
<1>1. freeList = <<>> /\ Len(freeList) = 0 /\ Free = {}
  BY DEF Init, Free
<1>2. Owned = {}
  BY DEF Init, Owned
<1>3. TypeOK
  <2>1. freeList \in Seq(Pages)
    BY <1>1
  <2>2. /\ 0 \in Pages /\ 1 \in Pages
        /\ 0 \in 0..(LastPage + 1) /\ 0 \in 0..MaxOpens
    BY AllocAssumption DEF Pages
  <2> QED
    BY <2>1, <2>2 DEF Init, TypeOK, Answer, Calls
<1>4. ListInv /\ OwnerInv
  BY <1>1, <1>2 DEF Init, ListInv, OwnerInv, OneOwner
<1>5. Beyond
  BY <1>1, <1>2 DEF Init, Beyond, Known, AppendedPage
<1> QED
  BY <1>3, <1>4, <1>5 DEF AllocInv

\* What a client that is given page p does to the invariant.
LEMMA TakeKeeps ==
  ASSUME AllocInv, NEW c \in Clients, NEW p \in Pages, Take(c, p),
         ~stale => p \notin Owned, p \notin Free',
         freeList' \in Seq(Pages), Free' \subseteq Free,
         \A i, j \in 1..Len(freeList') : freeList'[i] = freeList'[j] => i = j,
         total' \in 0..(LastPage + 1), AppendedPage <= AppendedPage',
         p < AppendedPage'
  PROVE  AllocInv'
<1> USE DEF AllocInv
<1>1. /\ held' \in [Clients -> SUBSET Pages]
      /\ Owned' = Owned \cup {p}
      /\ held'[c] = held[c] \cup {p}
      /\ \A d \in Clients : d # c => held'[d] = held[d]
  BY TakenPages DEF TypeOK, Take
<1>2. TypeOK'
  BY <1>1 DEF TypeOK, Take, Answer, Calls
<1>3. ListInv'
  BY DEF ListInv, Take
<1>4. Beyond'
  <2>1. Known' \subseteq Known \cup {p}
    BY <1>1 DEF Known, Take
  <2>2. \A q \in Known : q \in Nat
    <3>1. bitmap \subseteq Pages /\ Free \subseteq Pages /\ Owned \subseteq Pages
      BY ListedAndOwnedArePages DEF TypeOK
    <3> QED
      BY <3>1 DEF Known, Pages
  <2>3. AppendedPage \in Nat /\ AppendedPage' \in Nat /\ p \in Nat
    BY AllocAssumption DEF AppendedPage, TypeOK, Pages
  <2> QED
    BY <2>1, <2>2, <2>3 DEF Beyond
<1>5. OwnerInv'
  <2> SUFFICES ASSUME ~stale' PROVE (OneOwner /\ Free \cap Owned = {})'
    BY DEF OwnerInv
  <2>1. ~stale /\ OneOwner /\ Free \cap Owned = {} /\ p \notin Owned
    BY DEF OwnerInv, Take
  <2>2. OneOwner'
    BY <1>1, <2>1 DEF OneOwner, Owned
  <2>3. (Free \cap Owned = {})'
    BY <1>1, <2>1
  <2> QED
    BY <2>2, <2>3
<1> QED
  BY <1>2, <1>3, <1>4, <1>5

\* What freeing a marked page does to the invariant; its owner, if it has one,
\* gives it up.
LEMMA PushKeeps ==
  ASSUME AllocInv, NEW p \in Pages, p \in bitmap, Push(p),
         held' \in [Clients -> SUBSET Pages], Owned' \subseteq Owned,
         ~stale => OneOwner' /\ p \notin Owned'
  PROVE  AllocInv'
<1> USE DEF AllocInv
<1>1. /\ freeList' \in Seq(Pages)
      /\ Free' = Free \cup {p}
      /\ Len(freeList') = Len(freeList) + 1
      /\ freeList'[Len(freeList')] = p
      /\ \A i \in 1..Len(freeList) : freeList'[i] = freeList[i]
  <2>1. freeList \in Seq(Pages) /\ freeList' = Append(freeList, p)
    BY DEF TypeOK, Push
  <2> QED
    BY <2>1, PushedPages DEF Free
<1>2. TypeOK'
  BY <1>1 DEF TypeOK, Push, Answer, Calls
<1>3. ListInv'
  <2>1. p \notin Free
    BY DEF ListInv
  <2>2. \A i \in 1..Len(freeList) : freeList[i] # p
    BY <2>1 DEF Free
  <2>3. 1..Len(freeList') = (1..Len(freeList)) \cup {Len(freeList')}
    BY <1>1 DEF TypeOK
  <2>4. \A i, j \in 1..Len(freeList') : freeList'[i] = freeList'[j] => i = j
    BY <1>1, <2>2, <2>3 DEF ListInv
  <2>5. (Free \cap bitmap = {})'
    BY <1>1 DEF ListInv, Push
  <2> QED
    BY <2>4, <2>5 DEF ListInv
<1>4. Beyond'
  <2>1. Known' \subseteq Known /\ AppendedPage' = AppendedPage
    BY <1>1 DEF Known, Push, AppendedPage
  <2> QED
    BY <2>1 DEF Beyond
<1>5. OwnerInv'
  BY <1>1 DEF OwnerInv, Push
<1> QED
  BY <1>2, <1>3, <1>4, <1>5

\* A new allocator that counts every page still owned keeps the invariant.
LEMMA FreshKeeps ==
  ASSUME AllocInv, NEW count \in 0..(LastPage + 1), Fresh(count), TypeOK',
         held' \in [Clients -> SUBSET Pages],
         \A c \in Clients : held'[c] \subseteq held[c],
         stale => stale',
         ~stale' => \A p \in Owned' : p < (IF count < 2 THEN 2 ELSE count)
  PROVE  AllocInv'
<1> USE DEF AllocInv
<1>1. Len(freeList') = 0 /\ Free' = {}
  BY DEF Fresh, Free
<1>2. ListInv'
  BY <1>1 DEF ListInv
<1>3. Beyond'
  <2>1. AppendedPage' = IF count < 2 THEN 2 ELSE count
    BY DEF Fresh, AppendedPage
  <2>2. \A p \in {0, 1} : p < AppendedPage'
    BY <2>1
  <2> QED
    BY <1>1, <2>1, <2>2 DEF Beyond, Known, Fresh
<1>4. OwnerInv'
  BY <1>1 DEF OwnerInv, OneOwner
<1> QED
  BY <1>2, <1>3, <1>4

\* Every step keeps the invariant.
LEMMA StepAlloc == AllocInv /\ [Next]_vars => AllocInv'
<1> SUFFICES ASSUME AllocInv, [Next]_vars PROVE AllocInv'
  OBVIOUS
<1> USE DEF AllocInv
<1>1. ASSUME NEW c \in Clients, Reuse(c) PROVE AllocInv'
  <2> DEFINE p == freeList[Len(freeList)]
  <2>1. /\ freeList' \in Seq(Pages)
        /\ p \in Pages
        /\ p \in Free
        /\ Free' = Free \ {p}
        /\ \A i, j \in 1..Len(freeList') : freeList'[i] = freeList'[j] => i = j
    <3>1. /\ freeList \in Seq(Pages)
          /\ freeList # <<>>
          /\ freeList' = SubSeq(freeList, 1, Len(freeList) - 1)
          /\ \A i, j \in 1..Len(freeList) : freeList[i] = freeList[j] => i = j
      BY <1>1 DEF Reuse, TypeOK, ListInv
    <3> QED
      BY <3>1, PoppedPages DEF Free
  <2>2. Take(c, p) /\ total' = total /\ AppendedPage' = AppendedPage
    BY <1>1 DEF Reuse, AppendedPage
  <2>3. ~stale => p \notin Owned
    BY <2>1 DEF OwnerInv
  <2>4. p < AppendedPage
    BY <2>1 DEF Beyond, Known
  <2>5. total \in 0..(LastPage + 1) /\ AppendedPage <= AppendedPage
    BY AllocAssumption DEF TypeOK, AppendedPage
  <2> HIDE DEF p
  <2> QED
    BY <2>1, <2>2, <2>3, <2>4, <2>5, TakeKeeps
<1>2. ASSUME NEW c \in Clients, Grow(c) PROVE AllocInv'
  <2>1. /\ freeList' = freeList
        /\ freeList = <<>>
        /\ Take(c, AppendedPage)
        /\ AppendedPage <= LastPage
        /\ total' = AppendedPage + 1
    BY <1>2 DEF Grow
  <2>2. AppendedPage \in Nat \ {0, 1} /\ AppendedPage \in Pages
    BY <2>1, AllocAssumption DEF AppendedPage, TypeOK, Pages
  <2>3. Free = {} /\ Free' = {} /\ Len(freeList') = 0
    BY <2>1 DEF Free
  <2>4. /\ total' \in 0..(LastPage + 1)
        /\ AppendedPage' = AppendedPage + 1
        /\ AppendedPage <= AppendedPage'
        /\ AppendedPage < AppendedPage'
    <3>1. total' = AppendedPage + 1 /\ total' \in Nat /\ ~(total' < 2)
      BY <2>1, <2>2
    <3>2. AppendedPage' = total'
      BY <3>1 DEF AppendedPage
    <3> QED
      BY <2>1, <2>2, <3>1, <3>2, AllocAssumption
  <2>5. ~stale => AppendedPage \notin Owned
    BY <2>2 DEF Beyond, Known
  <2>6. freeList' \in Seq(Pages)
    BY <2>1 DEF TypeOK
  <2>7. \A i, j \in 1..Len(freeList') : freeList'[i] = freeList'[j] => i = j
    BY <2>3
  <2> QED
    BY <2>1, <2>2, <2>3, <2>4, <2>5, <2>6, <2>7, TakeKeeps
<1>3. ASSUME NEW c \in Clients, NEW p \in Pages, Deallocate(c, p)
      PROVE  AllocInv'
  <2>1. /\ p \in bitmap
        /\ p \in held[c]
        /\ Push(p)
        /\ held' = [held EXCEPT ![c] = @ \ {p}]
    BY <1>3 DEF Deallocate, Refuses
  <2>2. /\ held' \in [Clients -> SUBSET Pages]
        /\ Owned' \subseteq Owned
        /\ OneOwner => OneOwner' /\ p \notin Owned'
    BY <2>1, ReturnedPages DEF TypeOK
  <2> QED
    BY <2>1, <2>2, PushKeeps DEF OwnerInv
<1>4. ASSUME NEW p \in Pages, StrayDeallocate(p) PROVE AllocInv'
  <2>1. /\ p \in bitmap
        /\ p \notin Owned
        /\ Push(p)
        /\ held' = held
    BY <1>4 DEF StrayDeallocate, Refuses
  <2>2. /\ held' \in [Clients -> SUBSET Pages]
        /\ Owned' = Owned
        /\ OneOwner => OneOwner'
    BY <2>1 DEF TypeOK, Owned, OneOwner
  <2> QED
    BY <2>1, <2>2, PushKeeps DEF OwnerInv
<1>5. ASSUME UNCHANGED <<bitmap, freeList, total, held, stale>>, TypeOK'
      PROVE  AllocInv'
  <2>1. Free' = Free /\ Owned' = Owned /\ AppendedPage' = AppendedPage
    BY <1>5 DEF Free, Owned, AppendedPage
  <2> QED
    BY <1>5, <2>1
       DEF ListInv, Beyond, Known, OwnerInv, OneOwner
<1>6. ASSUME NEW p \in Pages, Refuse(p) PROVE AllocInv'
  BY <1>5, <1>6 DEF Refuse, TypeOK, Answer, Calls
<1>7. CASE CopyTotal
  BY <1>5, <1>7 DEF CopyTotal, TypeOK
<1>8. CASE SyncHeader
  BY <1>5, <1>8 DEF SyncHeader, TypeOK
<1>9. CASE CloseAndOpen
  <2>1. /\ total \in 0..(LastPage + 1)
        /\ Fresh(total)
        /\ held' = held
        /\ stale' = stale
    BY <1>9 DEF CloseAndOpen, TypeOK
  <2>2. TypeOK'
    <3>1. {0, 1} \subseteq Pages
      BY AllocAssumption DEF Pages
    <3>2. <<>> \in Seq(Pages)
      OBVIOUS
    <3>3. opens + 1 \in 0..MaxOpens
      BY <1>9, AllocAssumption DEF CloseAndOpen, TypeOK
    <3>4. (Owned # {}) \in BOOLEAN
      OBVIOUS
    <3> QED
      BY <1>9, <3>1, <3>2, <3>3, <3>4 DEF CloseAndOpen, Fresh, TypeOK
  <2>3. Owned' = Owned
    BY <2>1 DEF Owned
  <2>4. ~stale' => \A p \in Owned' : p < (IF total < 2 THEN 2 ELSE total)
    BY <2>1, <2>3 DEF Beyond, Known, AppendedPage
  <2> QED
    BY <2>1, <2>2, <2>4, FreshKeeps DEF TypeOK
<1>10. CASE CrashAndOpen
  <2>1. /\ diskTotal \in 0..(LastPage + 1)
        /\ Fresh(diskTotal)
    BY <1>10 DEF CrashAndOpen, TypeOK
  <2>2. PICK kept \in SUBSET Owned :
           /\ held' = [c \in Clients |-> held[c] \cap kept]
           /\ stale' = (stale \/ \E p \in kept : p >= diskTotal)
    BY <1>10 DEF CrashAndOpen
  <2>3. /\ held' \in [Clients -> SUBSET Pages]
        /\ \A c \in Clients : held'[c] \subseteq held[c]
        /\ Owned' \subseteq kept
    BY <2>2 DEF TypeOK, Owned
  <2>4. TypeOK'
    <3>1. {0, 1} \subseteq Pages
      BY AllocAssumption DEF Pages
    <3>2. <<>> \in Seq(Pages)
      OBVIOUS
    <3>3. opens + 1 \in 0..MaxOpens
      BY <1>10, AllocAssumption DEF CrashAndOpen, TypeOK
    <3>4. stale' \in BOOLEAN
      BY <2>2
    <3> QED
      BY <1>10, <2>3, <3>1, <3>2, <3>3, <3>4 DEF CrashAndOpen, Fresh, TypeOK
  <2>5. ~stale' => \A p \in Owned' : p < (IF diskTotal < 2 THEN 2 ELSE diskTotal)
    <3>1. \A p \in Owned' : p \in Nat
      BY <2>2, <2>3, ListedAndOwnedArePages DEF Pages
    <3>2. diskTotal \in Nat
      BY <2>1
    <3>3. ASSUME ~stale', NEW p \in Owned' PROVE p < diskTotal
      <4>1. p \in kept
        BY <2>3, <3>3
      <4>2. ~(p >= diskTotal)
        BY <2>2, <3>3, <4>1, Zenon
      <4> QED
        BY <3>1, <3>2, <4>2
    <3> QED
      BY <3>1, <3>2, <3>3
  <2> QED
    BY <2>1, <2>2, <2>3, <2>4, <2>5, FreshKeeps
<1>11. CASE UNCHANGED vars
  BY <1>5, <1>11 DEF vars, TypeOK
<1> QED
  BY <1>1, <1>2, <1>3, <1>4, <1>6, <1>7, <1>8, <1>9, <1>10, <1>11 DEF Next

-----------------------------------------------------------------------------
(* Theorems *)

\* The invariant holds in every behaviour of the allocator.
THEOREM AllocInvariant == Spec => []AllocInv
BY InitAlloc, StepAlloc, PTL DEF Spec

\* Type correctness of allocator, headers and history.
THEOREM TypeCorrect == Spec => []TypeOK
<1>1. AllocInv => TypeOK
  BY DEF AllocInv
<1> QED
  BY <1>1, AllocInvariant, PTL

\* However often the database is closed, opened or crashes, only a stale page
\* count can put one page into the hands of two parts of the engine.
THEOREM OnlyStaleCountsShare == Spec => []OneOwnerUnlessStale
<1>1. AllocInv => OneOwnerUnlessStale
  BY DEF AllocInv, OwnerInv, OneOwnerUnlessStale
<1> QED
  BY <1>1, AllocInvariant, PTL

\* The free list never offers a page twice or one that is marked and, unless a
\* stale count was read, none that is owned.
THEOREM FreeListStaysSound == Spec => []FreeListSound
<1>1. AllocInv => FreeListSound
  BY DEF AllocInv, ListInv, OwnerInv, FreeListSound
<1> QED
  BY <1>1, AllocInvariant, PTL

\* Over any number of closings, openings and crashes, the allocator is the pool
\* of pages its callers believe it to be, until a stale count is read.
THEOREM ImplementsPool == Spec => HandsOutUnownedPages
<1> DEFINE mapped == IF stale THEN [c \in Clients |-> {}] ELSE held
<1>1. Init => Pool!Init
  BY DEF Init, Pool!Init
<1>2. AllocInv /\ AllocInv' /\ [Next]_vars => [Pool!Next]_mapped
  <2> SUFFICES ASSUME AllocInv, AllocInv', [Next]_vars PROVE [Pool!Next]_mapped
    OBVIOUS
  <2>0. /\ TypeOK /\ ListInv /\ Beyond
        /\ ~stale => Free \cap Owned = {}
        /\ held \in [Clients -> SUBSET Pages]
        /\ held' \in [Clients -> SUBSET Pages]
    BY DEF AllocInv, OwnerInv, TypeOK
  <2>1. ASSUME UNCHANGED <<held, stale>> PROVE UNCHANGED mapped
    BY <2>1
  <2>2. ASSUME stale, stale' PROVE UNCHANGED mapped
    BY <2>2
  <2>3. ASSUME NEW c \in Clients, NEW p \in Pages, ~stale, p \notin Owned, Take(c, p)
        PROVE  Pool!Next
    <3>1. Pool!Owners(p) = {}
      BY <2>3 DEF Owned, Pool!Owners
    <3>2. Pool!Grant(c, p)
      BY <2>3, <3>1 DEF Pool!Grant, Take
    <3> QED
      BY <3>2 DEF Pool!Next
  <2>4. ASSUME ~stale, NEW c \in Clients, Reuse(c) PROVE Pool!Next
    <3>1. /\ freeList[Len(freeList)] \in Pages
          /\ freeList[Len(freeList)] \in Free
      <4>1. /\ freeList \in Seq(Pages)
            /\ freeList # <<>>
            /\ \A i, j \in 1..Len(freeList) : freeList[i] = freeList[j] => i = j
        BY <2>0, <2>4 DEF Reuse, TypeOK, ListInv
      <4> QED
        BY <4>1, PoppedPages DEF Free
    <3> QED
      BY <2>0, <2>3, <2>4, <3>1 DEF Reuse
  <2>5. ASSUME ~stale, NEW c \in Clients, Grow(c) PROVE Pool!Next
    <3>1. AppendedPage \in Pages
      BY <2>0, <2>5, AllocAssumption DEF Grow, AppendedPage, TypeOK, Pages
    <3>2. AppendedPage \notin Owned
      BY <2>0, <2>5, <3>1 DEF Beyond, Known, Pages
    <3> QED
      BY <2>3, <2>5, <3>1, <3>2 DEF Grow
  <2>6. ASSUME ~stale, NEW c \in Clients, NEW p \in Pages, Deallocate(c, p)
        PROVE  Pool!Next
    <3>1. Pool!Return(c, p)
      BY <2>6 DEF Deallocate, Push, Pool!Return
    <3> QED
      BY <3>1 DEF Pool!Next
  <2>7. ASSUME ~stale, CrashAndOpen PROVE Pool!Next
    <3>1. PICK kept \in SUBSET Owned : held' = [c \in Clients |-> held[c] \cap kept]
      BY <2>7 DEF CrashAndOpen
    <3>2. \E k \in SUBSET Pages :
             mapped' = [c \in Clients |-> mapped[c] \cap k]
      <4>1. CASE stale'
        <5>1. mapped' = [c \in Clients |-> mapped[c] \cap {}]
          BY <4>1
        <5> QED
          BY <5>1
      <4>2. CASE ~stale'
        <5>1. mapped' = [c \in Clients |-> mapped[c] \cap kept]
          BY <2>7, <3>1, <4>2
        <5>2. kept \in SUBSET Pages
          BY <2>0, <3>1, ListedAndOwnedArePages
        <5> QED
          BY <5>1, <5>2
      <4> QED
        BY <4>1, <4>2
    <3> QED
      BY <3>2 DEF Pool!Next, Pool!Crash
  <2>8. \/ UNCHANGED <<held, stale>>
        \/ stale /\ stale'
        \/ ~stale /\ \E c \in Clients : Reuse(c) \/ Grow(c)
        \/ ~stale /\ \E c \in Clients, p \in Pages : Deallocate(c, p)
        \/ ~stale /\ CrashAndOpen
    BY <2>0 DEF Next, Reuse, Grow, Take, Deallocate, Push, Refuse, StrayDeallocate,
           CopyTotal, SyncHeader, CloseAndOpen, CrashAndOpen, vars, TypeOK
  <2> QED
    BY <2>1, <2>2, <2>4, <2>5, <2>6, <2>7, <2>8
<1> QED
  BY <1>1, <1>2, AllocInvariant, PTL DEF Spec, Pool!Spec, HandsOutUnownedPages

-----------------------------------------------------------------------------
(* Accounting *)

\* Until the database is opened again an owned page is marked, the header page
\* is never given away, and no page below the count is forgotten.
AccountInv ==
  opens = 0 =>
    /\ ~stale
    /\ Owned \subseteq bitmap
    /\ 0 \notin Owned \cup Free
    /\ \A p \in 2..(total - 1) : p \in Owned \cup Free
    /\ answer.call = "deallocate" /\ ~answer.ok => answer.page \notin Owned

\* A page that is handed back is the only one its owner loses.
LEMMA OthersStayOwned ==
  ASSUME NEW c \in Clients, NEW p \in Pages, held \in [Clients -> SUBSET Pages],
         held' = [held EXCEPT ![c] = @ \ {p}]
  PROVE  Owned \ {p} \subseteq Owned'
<1>1. ASSUME NEW d \in Clients, NEW q \in held[d], q # p PROVE q \in held'[d]
  BY <1>1
<1> QED
  BY <1>1 DEF Owned

\* An allocation: the page is owned and marked, and the others stay where they are.
LEMMA TakeAccounts ==
  ASSUME AllocInv, AccountInv, NEW c \in Clients, NEW p \in Pages \ {0}, Take(c, p),
         Free \subseteq Free' \cup {p}, Free' \subseteq Free,
         \A q \in 2..(total' - 1) : q \in 2..(total - 1) \/ q = p
  PROVE  AccountInv'
<1> SUFFICES ASSUME opens = 0 PROVE AccountInv'
  BY DEF Take, AccountInv
<1>1. Owned' = Owned \cup {p}
  BY TakenPages DEF Take, AllocInv, TypeOK
<1>2. /\ bitmap' = bitmap \cup {p} /\ stale' = stale
      /\ answer'.call = "allocate"
  BY DEF Take, Answer
<1> QED
  BY <1>1, <1>2 DEF AccountInv

\* A deallocation: the page is on the list and marked free.
LEMMA PushAccounts ==
  ASSUME AllocInv, AccountInv, NEW p \in Pages, ~Refuses(p), Push(p),
         Owned \ {p} \subseteq Owned', Owned' \subseteq Owned, p \notin Owned'
  PROVE  AccountInv'
<1> SUFFICES ASSUME opens = 0 PROVE AccountInv'
  BY DEF Push, AccountInv
<1>1. Free' = Free \cup {p}
  BY PushedPages DEF Push, Free, AllocInv, TypeOK
<1>2. /\ bitmap' = bitmap \ {p} /\ UNCHANGED <<stale, total>>
      /\ answer'.ok = TRUE
      /\ p # 0
  BY DEF Push, Answer, Refuses
<1> QED
  BY <1>1, <1>2 DEF AccountInv

LEMMA AccountStep ==
  ASSUME AllocInv, AccountInv, [Next]_vars
  PROVE  AccountInv'
<1>1. ASSUME NEW c \in Clients, Reuse(c) PROVE AccountInv'
  <2> DEFINE p == freeList[Len(freeList)]
  <2>1. p \in Pages /\ p \in Free /\ Free' = Free \ {p}
    <3>1. /\ freeList \in Seq(Pages)
          /\ freeList # <<>>
          /\ freeList' = SubSeq(freeList, 1, Len(freeList) - 1)
          /\ \A i, j \in 1..Len(freeList) : freeList[i] = freeList[j] => i = j
      BY <1>1 DEF Reuse, AllocInv, TypeOK, ListInv
    <3> QED
      BY <3>1, PoppedPages DEF Free
  <2>2. Take(c, p) /\ total' = total
    BY <1>1 DEF Reuse
  <2> HIDE DEF p
  <2>3. opens = 0 => p # 0
    BY <2>1 DEF AccountInv
  <2>4. opens' = opens
    BY <2>2 DEF Take
  <2>5. CASE opens = 0
    BY <2>1, <2>2, <2>3, <2>5, TakeAccounts
  <2> QED
    BY <2>4, <2>5 DEF AccountInv
<1>2. ASSUME NEW c \in Clients, Grow(c) PROVE AccountInv'
  <2>1. /\ Take(c, AppendedPage) /\ total' = AppendedPage + 1
        /\ Free' = Free
    BY <1>2 DEF Grow, Free
  <2>2. total \in Nat /\ AppendedPage \in Pages \ {0}
    BY <1>2, AllocAssumption DEF Grow, AppendedPage, AllocInv, TypeOK, Pages
  <2>3. \A q \in 2..(total' - 1) : q \in 2..(total - 1) \/ q = AppendedPage
    BY <2>1, <2>2 DEF AppendedPage
  <2> QED
    BY <2>1, <2>2, <2>3, TakeAccounts
<1>3. ASSUME NEW c \in Clients, NEW p \in Pages, Deallocate(c, p) PROVE AccountInv'
  <2>1. ~Refuses(p) /\ Push(p) /\ stale' = stale /\ opens' = opens
    BY <1>3 DEF Deallocate, Push
  <2>2. CASE opens = 0
    <3>1. OneOwner
      BY <2>2 DEF AccountInv, AllocInv, OwnerInv
    <3>2. Owned' \subseteq Owned /\ p \notin Owned' /\ Owned \ {p} \subseteq Owned'
      BY <1>3, <3>1, ReturnedPages, OthersStayOwned DEF Deallocate, AllocInv, TypeOK
    <3> QED
      BY <2>1, <3>2, PushAccounts
  <2> QED
    BY <2>1, <2>2 DEF AccountInv
<1>4. ASSUME NEW p \in Pages, StrayDeallocate(p) PROVE AccountInv'
  <2>1. Owned' = Owned
    BY <1>4 DEF StrayDeallocate, Owned
  <2> QED
    BY <1>4, <2>1, PushAccounts DEF StrayDeallocate
<1>5. ASSUME NEW p \in Pages, Refuse(p) PROVE AccountInv'
  <2>1. /\ Owned' = Owned /\ Free' = Free
        /\ UNCHANGED <<bitmap, total, stale, opens>>
        /\ answer'.page = p
    BY <1>5 DEF Refuse, Owned, Free, Answer
  <2>2. opens = 0 => p \notin Owned
    BY <1>5 DEF Refuse, Refuses, AccountInv
  <2> QED
    BY <2>1, <2>2 DEF AccountInv
<1>6. CASE CopyTotal \/ SyncHeader \/ UNCHANGED vars
  <2>1. /\ Owned' = Owned /\ Free' = Free
        /\ UNCHANGED <<bitmap, total, stale, opens, answer>>
    BY <1>6 DEF CopyTotal, SyncHeader, vars, Owned, Free
  <2> QED
    BY <2>1 DEF AccountInv
<1>7. CASE CloseAndOpen \/ CrashAndOpen
  <2>1. opens' # 0
    BY <1>7, AllocAssumption DEF CloseAndOpen, CrashAndOpen, AllocInv, TypeOK
  <2> QED
    BY <2>1 DEF AccountInv
<1> QED
  BY <1>1, <1>2, <1>3, <1>4, <1>5, <1>6, <1>7 DEF Next

\* Until the database is opened again the allocator loses no page: every page
\* below the count is owned and marked, or listed and marked free, and
\* deallocate calls nothing a double free that somebody still owns.
THEOREM PagesAreAccountedFor == Spec => []Accounted
<1>1. Init => AccountInv
  <2> SUFFICES ASSUME Init PROVE AccountInv
    OBVIOUS
  <2>1. Owned = {} /\ Free = {}
    BY DEF Init, Owned, Free
  <2> QED
    BY <2>1 DEF Init, Answer, AccountInv
<1>2. AllocInv /\ AccountInv /\ [Next]_vars => AccountInv'
  BY AccountStep
<1>3. AllocInv /\ AccountInv => Accounted
  <2> SUFFICES ASSUME AllocInv, AccountInv, opens = 0
               PROVE  /\ \A p \in 2..(total - 1) :
                           \/ p \in Owned /\ p \notin Free /\ Allocated(p)
                           \/ p \in Free /\ p \notin Owned /\ ~Allocated(p)
                      /\ answer.call = "deallocate" /\ ~answer.ok => answer.page \notin Owned
    BY DEF Accounted
  <2>1. Free \cap Owned = {} /\ Free \cap bitmap = {} /\ Owned \subseteq bitmap
    BY DEF AllocInv, OwnerInv, ListInv, AccountInv
  <2>2. total \in Nat
    BY DEF AllocInv, TypeOK
  <2> QED
    BY <2>1, <2>2 DEF AccountInv, Allocated
<1> QED
  BY <1>1, <1>2, <1>3, AllocInvariant, PTL DEF Spec

-----------------------------------------------------------------------------
(***************************************************************************)
(* BTree.  A tree on disk is described by ghosts: T, the pages of it, with *)
(* the span [lo, hi) of the keys each is responsible for and its level lev *)
(* above the leaves; and C, the leaves on the chain, with their rank rk    *)
(* from its end.  C is more than the leaves of T after a crash: leaves no  *)
(* parent leads to are still found from their left neighbours.  TreeOK and *)
(* ChainOK say what holds of them, Sound what holds of the disk, Stands    *)
(* where an insert is, and TreeInv is the inductive invariant: no write is *)
(* under way and the disk is Sound, or the disk is the one a split set out *)
(* from with some of its three writes made (Splitting).                    *)
(***************************************************************************)

-----------------------------------------------------------------------------
(* Least and greatest numbers, finite sets of keys *)

\* A set of numbers that is not empty has a least one.
LEMMA LeastExists ==
  ASSUME NEW S, S \subseteq Nat, S # {}
  PROVE  \E x \in S : \A y \in S : x <= y
<1> DEFINE LT == OpToRel(<, Nat)
<1>1. \A x, y \in Nat : y < x => <<y, x>> \in LT
  BY DEF OpToRel
<1>2. IsWellFoundedOn(LT, Nat)
  BY NatLessThanWellFounded
<1> HIDE DEF LT
<1>3. PICK x \in S : \A y \in S : ~(<<y, x>> \in LT)
  BY <1>2, WFMin, Zenon
<1>4. \A y \in S : ~(y < x)
  BY <1>1, <1>3, Zenon
<1> QED
  BY <1>4

\* ... and, if it is bounded, a greatest one.
LEMMA GreatestExists ==
  ASSUME NEW S, S \subseteq Nat, S # {}, NEW n \in Nat, \A x \in S : x <= n
  PROVE  \E x \in S : \A y \in S : y <= x
<1> DEFINE D == {n - x : x \in S}
<1>1. \A x \in S : x \in Nat /\ n - x \in Nat
  OBVIOUS
<1>2. D \subseteq Nat /\ D # {}
  BY <1>1, Zenon
<1>3. PICK d \in D : \A e \in D : d <= e
  BY <1>2, LeastExists, Zenon
<1>4. PICK x \in S : d = n - x
  BY <1>3
<1>5. \A y \in S : n - x <= n - y
  BY <1>3, <1>4
<1> QED
  BY <1>1, <1>5

LEMMA FiniteKeys ==
  ASSUME NEW S, S \subseteq Keys
  PROVE  /\ S \subseteq Nat
         /\ IsFiniteSet(S)
         /\ Cardinality(S) \in Nat
<1>1. MaxKey \in Nat
  BY BTreeAssumption
<1>2. S \subseteq Nat /\ S \in SUBSET Nat
  BY <1>1 DEF Keys
<1>3. \A s \in S : s <= MaxKey
  BY <1>1 DEF Keys
<1>4. IsFiniteSet(S)
  BY <1>1, <1>2, <1>3, FS_BoundedSetOfNaturals, Zenon
<1> QED
  BY <1>2, <1>4, FS_CardinalityType, Zenon

LEMMA LowestOfSet ==
  ASSUME NEW S, S \subseteq Nat, S # {}
  PROVE  LowestOf(S) \in S /\ \A y \in S : LowestOf(S) <= y
BY LeastExists, Zenon DEF LowestOf

\* The n smallest of a finite set of numbers: a least n without such a set would
\* have one, the set for n - 1 and the least number that is not in it.
LEMMA SmallestOfSet ==
  ASSUME NEW S, S \subseteq Keys, NEW n \in Nat, n <= Cardinality(S)
  PROVE  /\ Smallest(S, n) \subseteq S
         /\ Cardinality(Smallest(S, n)) = n
         /\ \A x \in Smallest(S, n), y \in S \ Smallest(S, n) : x < y
<1> DEFINE Low(T, m) == /\ T \in SUBSET S
                        /\ Cardinality(T) = m
                        /\ \A x \in T, y \in S \ T : x < y
<1> DEFINE Bad == {m \in 0..n : \A T : ~Low(T, m)}
<1>0. S \subseteq Nat /\ IsFiniteSet(S) /\ Cardinality(S) \in Nat
  BY FiniteKeys, Zenon
<1>1. \E T : Low(T, n)
  <2> SUFFICES ASSUME \A T : ~Low(T, n) PROVE FALSE
    OBVIOUS
  <2>1. n \in Bad /\ Bad \subseteq Nat
    OBVIOUS
  <2>2. PICK m \in Bad : \A y \in Bad : m <= y
    BY <2>1, LeastExists, Zenon
  <2>3. m # 0
    <3>1. Low({}, 0)
      BY FS_EmptySet
    <3> QED
      BY <3>1
  <2>4. m \in Nat /\ m <= n /\ m - 1 \in 0..n /\ ~(m <= m - 1)
    BY <2>3
  <2>5. PICK T : Low(T, m - 1)
    BY <2>2, <2>4, Zenon
  <2>6. S \ T # {}
    <3> SUFFICES ASSUME S \subseteq T PROVE FALSE
      OBVIOUS
    <3>1. T = S
      BY <2>5
    <3> QED
      BY <3>1, <2>4, <2>5, <1>0
  <2>7. S \ T \subseteq Nat
    BY <1>0
  <2>8. PICK x \in S \ T : \A y \in S \ T : x <= y
    BY <2>6, <2>7, LeastExists, Zenon
  <2> DEFINE U == T \cup {x}
  <2>9. IsFiniteSet(T)
    BY <1>0, <2>5, FS_Subset, Zenon
  <2>10. Cardinality(U) = m
    <3>1. Cardinality(U) = Cardinality(T) + 1
      BY <2>8, <2>9, FS_AddElement, Zenon
    <3> QED
      BY <3>1, <2>5, <2>4
  <2>11. U \in SUBSET S
    BY <2>5, <2>8
  <2>12. \A a \in U, b \in S \ U : a < b
    BY <1>0, <2>5, <2>8
  <2>13. Low(U, m)
    BY <2>10, <2>11, <2>12, Zenon
  <2> QED
    BY <2>13, <2>2
<1>2. \E T \in SUBSET S : Cardinality(T) = n /\ \A x \in T, y \in S \ T : x < y
  BY <1>1, Zenon
<1>3. Smallest(S, n) \in SUBSET S
      /\ Cardinality(Smallest(S, n)) = n
      /\ \A x \in Smallest(S, n), y \in S \ Smallest(S, n) : x < y
  BY <1>2, Zenon DEF Smallest
<1> QED
  BY <1>3, Zenon

-----------------------------------------------------------------------------
(* Pages *)

LEMMA LeafKind ==
  ASSUME NEW page, IsLeafPage(page)
  PROVE  page.kind = "leaf"
<1>1. PICK K \in SUBSET Keys : \E e \in [K -> Values], n \in 0..LastIndexPage :
        page = Leaf(e, n) /\ Size(page) <= Cap
  BY Zenon DEF IsLeafPage
<1> QED
  BY <1>1 DEF Leaf

LEMMA InternalKind ==
  ASSUME NEW page, IsInternalPage(page)
  PROVE  page.kind = "internal"
<1>1. PICK K \in SUBSET Keys : \E c \in [K \cup {0} -> PageIds] :
        page = Internal(c) /\ Size(page) <= Cap
  BY Zenon DEF IsInternalPage
<1> QED
  BY <1>1 DEF Internal

LEMMA PageKinds ==
  ASSUME NEW page, IsPage(page)
  PROVE  /\ page.kind \in {"unwritten", "leaf", "internal"}
         /\ page.kind = "unwritten" <=> page = Unwritten
         /\ page.kind = "leaf" => IsLeafPage(page)
         /\ page.kind = "internal" => IsInternalPage(page)
<1>1. CASE page = Unwritten
  BY <1>1 DEF Unwritten
<1>2. CASE IsLeafPage(page)
  BY <1>2, LeafKind DEF Unwritten
<1>3. CASE IsInternalPage(page)
  BY <1>3, InternalKind DEF Unwritten
<1> QED
  BY <1>1, <1>2, <1>3 DEF IsPage

LEMMA LeafShape ==
  ASSUME NEW page, IsPage(page), page.kind = "leaf"
  PROVE  /\ page = Leaf(page.entries, page.next)
         /\ page.entries \in [DOMAIN page.entries -> Values]
         /\ DOMAIN page.entries \subseteq Keys
         /\ IsFiniteSet(DOMAIN page.entries)
         /\ page.next \in 0..LastIndexPage
         /\ Size(page) = Cardinality(DOMAIN page.entries)
         /\ Size(page) \in Nat
         /\ Size(page) <= Cap
<1>1. PICK K \in SUBSET Keys : \E e \in [K -> Values], n \in 0..LastIndexPage :
        page = Leaf(e, n) /\ Size(page) <= Cap
  BY PageKinds, Zenon DEF IsLeafPage
<1>2. PICK e \in [K -> Values], n \in 0..LastIndexPage :
        page = Leaf(e, n) /\ Size(page) <= Cap
  BY <1>1
<1>3. page.entries = e /\ page.next = n /\ DOMAIN e = K
  BY <1>2 DEF Leaf
<1>4. Size(page) = Cardinality(DOMAIN page.entries)
  BY DEF Size
<1>5. IsFiniteSet(K) /\ Cardinality(K) \in Nat
  BY FiniteKeys, Zenon
<1> QED
  BY <1>2, <1>3, <1>4, <1>5

LEMMA InternalShape ==
  ASSUME NEW page, IsPage(page), page.kind = "internal"
  PROVE  /\ page = Internal(page.children)
         /\ page.children \in [DOMAIN page.children -> PageIds]
         /\ DOMAIN page.children \subseteq Keys
         /\ 0 \in DOMAIN page.children
         /\ IsFiniteSet(DOMAIN page.children)
         /\ Cardinality(DOMAIN page.children) \in Nat
         /\ Size(page) = Cardinality(DOMAIN page.children) - 1
         /\ Size(page) \in Nat
         /\ Size(page) <= Cap
<1>1. PICK K \in SUBSET Keys : \E c \in [K \cup {0} -> PageIds] :
        page = Internal(c) /\ Size(page) <= Cap
  BY PageKinds, Zenon DEF IsInternalPage
<1>2. PICK c \in [K \cup {0} -> PageIds] : page = Internal(c) /\ Size(page) <= Cap
  BY <1>1
<1>3. page.children = c /\ DOMAIN c = K \cup {0}
  BY <1>2 DEF Internal
<1>4. Size(page) = Cardinality(DOMAIN page.children) - 1
  BY DEF Size
<1>5. 0 \in Keys
  BY BTreeAssumption DEF Keys
<1>6. DOMAIN c \subseteq Keys
  BY <1>3, <1>5
<1>7. IsFiniteSet(DOMAIN c) /\ Cardinality(DOMAIN c) \in Nat
  BY <1>6, FiniteKeys, Zenon
<1>8. Cardinality(DOMAIN c) # 0
  BY <1>3, <1>7, FS_EmptySet
<1> QED
  BY <1>2, <1>3, <1>4, <1>6, <1>7, <1>8

LEMMA LeafIsPage ==
  ASSUME NEW K, K \subseteq Keys, NEW e \in [K -> Values],
         NEW n \in 0..LastIndexPage, Cardinality(K) <= Cap
  PROVE  IsPage(Leaf(e, n)) /\ Leaf(e, n).kind = "leaf" /\ Size(Leaf(e, n)) = Cardinality(K)
<1>1. Leaf(e, n).kind = "leaf" /\ Leaf(e, n).entries = e /\ DOMAIN e = K
  BY DEF Leaf
<1>2. Size(Leaf(e, n)) = Cardinality(K)
  BY <1>1 DEF Size
<1>3. IsLeafPage(Leaf(e, n))
  BY <1>2 DEF IsLeafPage
<1> QED
  BY <1>1, <1>2, <1>3 DEF IsPage

LEMMA InternalIsPage ==
  ASSUME NEW K, K \subseteq Keys, 0 \in K, NEW c \in [K -> PageIds],
         Cardinality(K) - 1 <= Cap
  PROVE  /\ IsPage(Internal(c)) /\ Internal(c).kind = "internal"
         /\ Size(Internal(c)) = Cardinality(K) - 1
<1>1. Internal(c).kind = "internal" /\ Internal(c).children = c /\ DOMAIN c = K
  BY DEF Internal
<1>2. Size(Internal(c)) = Cardinality(K) - 1
  BY <1>1 DEF Size
<1>3. c \in [K \cup {0} -> PageIds]
  <2>1. K \cup {0} = K
    OBVIOUS
  <2> QED
    BY <2>1
<1>4. IsInternalPage(Internal(c))
  BY <1>2, <1>3 DEF IsInternalPage
<1> QED
  BY <1>1, <1>2, <1>4 DEF IsPage

\* The separator at which the search for a key goes down: 0 is always there.
LEMMA SlotFacts ==
  ASSUME NEW page, IsPage(page), page.kind = "internal", NEW k \in Keys
  PROVE  /\ SlotOf(page, k) \in DOMAIN page.children
         /\ SlotOf(page, k) <= k
         /\ \A c \in DOMAIN page.children : c <= k => c <= SlotOf(page, k)
         /\ ChildOf(page, k) = page.children[SlotOf(page, k)]
         /\ ChildOf(page, k) \in PageIds
<1> DEFINE D == DOMAIN page.children
<1> DEFINE S == {b \in D : b <= k}
<1>1. D \subseteq Keys /\ 0 \in D /\ page.children \in [D -> PageIds]
  BY InternalShape, Zenon
<1> HIDE DEF D
<1>2. k \in Nat /\ Keys \subseteq Nat
  BY BTreeAssumption DEF Keys
<1>3. S \subseteq Nat /\ S # {} /\ \A b \in S : b <= k
  <2>1. 0 \in S
    BY <1>1, <1>2
  <2>2. S \subseteq Nat
    BY <1>1, <1>2
  <2>3. \A b \in S : b <= k
    OBVIOUS
  <2> QED
    BY <2>1, <2>2, <2>3, Zenon
<1>4. \E b \in S : \A c \in S : c <= b
  <2> HIDE DEF S
  <2> QED
    BY <1>2, <1>3, GreatestExists
<1>5. \E b \in D : b <= k /\ \A c \in D : c <= k => c <= b
  BY <1>4
<1>6. /\ SlotOf(page, k) \in D
      /\ SlotOf(page, k) <= k
      /\ \A c \in D : c <= k => c <= SlotOf(page, k)
  BY <1>5, Zenon DEF SlotOf, D
<1>7. ChildOf(page, k) = page.children[SlotOf(page, k)]
  BY DEF ChildOf
<1>8. ChildOf(page, k) \in PageIds
  BY <1>1, <1>6, <1>7
<1> QED
  BY <1>6, <1>7, <1>8 DEF D

-----------------------------------------------------------------------------
(* The halves of a page *)

\* A full leaf falls into the entries below the separator and the others, both
\* halves at least half full.
LEMMA LeafHalvesFacts ==
  ASSUME NEW page, IsPage(page), page.kind = "leaf", Full(page),
         NEW s \in PageIds, NEW h, h = Halves(page, s)
  PROVE  /\ IsPage(h.low) /\ h.low.kind = "leaf" /\ ~Full(h.low)
         /\ Size(h.low) >= Cap \div 2 /\ h.low.next = s
         /\ IsPage(h.high) /\ h.high.kind = "leaf" /\ ~Full(h.high)
         /\ Size(h.high) >= Cap \div 2 /\ h.high.next = page.next
         /\ h.separator \in DOMAIN page.entries
         /\ \E k \in DOMAIN page.entries : k < h.separator
         /\ DOMAIN h.low.entries = {k \in DOMAIN page.entries : k < h.separator}
         /\ DOMAIN h.high.entries = {k \in DOMAIN page.entries : h.separator <= k}
         /\ \A k \in DOMAIN h.low.entries : h.low.entries[k] = page.entries[k]
         /\ \A k \in DOMAIN h.high.entries : h.high.entries[k] = page.entries[k]
<1> DEFINE D == DOMAIN page.entries
           low == Smallest(D, LeafSplit(Size(page)))
           high == D \ low
<1>1. /\ page.entries \in [D -> Values] /\ D \subseteq Keys /\ IsFiniteSet(D)
      /\ page.next \in 0..LastIndexPage /\ Size(page) = Cardinality(D)
      /\ Size(page) \in Nat /\ Size(page) <= Cap
  BY LeafShape, Zenon
<1>2. Cap \in Nat /\ Cap >= 2 /\ Size(page) = Cap
  BY <1>1, BTreeAssumption DEF Full
<1>3. /\ LeafSplit(Size(page)) = Cap \div 2
      /\ Cap \div 2 \in Nat /\ Cap \div 2 >= 1 /\ 2 * (Cap \div 2) <= Cap
      /\ Cap \div 2 < Cap
  BY <1>2 DEF LeafSplit
<1>4. h = LeafHalves(page, s)
  BY DEF Halves
<1>5. /\ h.low = Leaf(Restrict(page.entries, low), s)
      /\ h.high = Leaf(Restrict(page.entries, high), page.next)
      /\ h.separator = LowestOf(high)
  BY <1>4 DEF LeafHalves
<1>6. /\ low \subseteq D
      /\ Cardinality(low) = Cap \div 2
      /\ \A x \in low, y \in D \ low : x < y
  BY <1>1, <1>2, <1>3, SmallestOfSet
<1> HIDE DEF low
<1>7. IsFiniteSet(low) /\ low \subseteq Keys /\ high \subseteq Keys /\ IsFiniteSet(high)
      /\ low \subseteq Nat /\ high \subseteq Nat /\ Cardinality(high) \in Nat
  <2>1. low \subseteq Keys /\ high \subseteq Keys
    BY <1>1, <1>6
  <2> QED
    BY <2>1, FiniteKeys, Zenon
<1>8. Cardinality(high) = Cap - (Cap \div 2)
  <2>1. Cardinality(low \cup high) = Cardinality(low) + Cardinality(high) - Cardinality(low \cap high)
    BY <1>7, FS_Union, Zenon
  <2>2. low \cup high = D /\ low \cap high = {}
    BY <1>6
  <2>3. Cardinality(D) = Cardinality(low) + Cardinality(high) - 0
    BY <2>1, <2>2, FS_EmptySet
  <2> QED
    BY <2>3, <1>1, <1>2, <1>3, <1>6, <1>7
<1>9. low # {} /\ high # {}
  <2>1. Cardinality(low) # 0 /\ Cardinality(high) # 0
    BY <1>2, <1>3, <1>6, <1>8
  <2> HIDE DEF high
  <2> QED
    BY <2>1, FS_EmptySet, Zenon
<1>10. h.separator \in high /\ \A y \in high : h.separator <= y
  BY <1>5, <1>7, <1>9, LowestOfSet, Zenon
<1>11. \A k \in low : k < h.separator
  BY <1>6, <1>10
<1>12. low = {k \in D : k < h.separator} /\ high = {k \in D : h.separator <= k}
  BY <1>6, <1>7, <1>10, <1>11
<1>13. /\ Restrict(page.entries, low) \in [low -> Values]
       /\ Restrict(page.entries, high) \in [high -> Values]
       /\ \A k \in low : Restrict(page.entries, low)[k] = page.entries[k]
       /\ \A k \in high : Restrict(page.entries, high)[k] = page.entries[k]
  BY <1>1, <1>6 DEF Restrict
<1>14. /\ IsPage(h.low) /\ h.low.kind = "leaf" /\ Size(h.low) = Cap \div 2
       /\ IsPage(h.high) /\ h.high.kind = "leaf" /\ Size(h.high) = Cap - (Cap \div 2)
  <2>1. s \in 0..LastIndexPage
    BY BTreeAssumption DEF PageIds
  <2>2. Cardinality(low) <= Cap /\ Cardinality(high) <= Cap
    BY <1>2, <1>3, <1>6, <1>8
  <2> DEFINE lower == Restrict(page.entries, low)
             upper == Restrict(page.entries, high)
  <2>3. /\ low \subseteq Keys /\ lower \in [low -> Values] /\ h.low = Leaf(lower, s)
        /\ high \subseteq Keys /\ upper \in [high -> Values] /\ h.high = Leaf(upper, page.next)
    BY <1>5, <1>7, <1>13, Zenon
  <2> HIDE DEF lower, upper, high
  <2>4. IsPage(Leaf(lower, s)) /\ Leaf(lower, s).kind = "leaf" /\ Size(Leaf(lower, s)) = Cardinality(low)
    BY <2>1, <2>2, <2>3, LeafIsPage
  <2>5. /\ IsPage(Leaf(upper, page.next)) /\ Leaf(upper, page.next).kind = "leaf"
        /\ Size(Leaf(upper, page.next)) = Cardinality(high)
    BY <1>1, <2>2, <2>3, LeafIsPage
  <2> QED
    BY <2>3, <2>4, <2>5, <1>6, <1>8
<1>15. /\ h.low.entries = Restrict(page.entries, low) /\ h.low.next = s
       /\ h.high.entries = Restrict(page.entries, high) /\ h.high.next = page.next
  BY <1>5 DEF Leaf
<1>16. DOMAIN h.low.entries = low /\ DOMAIN h.high.entries = high
  BY <1>13, <1>15
<1>17. ~Full(h.low) /\ ~Full(h.high) /\ Size(h.low) >= Cap \div 2 /\ Size(h.high) >= Cap \div 2
  BY <1>2, <1>3, <1>14 DEF Full
<1>18. h.separator \in D /\ \E k \in D : k < h.separator
  BY <1>6, <1>9, <1>10, <1>11
<1>19. /\ \A k \in DOMAIN h.low.entries : h.low.entries[k] = page.entries[k]
       /\ \A k \in DOMAIN h.high.entries : h.high.entries[k] = page.entries[k]
  BY <1>13, <1>15, <1>16
<1> QED
  BY <1>12, <1>14, <1>15, <1>16, <1>17, <1>18, <1>19

\* Of a full internal page the separator moves up; the child that stood under it
\* is the first one of the upper half.
LEMMA InternalHalvesFacts ==
  ASSUME NEW page, IsPage(page), page.kind = "internal", Full(page),
         NEW s \in PageIds, NEW h, h = Halves(page, s)
  PROVE  /\ IsPage(h.low) /\ h.low.kind = "internal" /\ ~Full(h.low)
         /\ Size(h.low) >= (Cap - 1) \div 2
         /\ IsPage(h.high) /\ h.high.kind = "internal" /\ ~Full(h.high)
         /\ Size(h.high) >= (Cap - 1) \div 2
         /\ h.separator \in DOMAIN page.children /\ h.separator > 0
         /\ DOMAIN h.low.children = {b \in DOMAIN page.children : b < h.separator}
         /\ DOMAIN h.high.children = {0} \cup {b \in DOMAIN page.children : h.separator < b}
         /\ \A b \in DOMAIN h.low.children : h.low.children[b] = page.children[b]
         /\ \A b \in DOMAIN h.high.children :
              h.high.children[b] = page.children[IF b = 0 THEN h.separator ELSE b]
<1> DEFINE D == DOMAIN page.children
           low == Smallest(D, InternalSplit(Size(page)) + 1)
           rest == D \ low
           sep == LowestOf(rest)
           high == {0} \cup (rest \ {sep})
           upper == [b \in high |-> page.children[IF b = 0 THEN sep ELSE b]]
<1>1. /\ page.children \in [D -> PageIds] /\ D \subseteq Keys /\ IsFiniteSet(D)
      /\ 0 \in D /\ Cardinality(D) \in Nat
      /\ Size(page) = Cardinality(D) - 1 /\ Size(page) \in Nat /\ Size(page) <= Cap
  BY InternalShape, Zenon
<1>2. Cap \in Nat /\ Cap >= 2 /\ Size(page) = Cap /\ Cardinality(D) = Cap + 1
  BY <1>1, BTreeAssumption DEF Full
<1> DEFINE i == (Cap - 1) \div 2
<1>3. /\ InternalSplit(Size(page)) = i
      /\ i \in Nat /\ 2 * i <= Cap - 1 /\ i + 1 \in Nat /\ i + 1 <= Cap /\ i < Cap
  BY <1>2 DEF InternalSplit
<1> HIDE DEF i
<1>4. h = InternalHalves(page)
  BY DEF Halves
<1>5. /\ h.low = Internal(Restrict(page.children, low))
      /\ h.high = Internal(upper)
      /\ h.separator = sep
  BY <1>4 DEF InternalHalves
<1>6. /\ low \subseteq D
      /\ Cardinality(low) = i + 1
      /\ \A x \in low, y \in D \ low : x < y
  BY <1>1, <1>2, <1>3, SmallestOfSet
<1> HIDE DEF low, sep
<1>7. IsFiniteSet(low) /\ low \subseteq Keys /\ rest \subseteq Keys /\ IsFiniteSet(rest)
      /\ low \subseteq Nat /\ rest \subseteq Nat /\ Cardinality(rest) \in Nat
  <2>1. low \subseteq Keys /\ rest \subseteq Keys
    BY <1>1, <1>6
  <2> QED
    BY <2>1, FiniteKeys, Zenon
<1>8. Cardinality(rest) = Cap - i
  <2>1. Cardinality(low \cup rest) = Cardinality(low) + Cardinality(rest) - Cardinality(low \cap rest)
    BY <1>7, FS_Union, Zenon
  <2>2. low \cup rest = D /\ low \cap rest = {}
    BY <1>6
  <2>3. Cardinality(D) = Cardinality(low) + Cardinality(rest) - 0
    BY <2>1, <2>2, FS_EmptySet
  <2> QED
    BY <2>3, <1>2, <1>3, <1>6, <1>7
<1>9. low # {} /\ rest # {}
  <2>1. Cardinality(low) # 0 /\ Cardinality(rest) # 0
    BY <1>2, <1>3, <1>6, <1>8
  <2> HIDE DEF rest
  <2> QED
    BY <2>1, FS_EmptySet, Zenon
<1>10. sep \in rest /\ \A y \in rest : sep <= y
  BY <1>7, <1>9, LowestOfSet, Zenon DEF sep
<1>11. \A b \in low : b < sep
  BY <1>6, <1>10
<1>12. 0 \in low /\ sep > 0 /\ 0 \notin rest
  <2>1. PICK x \in low : x < sep
    BY <1>9, <1>11
  <2>2. sep > 0
    BY <2>1, <1>7, <1>10
  <2>3. 0 \notin rest
    BY <1>10, <2>2, <1>7
  <2> QED
    BY <1>1, <2>2, <2>3
<1>13. low = {b \in D : b < sep} /\ rest \ {sep} = {b \in D : sep < b}
  BY <1>6, <1>7, <1>10, <1>11
<1>14. Cardinality(high) = Cap - i
  <2>1. IsFiniteSet(rest \ {sep}) /\ Cardinality(rest \ {sep}) = Cardinality(rest) - 1
    BY <1>7, <1>10, FS_RemoveElement
  <2>2. Cardinality((rest \ {sep}) \cup {0}) = Cardinality(rest \ {sep}) + 1
    BY <2>1, <1>12, FS_AddElement
  <2>3. high = (rest \ {sep}) \cup {0}
    OBVIOUS
  <2>4. Cardinality(high) = Cardinality(rest) - 1 + 1
    BY <2>1, <2>2, <2>3
  <2> HIDE DEF high, rest
  <2> QED
    BY <2>4, <1>7, <1>8, <1>2, <1>3
<1>15. high \subseteq Keys /\ high = {0} \cup {b \in D : sep < b}
       /\ \A b \in high : (IF b = 0 THEN sep ELSE b) \in D
  BY <1>1, <1>7, <1>10, <1>13
<1>16. upper \in [high -> PageIds] /\ 0 \in high
       /\ \A b \in high : upper[b] = page.children[IF b = 0 THEN sep ELSE b]
  <2> HIDE DEF high
  <2>1. \A b \in high : page.children[IF b = 0 THEN sep ELSE b] \in PageIds
    BY <1>1, <1>15
  <2> QED
    BY <2>1, <1>15
<1> HIDE DEF high, upper
<1>17. /\ Restrict(page.children, low) \in [low -> PageIds]
       /\ \A b \in low : Restrict(page.children, low)[b] = page.children[b]
  BY <1>1, <1>6 DEF Restrict
<1>18. /\ IsPage(h.low) /\ h.low.kind = "internal" /\ Size(h.low) = i
       /\ IsPage(h.high) /\ h.high.kind = "internal" /\ Size(h.high) = Cap - i - 1
  <2>1. Cardinality(low) - 1 <= Cap /\ Cardinality(high) - 1 <= Cap
    BY <1>2, <1>3, <1>6, <1>14
  <2>2. /\ IsPage(h.low) /\ h.low.kind = "internal" /\ Size(h.low) = Cardinality(low) - 1
    BY <1>5, <1>7, <1>12, <1>17, <2>1, InternalIsPage
  <2>3. /\ IsPage(h.high) /\ h.high.kind = "internal" /\ Size(h.high) = Cardinality(high) - 1
    BY <1>5, <1>15, <1>16, <2>1, InternalIsPage
  <2> QED
    BY <2>2, <2>3, <1>2, <1>3, <1>6, <1>14
<1>19. /\ h.low.children = Restrict(page.children, low)
       /\ h.high.children = upper
  BY <1>5 DEF Internal
<1>20. DOMAIN h.low.children = low /\ DOMAIN h.high.children = high
  BY <1>16, <1>17, <1>19
<1>21. ~Full(h.low) /\ ~Full(h.high) /\ Size(h.low) >= i /\ Size(h.high) >= i
  BY <1>2, <1>3, <1>18 DEF Full
<1>22. h.separator \in D /\ h.separator > 0
  BY <1>5, <1>10, <1>12
<1>23. /\ \A b \in DOMAIN h.low.children : h.low.children[b] = page.children[b]
       /\ \A b \in DOMAIN h.high.children :
            h.high.children[b] = page.children[IF b = 0 THEN h.separator ELSE b]
  BY <1>5, <1>16, <1>17, <1>19, <1>20
<1>24. DOMAIN h.low.children = {b \in D : b < h.separator}
       /\ DOMAIN h.high.children = {0} \cup {b \in D : h.separator < b}
  BY <1>5, <1>13, <1>15, <1>20
<1> QED
  BY <1>18, <1>21, <1>22, <1>23, <1>24 DEF i

\* A page that is not full takes one more child.
LEMMA AdoptingFacts ==
  ASSUME NEW page, IsPage(page), page.kind = "internal", ~Full(page),
         NEW sep \in Keys, NEW s \in PageIds
  PROVE  /\ IsPage(Adopting(page, sep, s)) /\ Adopting(page, sep, s).kind = "internal"
         /\ Size(Adopting(page, sep, s)) >= Size(page)
         /\ DOMAIN Adopting(page, sep, s).children = DOMAIN page.children \cup {sep}
         /\ \A b \in DOMAIN page.children \cup {sep} :
              Adopting(page, sep, s).children[b] =
                IF b = sep THEN s ELSE page.children[b]
<1> DEFINE D == DOMAIN page.children
           E == D \cup {sep}
           c == [b \in E |-> IF b = sep THEN s ELSE page.children[b]]
<1>1. /\ page.children \in [D -> PageIds] /\ D \subseteq Keys /\ IsFiniteSet(D)
      /\ 0 \in D /\ Cardinality(D) \in Nat
      /\ Size(page) = Cardinality(D) - 1 /\ Size(page) \in Nat
  BY InternalShape, Zenon
<1>2. Cap \in Nat /\ Size(page) < Cap
  BY <1>1, BTreeAssumption DEF Full
<1>3. Cardinality(E) = IF sep \in D THEN Cardinality(D) ELSE Cardinality(D) + 1
  BY <1>1, FS_AddElement
<1>4. E \subseteq Keys /\ 0 \in E /\ Cardinality(E) - 1 <= Cap /\ Cardinality(E) >= Cardinality(D)
  BY <1>1, <1>2, <1>3
<1>5. c \in [E -> PageIds] /\ DOMAIN c = E
  BY <1>1
<1>6. Adopting(page, sep, s) = Internal(c)
  BY DEF Adopting
<1>7. Adopting(page, sep, s).children = c
  BY <1>6 DEF Internal
<1> HIDE DEF c, E
<1>8. /\ IsPage(Internal(c)) /\ Internal(c).kind = "internal"
      /\ Size(Internal(c)) = Cardinality(E) - 1
  BY <1>4, <1>5, InternalIsPage
<1> QED
  BY <1>1, <1>3, <1>4, <1>5, <1>6, <1>7, <1>8 DEF c, E

LEMMA RootOverFacts ==
  ASSUME NEW p \in PageIds, NEW sep \in Keys, NEW s \in PageIds, sep > 0
  PROVE  /\ IsPage(RootOver(p, sep, s)) /\ RootOver(p, sep, s).kind = "internal"
         /\ ~Full(RootOver(p, sep, s))
         /\ DOMAIN RootOver(p, sep, s).children = {0, sep}
         /\ RootOver(p, sep, s).children[0] = p
         /\ RootOver(p, sep, s).children[sep] = s
<1> DEFINE c == [b \in {0, sep} |-> IF b = sep THEN s ELSE p]
<1>1. RootOver(p, sep, s) = Internal(c) /\ Internal(c).children = c
  BY DEF RootOver, Internal
<1>2. c \in [{0, sep} -> PageIds] /\ DOMAIN c = {0, sep} /\ c[0] = p /\ c[sep] = s
  OBVIOUS
<1>3. {0, sep} \subseteq Keys
  BY BTreeAssumption DEF Keys
<1>4. Cardinality({0, sep}) = 2
  <2>1. IsFiniteSet({0}) /\ Cardinality({0}) = 1
    BY FS_Singleton
  <2>2. {0, sep} = {0} \cup {sep} /\ sep \notin {0}
    OBVIOUS
  <2> QED
    BY <2>1, <2>2, FS_AddElement
<1> HIDE DEF c
<1>5. /\ IsPage(Internal(c)) /\ Internal(c).kind = "internal" /\ Size(Internal(c)) = 2 - 1
  BY <1>2, <1>3, <1>4, BTreeAssumption, InternalIsPage
<1>6. ~Full(Internal(c))
  BY <1>5, BTreeAssumption DEF Full
<1> QED
  BY <1>1, <1>2, <1>5, <1>6

-----------------------------------------------------------------------------
(* The tree *)

\* A disk d has a tree of height h under page r: its pages T are among the first
\* n - 1; page p is at level lev[p] above the leaves and responsible for the keys
\* from lo[p] up to, but not including, hi[p].
Top == MaxKey + 1

Spans(n, h, T, lo, hi, lev) ==
  /\ T \subseteq 1..(n - 1)
  /\ \A p \in T : /\ lo[p] \in Nat /\ hi[p] \in Nat /\ lo[p] < hi[p] /\ hi[p] <= Top
                  /\ lev[p] \in Nat /\ lev[p] < h

Kinds(d, T, lev) ==
  \A p \in T : /\ lev[p] = 0 => d[p].kind = "leaf"
               /\ lev[p] # 0 => d[p].kind = "internal"

\* The children of an internal page share out its span.
Kids(d, T, lo, hi, lev, p) ==
  \A b \in DOMAIN d[p].children :
    LET c == d[p].children[b] IN
    /\ c \in T /\ lev[c] = lev[p] - 1
    /\ lo[c] = (IF b = 0 THEN lo[p] ELSE b)
    /\ b = 0 \/ (lo[p] < b /\ b < hi[p])
    /\ hi[c] = hi[p] \/ hi[c] \in DOMAIN d[p].children
    /\ hi[c] <= hi[p]
    /\ \A b2 \in DOMAIN d[p].children : b < b2 => hi[c] <= b2
AllKids(d, T, lo, hi, lev) == \A p \in T : lev[p] # 0 => Kids(d, T, lo, hi, lev, p)

\* Spans are disjoint or one within the other.
Nested(T, lo, hi, lev) ==
  \A p, q \in T : lev[q] <= lev[p] /\ p # q =>
    \/ hi[q] <= lo[p]
    \/ hi[p] <= lo[q]
    \/ lev[q] < lev[p] /\ lo[p] <= lo[q] /\ hi[q] <= hi[p]

HasChild(d, lev, q, p) == lev[q] # 0 /\ \E b \in DOMAIN d[q].children : d[q].children[b] = p
Parented(d, r, T, lev) == \A p \in T : p # r => \E q \in T : HasChild(d, lev, q, p)

Cover(T, lo, hi, lev) == \A k \in Keys : \E p \in T : lev[p] = 0 /\ lo[p] <= k /\ k < hi[p]

Fits(d, T, lo, hi, lev) ==
  \A p \in T : lev[p] = 0 => \A k \in DOMAIN d[p].entries : lo[p] <= k /\ k < hi[p]

Rooted(r, n, h, T, lo, hi, lev) ==
  /\ r \in T /\ lo[r] = 0 /\ hi[r] = Top /\ lev[r] = h - 1
  /\ h \in Nat /\ h # 0 /\ h < n

TreeOK(d, r, h, n, T, lo, hi, lev) ==
  /\ Rooted(r, n, h, T, lo, hi, lev)
  /\ Spans(n, h, T, lo, hi, lev)
  /\ Kinds(d, T, lev)
  /\ AllKids(d, T, lo, hi, lev)
  /\ Nested(T, lo, hi, lev)
  /\ Parented(d, r, T, lev)
  /\ Cover(T, lo, hi, lev)
  /\ Fits(d, T, lo, hi, lev)

TypedPages(d) == DOMAIN d = PageIds /\ \A p \in PageIds : IsPage(d[p])

LEMMA TopType == MaxKey \in Nat /\ Top \in Nat /\ Keys \subseteq Nat
                 /\ \A k \in Keys : k < Top
BY BTreeAssumption DEF Top, Keys

\* The separators of an internal page of the tree.
LEMMA InnerPage ==
  ASSUME NEW d, TypedPages(d), NEW n \in Nat, n <= LastIndexPage + 1, NEW h, NEW T,
         NEW lo, NEW hi, NEW lev,
         Spans(n, h, T, lo, hi, lev), Kinds(d, T, lev),
         NEW p \in T, lev[p] # 0
  PROVE  /\ p \in PageIds /\ IsPage(d[p]) /\ d[p].kind = "internal"
         /\ DOMAIN d[p].children \subseteq Nat
         /\ DOMAIN d[p].children \subseteq Keys
         /\ 0 \in DOMAIN d[p].children
<1>1. p \in PageIds
  BY BTreeAssumption DEF Spans, PageIds
<1>2. IsPage(d[p]) /\ d[p].kind = "internal"
  BY <1>1 DEF TypedPages, Kinds
<1>3. DOMAIN d[p].children \subseteq Keys /\ 0 \in DOMAIN d[p].children
  BY <1>2, InternalShape
<1> QED
  BY <1>1, <1>2, <1>3, TopType

LEMMA LeafPage ==
  ASSUME NEW d, TypedPages(d), NEW n \in Nat, n <= LastIndexPage + 1, NEW h, NEW T,
         NEW lo, NEW hi, NEW lev,
         Spans(n, h, T, lo, hi, lev), Kinds(d, T, lev),
         NEW p \in T, lev[p] = 0
  PROVE  /\ p \in PageIds /\ IsPage(d[p]) /\ d[p].kind = "leaf"
         /\ DOMAIN d[p].entries \subseteq Nat
         /\ DOMAIN d[p].entries \subseteq Keys
<1>1. p \in PageIds
  BY BTreeAssumption DEF Spans, PageIds
<1>2. IsPage(d[p]) /\ d[p].kind = "leaf"
  BY <1>1 DEF TypedPages, Kinds
<1>3. DOMAIN d[p].entries \subseteq Keys
  BY <1>2, LeafShape
<1> QED
  BY <1>1, <1>2, <1>3, TopType

\* A key in the span of an internal page leads to a child with the key in its span.
LEMMA ChildStep ==
  ASSUME NEW d, TypedPages(d), NEW n \in Nat, n <= LastIndexPage + 1, NEW h, NEW T,
         NEW lo, NEW hi, NEW lev,
         Spans(n, h, T, lo, hi, lev), Kinds(d, T, lev), AllKids(d, T, lo, hi, lev),
         NEW p \in T, lev[p] # 0, NEW k \in Keys, lo[p] <= k, k < hi[p]
  PROVE  /\ ChildOf(d[p], k) \in T /\ lev[ChildOf(d[p], k)] = lev[p] - 1
         /\ lo[ChildOf(d[p], k)] <= k /\ k < hi[ChildOf(d[p], k)]
         /\ HasChild(d, lev, p, ChildOf(d[p], k))
<1> DEFINE c == ChildOf(d[p], k)
           b == SlotOf(d[p], k)
           D == DOMAIN d[p].children
<1>1. p \in PageIds /\ IsPage(d[p]) /\ d[p].kind = "internal" /\ D \subseteq Nat
  BY InnerPage
<1>2. b \in D /\ b <= k /\ (\A x \in D : x <= k => x <= b) /\ c = d[p].children[b]
  BY <1>1, SlotFacts
<1>3. /\ c \in T /\ lev[c] = lev[p] - 1
      /\ lo[c] = (IF b = 0 THEN lo[p] ELSE b)
      /\ hi[c] = hi[p] \/ hi[c] \in D
  BY <1>2 DEF AllKids, Kids
<1>4. lo[c] \in Nat /\ hi[c] \in Nat /\ lo[c] < hi[c] /\ lo[p] \in Nat /\ hi[p] \in Nat
  BY <1>3 DEF Spans
<1>5. k \in Nat
  BY TopType
<1> HIDE DEF c, b, D
<1>6. b \in Nat
  BY <1>1, <1>2
<1>7. lo[c] <= k
  BY <1>2, <1>3
<1>8. k < hi[c]
  <2>1. CASE hi[c] = hi[p]
    BY <2>1
  <2>2. CASE hi[c] \in D /\ hi[c] <= k
    <3>1. hi[c] <= b
      BY <2>2, <1>2
    <3>2. b # 0
      BY <3>1, <1>4, <1>6
    <3> QED
      BY <3>1, <3>2, <1>3, <1>4, <1>6
  <2> QED
    BY <2>1, <2>2, <1>3, <1>4, <1>5
<1>9. HasChild(d, lev, p, c)
  BY <1>2 DEF HasChild, D
<1> QED
  BY <1>3, <1>7, <1>8, <1>9 DEF c

\* A page has one parent, and stands in it once.
LEMMA OnlyParent ==
  ASSUME NEW d, TypedPages(d), NEW n \in Nat, n <= LastIndexPage + 1, NEW h, NEW T,
         NEW lo, NEW hi, NEW lev,
         Spans(n, h, T, lo, hi, lev), Kinds(d, T, lev), AllKids(d, T, lo, hi, lev),
         Nested(T, lo, hi, lev),
         NEW p \in T, lev[p] # 0, NEW b \in DOMAIN d[p].children,
         NEW q \in T, lev[q] # 0, NEW a \in DOMAIN d[q].children,
         d[p].children[b] = d[q].children[a]
  PROVE  p = q /\ b = a
<1> DEFINE c == d[p].children[b]
<1>1. /\ c \in T /\ lev[c] = lev[p] - 1 /\ hi[c] <= hi[p]
      /\ lo[c] = (IF b = 0 THEN lo[p] ELSE b) /\ (b = 0 \/ (lo[p] < b /\ b < hi[p]))
  BY DEF AllKids, Kids
<1>2. /\ c \in T /\ lev[c] = lev[q] - 1 /\ hi[c] <= hi[q]
      /\ lo[c] = (IF a = 0 THEN lo[q] ELSE a) /\ (a = 0 \/ (lo[q] < a /\ a < hi[q]))
  BY DEF AllKids, Kids
<1>3. /\ lo[c] \in Nat /\ hi[c] \in Nat /\ lo[c] < hi[c]
      /\ lo[p] \in Nat /\ hi[p] \in Nat /\ lev[p] \in Nat
      /\ lo[q] \in Nat /\ hi[q] \in Nat /\ lev[q] \in Nat
  BY <1>1 DEF Spans
<1>4. a \in Nat /\ b \in Nat
  BY InnerPage
<1> HIDE DEF c
<1>5. lev[p] = lev[q]
  BY <1>1, <1>2, <1>3
<1>6. p = q
  <2> SUFFICES ASSUME p # q PROVE FALSE
    OBVIOUS
  <2>1. hi[q] <= lo[p] \/ hi[p] <= lo[q]
    BY <1>3, <1>5 DEF Nested
  <2> QED
    BY <2>1, <1>1, <1>2, <1>3, <1>4
<1>7. b = a
  BY <1>1, <1>2, <1>3, <1>4, <1>6
<1> QED
  BY <1>6, <1>7

\* One leaf is responsible for a key.
LEMMA OneLeaf ==
  ASSUME NEW n, NEW h, NEW T, NEW lo, NEW hi, NEW lev,
         Spans(n, h, T, lo, hi, lev), Nested(T, lo, hi, lev),
         NEW p \in T, NEW q \in T, lev[p] = lev[q], NEW k \in Nat,
         lo[p] <= k, k < hi[p], lo[q] <= k, k < hi[q]
  PROVE  p = q
<1>1. /\ lo[p] \in Nat /\ hi[p] \in Nat /\ lev[p] \in Nat
      /\ lo[q] \in Nat /\ hi[q] \in Nat /\ lev[q] \in Nat
  BY DEF Spans
<1> SUFFICES ASSUME p # q PROVE FALSE
  OBVIOUS
<1>2. hi[q] <= lo[p] \/ hi[p] <= lo[q]
  BY <1>1 DEF Nested
<1> QED
  BY <1>1, <1>2

-----------------------------------------------------------------------------
(* A page of the tree split in two *)

\* What the two halves have of a page.
SplitInto(page, low, high, sep) ==
  \/ /\ page.kind = "leaf" /\ low.kind = "leaf" /\ high.kind = "leaf"
     /\ DOMAIN low.entries = {k \in DOMAIN page.entries : k < sep}
     /\ DOMAIN high.entries = {k \in DOMAIN page.entries : sep <= k}
  \/ /\ page.kind = "internal" /\ low.kind = "internal" /\ high.kind = "internal"
     /\ sep \in DOMAIN page.children
     /\ DOMAIN low.children = {b \in DOMAIN page.children : b < sep}
     /\ DOMAIN high.children = {0} \cup {b \in DOMAIN page.children : sep < b}
     /\ \A b \in DOMAIN low.children : low.children[b] = page.children[b]
     /\ \A b \in DOMAIN high.children :
          high.children[b] = page.children[IF b = 0 THEN sep ELSE b]

\* On d2 page p keeps the keys below sep, page s has the others; pages X, which
\* are above p, may have got another child, and all others are as on d.
SplitStep(d, d2, T, X, lo, hi, lev, lo2, hi2, lev2, p, s, sep) ==
  /\ p \in T /\ s \notin T /\ sep \in Nat /\ lo[p] < sep /\ sep < hi[p]
  /\ SplitInto(d[p], d2[p], d2[s], sep)
  /\ X \subseteq T /\ p \notin X
  /\ \A q \in T : q # p /\ q \notin X => d2[q] = d[q]
  /\ \A q \in X : /\ d2[q].kind = "internal" /\ lev[q] # 0
                  /\ \A b \in DOMAIN d[q].children :
                       b \in DOMAIN d2[q].children /\ d2[q].children[b] = d[q].children[b]
  /\ \A q \in T : lo2[q] = lo[q] /\ lev2[q] = lev[q] /\ (q # p => hi2[q] = hi[q])
  /\ hi2[p] = sep /\ lo2[s] = sep /\ hi2[s] = hi[p] /\ lev2[s] = lev[p]

\* A separator inside the span of the page.
LEMMA SeparatorInside ==
  ASSUME NEW d, TypedPages(d), NEW n \in Nat, n <= LastIndexPage + 1, NEW h, NEW T,
         NEW lo, NEW hi, NEW lev,
         Spans(n, h, T, lo, hi, lev), Kinds(d, T, lev), AllKids(d, T, lo, hi, lev),
         Fits(d, T, lo, hi, lev),
         NEW p \in T, Full(d[p]), NEW s \in PageIds
  PROVE  LET H == Halves(d[p], s)
         IN /\ H.separator \in Nat /\ H.separator \in Keys /\ H.separator > 0
            /\ lo[p] < H.separator /\ H.separator < hi[p]
            /\ SplitInto(d[p], H.low, H.high, H.separator)
            /\ IsPage(H.low) /\ IsPage(H.high) /\ ~Full(H.low) /\ ~Full(H.high)
            /\ Size(H.low) >= IF lev[p] = 0 THEN Cap \div 2 ELSE (Cap - 1) \div 2
            /\ Size(H.high) >= IF lev[p] = 0 THEN Cap \div 2 ELSE (Cap - 1) \div 2
<1> DEFINE H == Halves(d[p], s)
<1>0. lo[p] \in Nat /\ hi[p] \in Nat
  BY DEF Spans
<1>1. CASE lev[p] = 0
  <2>1. p \in PageIds /\ IsPage(d[p]) /\ d[p].kind = "leaf"
        /\ DOMAIN d[p].entries \subseteq Nat /\ DOMAIN d[p].entries \subseteq Keys
    BY <1>1, LeafPage
  <2>2. /\ IsPage(H.low) /\ H.low.kind = "leaf" /\ ~Full(H.low) /\ Size(H.low) >= Cap \div 2
        /\ IsPage(H.high) /\ H.high.kind = "leaf" /\ ~Full(H.high) /\ Size(H.high) >= Cap \div 2
        /\ H.separator \in DOMAIN d[p].entries
        /\ \E k \in DOMAIN d[p].entries : k < H.separator
        /\ DOMAIN H.low.entries = {k \in DOMAIN d[p].entries : k < H.separator}
        /\ DOMAIN H.high.entries = {k \in DOMAIN d[p].entries : H.separator <= k}
    BY <2>1, LeafHalvesFacts
  <2> HIDE DEF H
  <2>3. PICK k \in DOMAIN d[p].entries : k < H.separator
    BY <2>2
  <2>4. lo[p] <= k /\ H.separator < hi[p]
    BY <2>2, <1>1 DEF Fits
  <2>5. k \in Nat /\ H.separator \in Nat
    BY <2>1, <2>2, <2>3
  <2>6. lo[p] < H.separator /\ H.separator > 0
    BY <2>3, <2>4, <2>5, <1>0
  <2>7. SplitInto(d[p], H.low, H.high, H.separator)
    BY <2>1, <2>2 DEF SplitInto
  <2> QED
    BY <2>1, <2>2, <2>4, <2>5, <2>6, <2>7, <1>1 DEF H
<1>2. CASE lev[p] # 0
  <2>1. /\ p \in PageIds /\ IsPage(d[p]) /\ d[p].kind = "internal"
        /\ DOMAIN d[p].children \subseteq Nat /\ DOMAIN d[p].children \subseteq Keys
    BY <1>2, InnerPage
  <2>2. /\ IsPage(H.low) /\ H.low.kind = "internal" /\ ~Full(H.low)
        /\ Size(H.low) >= (Cap - 1) \div 2
        /\ IsPage(H.high) /\ H.high.kind = "internal" /\ ~Full(H.high)
        /\ Size(H.high) >= (Cap - 1) \div 2
        /\ H.separator \in DOMAIN d[p].children /\ H.separator > 0
        /\ DOMAIN H.low.children = {b \in DOMAIN d[p].children : b < H.separator}
        /\ DOMAIN H.high.children = {0} \cup {b \in DOMAIN d[p].children : H.separator < b}
        /\ \A b \in DOMAIN H.low.children : H.low.children[b] = d[p].children[b]
        /\ \A b \in DOMAIN H.high.children :
             H.high.children[b] = d[p].children[IF b = 0 THEN H.separator ELSE b]
    BY <2>1, InternalHalvesFacts
  <2> HIDE DEF H
  <2>3. lo[p] < H.separator /\ H.separator < hi[p]
    BY <2>2, <1>2 DEF AllKids, Kids
  <2>4. SplitInto(d[p], H.low, H.high, H.separator)
    BY <2>1, <2>2 DEF SplitInto
  <2> QED
    BY <2>1, <2>2, <2>3, <2>4, <1>2 DEF H
<1> QED
  BY <1>1, <1>2

LEMMA SplitSpans ==
  ASSUME NEW d, NEW d2, NEW T, NEW X, NEW lo, NEW hi, NEW lev, NEW lo2, NEW hi2, NEW lev2,
         NEW p, NEW s \in Nat, NEW sep, NEW n \in Nat, NEW n2 \in Nat, NEW h,
         SplitStep(d, d2, T, X, lo, hi, lev, lo2, hi2, lev2, p, s, sep),
         Spans(n, h, T, lo, hi, lev), Kinds(d, T, lev), n <= n2, s < n2, s > 0
  PROVE  Spans(n2, h, T \cup {s}, lo2, hi2, lev2) /\ Kinds(d2, T \cup {s}, lev2)
<1>1. T \cup {s} \subseteq 1..(n2 - 1)
  BY DEF Spans
<1>2. \A q \in T \cup {s} :
        /\ lo2[q] \in Nat /\ hi2[q] \in Nat /\ lo2[q] < hi2[q] /\ hi2[q] <= Top
        /\ lev2[q] \in Nat /\ lev2[q] < h
  BY TopType DEF Spans, SplitStep
<1>3. Kinds(d2, T \cup {s}, lev2)
  BY DEF Kinds, SplitStep, SplitInto
<1> QED
  BY <1>1, <1>2, <1>3 DEF Spans

LEMMA SplitNested ==
  ASSUME NEW d, NEW d2, NEW T, NEW X, NEW lo, NEW hi, NEW lev, NEW lo2, NEW hi2, NEW lev2,
         NEW p, NEW s, NEW sep, NEW n \in Nat, NEW h, TypedPages(d), n <= LastIndexPage + 1,
         SplitStep(d, d2, T, X, lo, hi, lev, lo2, hi2, lev2, p, s, sep),
         Spans(n, h, T, lo, hi, lev), Kinds(d, T, lev), AllKids(d, T, lo, hi, lev),
         Nested(T, lo, hi, lev)
  PROVE  Nested(T \cup {s}, lo2, hi2, lev2)
\* No page below p lies across the separator.
<1>0. /\ p \in T /\ s \notin T /\ sep \in Nat /\ lo[p] < sep /\ sep < hi[p]
      /\ \A q \in T : lo2[q] = lo[q] /\ lev2[q] = lev[q] /\ (q # p => hi2[q] = hi[q])
      /\ hi2[p] = sep /\ lo2[s] = sep /\ hi2[s] = hi[p] /\ lev2[s] = lev[p]
  BY DEF SplitStep
<1>1. \A q \in T : lo[q] \in Nat /\ hi[q] \in Nat /\ lo[q] < hi[q] /\ lev[q] \in Nat
  BY DEF Spans
<1>2. ASSUME NEW q \in T, lev[q] <= lev[p], q # p
      PROVE  hi[q] <= sep \/ sep <= lo[q]
  <2>1. CASE lev[q] = lev[p]
    BY <2>1, <1>0, <1>1, <1>2 DEF Nested
  <2>2. CASE lev[q] < lev[p]
    <3>0. lev[p] # 0 /\ lev[p] \in Nat
      BY <2>2, <1>0, <1>1
    <3>1. d[p].kind = "internal"
      BY <3>0, <1>0 DEF Kinds
    <3>2. sep \in DOMAIN d[p].children
      BY <3>1 DEF SplitStep, SplitInto
    <3> DEFINE c == d[p].children[sep]
    <3>3. c \in T /\ lev[c] = lev[p] - 1 /\ lo[c] = sep
      <4>1. sep # 0
        BY <1>0, <1>1
      <4> QED
        BY <3>0, <3>2, <4>1, <1>0 DEF AllKids, Kids
    <3> HIDE DEF c
    <3>4. CASE q = c
      BY <3>3, <3>4, <1>0, <1>1
    <3>5. CASE q # c
      <4>1. lev[q] <= lev[c]
        BY <3>3, <2>2, <1>0, <1>1
      <4>2. \/ hi[q] <= lo[c]
            \/ hi[c] <= lo[q]
            \/ lev[q] < lev[c] /\ lo[c] <= lo[q] /\ hi[q] <= hi[c]
        BY <3>3, <3>5, <4>1 DEF Nested
      <4> QED
        BY <4>2, <3>3, <1>0, <1>1
    <3> QED
      BY <3>4, <3>5
  <2> QED
    BY <2>1, <2>2, <1>0, <1>1, <1>2
<1> SUFFICES ASSUME NEW x \in T \cup {s}, NEW y \in T \cup {s}, lev2[y] <= lev2[x], x # y
             PROVE  \/ hi2[y] <= lo2[x]
                    \/ hi2[x] <= lo2[y]
                    \/ lev2[y] < lev2[x] /\ lo2[x] <= lo2[y] /\ hi2[y] <= hi2[x]
  BY DEF Nested
<1>3. CASE x = s /\ y = p
  BY <1>3, <1>0
<1>4. CASE x = p /\ y = s
  BY <1>4, <1>0
<1>5. CASE x \in {p, s} /\ y \in T /\ y # p
  <2>1. hi2[y] = hi[y] /\ lo2[y] = lo[y] /\ lev[y] <= lev[p]
    BY <1>5, <1>0
  <2>2. hi[y] <= sep \/ sep <= lo[y]
    BY <1>2, <1>5, <2>1
  <2>3. \/ hi[y] <= lo[p]
        \/ hi[p] <= lo[y]
        \/ lev[y] < lev[p] /\ lo[p] <= lo[y] /\ hi[y] <= hi[p]
    BY <1>0, <1>5, <2>1 DEF Nested
  <2> QED
    BY <2>1, <2>2, <2>3, <1>0, <1>1, <1>5
<1>6. CASE y \in {p, s} /\ x \in T /\ x # p
  <2>1. hi2[x] = hi[x] /\ lo2[x] = lo[x] /\ lev[p] <= lev[x]
    BY <1>6, <1>0
  <2>2. \/ hi[p] <= lo[x]
        \/ hi[x] <= lo[p]
        \/ lev[p] < lev[x] /\ lo[x] <= lo[p] /\ hi[p] <= hi[x]
    BY <1>0, <1>6, <2>1 DEF Nested
  <2> QED
    BY <2>1, <2>2, <1>0, <1>1, <1>6
<1>7. CASE x \in T /\ y \in T /\ x # p /\ y # p
  BY <1>7, <1>0 DEF Nested
<1> QED
  BY <1>0, <1>3, <1>4, <1>5, <1>6, <1>7

LEMMA SplitCover ==
  ASSUME NEW d, NEW d2, NEW T, NEW X, NEW lo, NEW hi, NEW lev, NEW lo2, NEW hi2, NEW lev2,
         NEW p, NEW s, NEW sep, NEW n \in Nat, NEW h, TypedPages(d), n <= LastIndexPage + 1,
         SplitStep(d, d2, T, X, lo, hi, lev, lo2, hi2, lev2, p, s, sep),
         Spans(n, h, T, lo, hi, lev), Kinds(d, T, lev),
         Cover(T, lo, hi, lev), Fits(d, T, lo, hi, lev)
  PROVE  Cover(T \cup {s}, lo2, hi2, lev2) /\ Fits(d2, T \cup {s}, lo2, hi2, lev2)
<1>0. /\ p \in T /\ s \notin T /\ sep \in Nat /\ lo[p] < sep /\ sep < hi[p]
      /\ \A q \in T : lo2[q] = lo[q] /\ lev2[q] = lev[q] /\ (q # p => hi2[q] = hi[q])
      /\ hi2[p] = sep /\ lo2[s] = sep /\ hi2[s] = hi[p] /\ lev2[s] = lev[p]
  BY DEF SplitStep
<1>1. \A q \in T : lo[q] \in Nat /\ hi[q] \in Nat /\ lo[q] < hi[q] /\ lev[q] \in Nat
  BY DEF Spans
<1>2. ASSUME NEW k \in Keys
      PROVE  \E q \in T \cup {s} : lev2[q] = 0 /\ lo2[q] <= k /\ k < hi2[q]
  <2>1. k \in Nat
    BY TopType
  <2>2. PICK q \in T : lev[q] = 0 /\ lo[q] <= k /\ k < hi[q]
    BY DEF Cover
  <2>3. CASE q # p
    BY <2>2, <2>3, <1>0
  <2>4. CASE q = p /\ k < sep
    BY <2>2, <2>4, <1>0
  <2>5. CASE q = p /\ sep <= k
    BY <2>2, <2>5, <1>0
  <2> QED
    BY <2>1, <2>3, <2>4, <2>5, <1>0
<1>3. ASSUME NEW q \in T \cup {s}, lev2[q] = 0, NEW k \in DOMAIN d2[q].entries
      PROVE  lo2[q] <= k /\ k < hi2[q]
  <2>1. CASE q \in {p, s}
    <3>1. lev[p] = 0
      BY <2>1, <1>0, <1>3
    <3>2. d[p].kind = "leaf" /\ DOMAIN d[p].entries \subseteq Nat
      BY <3>1, <1>0, LeafPage
    <3>3. /\ DOMAIN d2[p].entries = {x \in DOMAIN d[p].entries : x < sep}
          /\ DOMAIN d2[s].entries = {x \in DOMAIN d[p].entries : sep <= x}
      BY <3>2 DEF SplitStep, SplitInto
    <3>4. k \in DOMAIN d[p].entries /\ (q = p => k < sep) /\ (q = s => sep <= k)
      BY <3>3, <1>3, <2>1
    <3>5. lo[p] <= k /\ k < hi[p] /\ k \in Nat
      BY <3>1, <3>2, <3>4, <1>0 DEF Fits
    <3> QED
      BY <3>4, <3>5, <2>1, <1>0, <1>1
  <2>2. CASE q \in T /\ q # p
    <3>1. lo2[q] = lo[q] /\ hi2[q] = hi[q] /\ lev[q] = 0
      BY <2>2, <1>0, <1>3
    <3>2. d2[q] = d[q]
      BY <2>2, <3>1 DEF SplitStep
    <3> QED
      BY <3>1, <3>2, <2>2, <1>3 DEF Fits
  <2> QED
    BY <2>1, <2>2
<1>4. Cover(T \cup {s}, lo2, hi2, lev2)
  BY <1>2 DEF Cover
<1> QED
  BY <1>3, <1>4 DEF Fits

\* The children of every page but those in X.
LEMMA SplitKids ==
  ASSUME NEW d, NEW d2, NEW T, NEW X, NEW lo, NEW hi, NEW lev, NEW lo2, NEW hi2, NEW lev2,
         NEW p, NEW s, NEW sep, NEW n \in Nat, NEW h, TypedPages(d), n <= LastIndexPage + 1,
         SplitStep(d, d2, T, X, lo, hi, lev, lo2, hi2, lev2, p, s, sep),
         Spans(n, h, T, lo, hi, lev), Kinds(d, T, lev), AllKids(d, T, lo, hi, lev),
         NEW q \in T \cup {s}, lev2[q] # 0, q \notin X,
         q \in T => ~HasChild(d, lev, q, p)
  PROVE  Kids(d2, T \cup {s}, lo2, hi2, lev2, q)
<1>0. /\ p \in T /\ s \notin T /\ sep \in Nat /\ lo[p] < sep /\ sep < hi[p]
      /\ \A x \in T : lo2[x] = lo[x] /\ lev2[x] = lev[x] /\ (x # p => hi2[x] = hi[x])
      /\ hi2[p] = sep /\ lo2[s] = sep /\ hi2[s] = hi[p] /\ lev2[s] = lev[p]
  BY DEF SplitStep
<1>1. \A x \in T : lo[x] \in Nat /\ hi[x] \in Nat /\ lo[x] < hi[x] /\ lev[x] \in Nat
  BY DEF Spans
<1>2. CASE q \in T /\ q # p
  <2>1. d2[q] = d[q] /\ lev[q] # 0 /\ lo2[q] = lo[q] /\ hi2[q] = hi[q] /\ lev2[q] = lev[q]
    BY <1>0, <1>2 DEF SplitStep
  <2> SUFFICES ASSUME NEW b \in DOMAIN d[q].children
               PROVE  LET c == d[q].children[b] IN
                      /\ c \in T \cup {s} /\ lev2[c] = lev2[q] - 1
                      /\ lo2[c] = (IF b = 0 THEN lo2[q] ELSE b)
                      /\ b = 0 \/ (lo2[q] < b /\ b < hi2[q])
                      /\ hi2[c] = hi2[q] \/ hi2[c] \in DOMAIN d[q].children
                      /\ hi2[c] <= hi2[q]
                      /\ \A b2 \in DOMAIN d[q].children : b < b2 => hi2[c] <= b2
    BY <2>1 DEF Kids
  <2> DEFINE c == d[q].children[b]
  <2>2. c # p
    BY <1>2, <2>1 DEF HasChild
  <2>3. /\ c \in T /\ lev[c] = lev[q] - 1
        /\ lo[c] = (IF b = 0 THEN lo[q] ELSE b)
        /\ b = 0 \/ (lo[q] < b /\ b < hi[q])
        /\ hi[c] = hi[q] \/ hi[c] \in DOMAIN d[q].children
        /\ hi[c] <= hi[q]
        /\ \A b2 \in DOMAIN d[q].children : b < b2 => hi[c] <= b2
    BY <1>2, <2>1 DEF AllKids, Kids
  <2>4. lo2[c] = lo[c] /\ lev2[c] = lev[c] /\ hi2[c] = hi[c]
    BY <2>2, <2>3, <1>0
  <2> HIDE DEF c
  <2> QED
    BY <2>1, <2>3, <2>4 DEF c
<1>3. ASSUME q = p \/ q = s
      PROVE  Kids(d2, T \cup {s}, lo2, hi2, lev2, q)
  <2> DEFINE D == DOMAIN d[p].children
  <2>1. lev[p] # 0 /\ lev2[q] = lev[p] /\ lev[p] \in Nat
    BY <1>0, <1>1, <1>3
  <2>2. d[p].kind = "internal" /\ D \subseteq Nat
    BY <2>1, <1>0, InnerPage
  <2>3. /\ sep \in D
        /\ DOMAIN d2[p].children = {b \in D : b < sep}
        /\ DOMAIN d2[s].children = {0} \cup {b \in D : sep < b}
        /\ \A b \in DOMAIN d2[p].children : d2[p].children[b] = d[p].children[b]
        /\ \A b \in DOMAIN d2[s].children :
             d2[s].children[b] = d[p].children[IF b = 0 THEN sep ELSE b]
    BY <2>2 DEF SplitStep, SplitInto
  <2>4. \A b \in D :
          LET c == d[p].children[b] IN
            /\ c \in T /\ lev[c] = lev[p] - 1
            /\ lo[c] = (IF b = 0 THEN lo[p] ELSE b)
            /\ b = 0 \/ (lo[p] < b /\ b < hi[p])
            /\ hi[c] = hi[p] \/ hi[c] \in D
            /\ hi[c] <= hi[p]
            /\ \A b2 \in D : b < b2 => hi[c] <= b2
    BY <2>1, <1>0 DEF AllKids, Kids
  <2>5. ASSUME NEW b \in D
        PROVE  LET c == d[p].children[b] IN
               lo2[c] = lo[c] /\ hi2[c] = hi[c] /\ lev2[c] = lev[c]
    <3>1. d[p].children[b] # p
      BY <2>1, <2>4
    <3> QED
      BY <3>1, <2>4, <1>0
  <2> HIDE DEF D
  <2>6. CASE q = p
    <3> SUFFICES ASSUME NEW b \in DOMAIN d2[p].children
                 PROVE  LET c == d2[p].children[b] IN
                        /\ c \in T \cup {s} /\ lev2[c] = lev2[p] - 1
                        /\ lo2[c] = (IF b = 0 THEN lo2[p] ELSE b)
                        /\ b = 0 \/ (lo2[p] < b /\ b < hi2[p])
                        /\ hi2[c] = hi2[p] \/ hi2[c] \in DOMAIN d2[p].children
                        /\ hi2[c] <= hi2[p]
                        /\ \A b2 \in DOMAIN d2[p].children : b < b2 => hi2[c] <= b2
      BY <2>6 DEF Kids
    <3> DEFINE c == d2[p].children[b]
    <3>1. b \in D /\ b < sep /\ b \in Nat /\ c = d[p].children[b]
      BY <2>2, <2>3
    <3>2. /\ c \in T /\ lev[c] = lev[p] - 1
          /\ lo[c] = (IF b = 0 THEN lo[p] ELSE b)
          /\ b = 0 \/ (lo[p] < b /\ b < hi[p])
          /\ hi[c] = hi[p] \/ hi[c] \in D
          /\ hi[c] <= hi[p]
          /\ \A b2 \in D : b < b2 => hi[c] <= b2
      BY <3>1, <2>4
    <3>3. lo2[c] = lo[c] /\ hi2[c] = hi[c] /\ lev2[c] = lev[c]
      BY <3>1, <2>5
    <3> HIDE DEF c
    <3>4. hi[c] <= sep /\ hi[c] \in Nat
      BY <3>1, <3>2, <2>3, <1>1
    <3>5. hi2[c] = hi2[p] \/ hi2[c] \in DOMAIN d2[p].children
      BY <3>2, <3>3, <3>4, <2>3, <1>0, <1>1
    <3>6. hi2[c] <= hi2[p] /\ \A b2 \in DOMAIN d2[p].children : b < b2 => hi2[c] <= b2
      BY <3>2, <3>3, <3>4, <2>3, <1>0
    <3>7. b = 0 \/ (lo2[p] < b /\ b < hi2[p])
      BY <3>1, <3>2, <1>0
    <3>8. lev2[c] = lev2[p] - 1 /\ lo2[c] = (IF b = 0 THEN lo2[p] ELSE b)
      BY <3>2, <3>3, <1>0
    <3> QED
      BY <3>2, <3>5, <3>6, <3>7, <3>8 DEF c
  <2>7. CASE q = s
    <3> SUFFICES ASSUME NEW b \in DOMAIN d2[s].children
                 PROVE  LET c == d2[s].children[b] IN
                        /\ c \in T \cup {s} /\ lev2[c] = lev2[s] - 1
                        /\ lo2[c] = (IF b = 0 THEN lo2[s] ELSE b)
                        /\ b = 0 \/ (lo2[s] < b /\ b < hi2[s])
                        /\ hi2[c] = hi2[s] \/ hi2[c] \in DOMAIN d2[s].children
                        /\ hi2[c] <= hi2[s]
                        /\ \A b2 \in DOMAIN d2[s].children : b < b2 => hi2[c] <= b2
      BY <2>7 DEF Kids
    <3> DEFINE c == d2[s].children[b]
               a == IF b = 0 THEN sep ELSE b
    <3>0. b \in Nat /\ (b = 0 \/ (b \in D /\ sep < b))
      <4>1. b \in {0} \cup {x \in D : sep < x}
        BY <2>3
      <4> QED
        BY <4>1, <2>2
    <3>1. a \in D /\ a \in Nat /\ sep <= a /\ c = d[p].children[a] /\ a # 0
          /\ (b = 0 => a = sep) /\ (b # 0 => a = b) /\ (b # 0 => sep < a)
      BY <3>0, <2>2, <2>3, <1>0, <1>1
    <3>2. /\ c \in T /\ lev[c] = lev[p] - 1
          /\ lo[c] = (IF a = 0 THEN lo[p] ELSE a)
          /\ a = 0 \/ (lo[p] < a /\ a < hi[p])
          /\ hi[c] = hi[p] \/ hi[c] \in D
          /\ hi[c] <= hi[p]
          /\ \A b2 \in D : a < b2 => hi[c] <= b2
      BY <3>1, <2>4
    <3>3. lo2[c] = lo[c] /\ hi2[c] = hi[c] /\ lev2[c] = lev[c]
      BY <3>1, <2>5
    <3> HIDE DEF c, a
    <3>4. lo[c] = a /\ hi[c] \in Nat /\ a < hi[c] /\ sep < hi[c]
      BY <3>1, <3>2, <1>0, <1>1
    <3>5. hi2[c] = hi2[s] \/ hi2[c] \in DOMAIN d2[s].children
      BY <3>2, <3>3, <3>4, <2>3, <1>0, <1>1
    <3>6. \A b2 \in DOMAIN d2[s].children : b < b2 => hi2[c] <= b2
      <4> SUFFICES ASSUME NEW b2 \in DOMAIN d2[s].children, b < b2
                   PROVE  hi[c] <= b2
        BY <3>3
      <4>1. b2 \in D /\ sep < b2
        BY <3>0, <2>3
      <4>2. a < b2
        BY <4>1, <3>1
      <4> QED
        BY <4>1, <4>2, <3>2
    <3>7. b = 0 \/ (lo2[s] < b /\ b < hi2[s])
      BY <3>1, <3>2, <1>0
    <3>8. lev2[c] = lev2[s] - 1 /\ lo2[c] = (IF b = 0 THEN lo2[s] ELSE b)
      BY <3>1, <3>2, <3>3, <3>4, <1>0
    <3>9. hi2[c] <= hi2[s]
      BY <3>2, <3>3, <1>0
    <3> QED
      BY <3>2, <3>5, <3>6, <3>7, <3>8, <3>9 DEF c
  <2> QED
    BY <2>6, <2>7, <1>3
<1> QED
  BY <1>2, <1>3

\* Every page that had a parent still has one, but for p and s.
LEMMA SplitParented ==
  ASSUME NEW d, NEW d2, NEW T, NEW X, NEW lo, NEW hi, NEW lev, NEW lo2, NEW hi2, NEW lev2,
         NEW p, NEW s, NEW sep, NEW n \in Nat, NEW h, TypedPages(d), n <= LastIndexPage + 1,
         SplitStep(d, d2, T, X, lo, hi, lev, lo2, hi2, lev2, p, s, sep),
         Spans(n, h, T, lo, hi, lev), Kinds(d, T, lev),
         NEW c \in T, NEW q \in T, HasChild(d, lev, q, c)
  PROVE  \E x \in T \cup {s} : HasChild(d2, lev2, x, c)
<1>1. PICK b \in DOMAIN d[q].children : d[q].children[b] = c
  BY DEF HasChild
<1>2. lev[q] # 0 /\ lev2[q] = lev[q]
  BY DEF HasChild, SplitStep
<1>3. CASE q \in X
  <2>1. b \in DOMAIN d2[q].children /\ d2[q].children[b] = c
    BY <1>1, <1>3 DEF SplitStep
  <2> QED
    BY <2>1, <1>2 DEF HasChild
<1>4. CASE q \notin X /\ q # p
  <2>1. d2[q] = d[q]
    BY <1>4 DEF SplitStep
  <2> QED
    BY <2>1, <1>1, <1>2 DEF HasChild
<1>5. CASE q = p
  <2> DEFINE D == DOMAIN d[p].children
  <2>1. d[p].kind = "internal" /\ D \subseteq Nat
    BY <1>2, <1>5, InnerPage
  <2>2. /\ sep \in D /\ sep \in Nat
        /\ DOMAIN d2[p].children = {x \in D : x < sep}
        /\ DOMAIN d2[s].children = {0} \cup {x \in D : sep < x}
        /\ \A x \in DOMAIN d2[p].children : d2[p].children[x] = d[p].children[x]
        /\ \A x \in DOMAIN d2[s].children :
             d2[s].children[x] = d[p].children[IF x = 0 THEN sep ELSE x]
        /\ lev2[s] = lev[p]
    BY <2>1 DEF SplitStep, SplitInto
  <2>3. b \in D /\ b \in Nat
    BY <1>1, <1>5, <2>1
  <2>4. CASE b < sep
    <3>1. b \in DOMAIN d2[p].children /\ d2[p].children[b] = c
      BY <2>2, <2>3, <2>4, <1>1, <1>5
    <3> QED
      BY <3>1, <1>2, <1>5 DEF HasChild
  <2>5. CASE b = sep
    <3>1. 0 \in DOMAIN d2[s].children
      BY <2>2
    <3>2. d2[s].children[0] = d[p].children[sep]
      BY <3>1, <2>2
    <3> QED
      BY <3>1, <3>2, <2>2, <2>5, <1>1, <1>2, <1>5 DEF HasChild
  <2>6. CASE sep < b
    <3>1. b \in DOMAIN d2[s].children /\ b # 0
      BY <2>2, <2>3, <2>6
    <3>2. d2[s].children[b] = d[p].children[b]
      BY <3>1, <2>2
    <3> QED
      BY <3>1, <3>2, <2>2, <1>1, <1>2, <1>5 DEF HasChild
  <2> QED
    BY <2>2, <2>3, <2>4, <2>5, <2>6
<1> QED
  BY <1>3, <1>4, <1>5

\* Page q adopts s.
Adopts(d, d2, q, s, sep) ==
  /\ d2[q].kind = "internal"
  /\ DOMAIN d2[q].children = DOMAIN d[q].children \cup {sep}
  /\ \A b \in DOMAIN d[q].children \cup {sep} :
       d2[q].children[b] = IF b = sep THEN s ELSE d[q].children[b]

\* A child of P is split and P, which had room, adopts the sibling.
LEMMA ChildSplitOK ==
  ASSUME NEW d, NEW d2, NEW T, NEW lo, NEW hi, NEW lev, NEW lo2, NEW hi2, NEW lev2,
         NEW p, NEW s \in Nat, NEW sep, NEW n \in Nat, NEW n2 \in Nat, NEW h, NEW r,
         TypedPages(d), n <= LastIndexPage + 1, n <= s, s > 0, s < n2,
         TreeOK(d, r, h, n, T, lo, hi, lev),
         NEW P \in T, lev[P] # 0,
         NEW b0 \in DOMAIN d[P].children, d[P].children[b0] = p,
         Adopts(d, d2, P, s, sep),
         sep \notin DOMAIN d[P].children =>
           SplitStep(d, d2, T, {P}, lo, hi, lev, lo2, hi2, lev2, p, s, sep),
         sep \in Nat, p \in T, lo[p] < sep, sep < hi[p]
  PROVE  TreeOK(d2, r, h, n2, T \cup {s}, lo2, hi2, lev2)
<1> /\ d2[P].kind = "internal"
    /\ DOMAIN d2[P].children = DOMAIN d[P].children \cup {sep}
    /\ \A b \in DOMAIN d[P].children \cup {sep} :
         d2[P].children[b] = IF b = sep THEN s ELSE d[P].children[b]
  BY DEF Adopts
<1> DEFINE D == DOMAIN d[P].children
<1>1. /\ Rooted(r, n, h, T, lo, hi, lev) /\ Spans(n, h, T, lo, hi, lev) /\ Kinds(d, T, lev)
      /\ AllKids(d, T, lo, hi, lev) /\ Nested(T, lo, hi, lev) /\ Parented(d, r, T, lev)
      /\ Cover(T, lo, hi, lev) /\ Fits(d, T, lo, hi, lev)
  BY DEF TreeOK
<1>2. \A x \in T : lo[x] \in Nat /\ hi[x] \in Nat /\ lo[x] < hi[x] /\ lev[x] \in Nat /\ x # s
  BY <1>1 DEF Spans
<1>3. D \subseteq Nat /\ 0 \in D /\ d[P].kind = "internal"
  BY <1>1, InnerPage
<1>4. \A b \in D :
        LET c == d[P].children[b] IN
          /\ c \in T /\ lev[c] = lev[P] - 1
          /\ lo[c] = (IF b = 0 THEN lo[P] ELSE b)
          /\ b = 0 \/ (lo[P] < b /\ b < hi[P])
          /\ hi[c] = hi[P] \/ hi[c] \in D
          /\ hi[c] <= hi[P]
          /\ \A b2 \in D : b < b2 => hi[c] <= b2
  BY <1>1 DEF AllKids, Kids
<1>5. /\ p \in T /\ lev[p] = lev[P] - 1 /\ lo[p] = (IF b0 = 0 THEN lo[P] ELSE b0)
      /\ b0 = 0 \/ (lo[P] < b0 /\ b0 < hi[P])
      /\ hi[p] = hi[P] \/ hi[p] \in D
      /\ hi[p] <= hi[P]
      /\ \A b2 \in D : b0 < b2 => hi[p] <= b2
  BY <1>4
<1> HIDE DEF D
<1>6. b0 < sep /\ b0 \in D /\ b0 \in Nat /\ lo[P] < sep /\ sep < hi[P] /\ sep # 0
  BY <1>2, <1>3, <1>5 DEF D
<1>7. sep \notin D
  BY <1>2, <1>5, <1>6
<1>8. SplitStep(d, d2, T, {P}, lo, hi, lev, lo2, hi2, lev2, p, s, sep)
  BY <1>7 DEF D
<1>9. /\ \A x \in T : lo2[x] = lo[x] /\ lev2[x] = lev[x] /\ (x # p => hi2[x] = hi[x])
      /\ hi2[p] = sep /\ lo2[s] = sep /\ hi2[s] = hi[p] /\ lev2[s] = lev[p]
  BY <1>8 DEF SplitStep
<1>10. P # p
  BY <1>2, <1>5
<1>11. Spans(n2, h, T \cup {s}, lo2, hi2, lev2) /\ Kinds(d2, T \cup {s}, lev2)
  BY <1>1, <1>8, SplitSpans
<1>12. Nested(T \cup {s}, lo2, hi2, lev2)
  BY <1>1, <1>8, SplitNested
<1>13. Cover(T \cup {s}, lo2, hi2, lev2) /\ Fits(d2, T \cup {s}, lo2, hi2, lev2)
  BY <1>1, <1>8, SplitCover
<1>14. \A b \in D : d[P].children[b] = p => b = b0
  <2> SUFFICES ASSUME NEW b \in D, d[P].children[b] = p PROVE b = b0
    OBVIOUS
  <2> QED
    BY <1>1, <1>6, OnlyParent DEF D
<1>15. Kids(d2, T \cup {s}, lo2, hi2, lev2, P)
  <2> SUFFICES ASSUME NEW b \in D \cup {sep}
               PROVE  LET c == d2[P].children[b] IN
                      /\ c \in T \cup {s} /\ lev2[c] = lev2[P] - 1
                      /\ lo2[c] = (IF b = 0 THEN lo2[P] ELSE b)
                      /\ b = 0 \/ (lo2[P] < b /\ b < hi2[P])
                      /\ hi2[c] = hi2[P] \/ hi2[c] \in D \cup {sep}
                      /\ hi2[c] <= hi2[P]
                      /\ \A b2 \in D \cup {sep} : b < b2 => hi2[c] <= b2
    BY DEF Kids, D
  <2> DEFINE c == d2[P].children[b]
  <2>1. c = IF b = sep THEN s ELSE d[P].children[b]
    BY DEF D
  <2>2. lo2[P] = lo[P] /\ hi2[P] = hi[P] /\ lev2[P] = lev[P]
    BY <1>9, <1>10
  <2> HIDE DEF c
  <2>3. CASE b = sep
    <3>1. c = s
      BY <2>1, <2>3
    <3>2. \A b2 \in D \cup {sep} : b < b2 => hi2[c] <= b2
      BY <3>1, <2>3, <1>3, <1>5, <1>6, <1>9
    <3>3. lev2[c] = lev2[P] - 1 /\ lo2[c] = b /\ b # 0 /\ lo2[P] < b /\ b < hi2[P]
      BY <3>1, <2>2, <2>3, <1>5, <1>6, <1>9
    <3>4. hi2[c] <= hi2[P] /\ (hi2[c] = hi2[P] \/ hi2[c] \in D \cup {sep})
      BY <3>1, <2>2, <1>5, <1>9
    <3> QED
      BY <3>1, <3>2, <3>3, <3>4 DEF c
  <2>4. CASE b = b0
    <3>1. c = p
      BY <2>1, <2>4, <1>6
    <3>2. \A b2 \in D \cup {sep} : b < b2 => hi2[c] <= b2
      BY <3>1, <2>4, <1>2, <1>3, <1>5, <1>9
    <3>3. lev2[c] = lev2[P] - 1 /\ lo2[c] = (IF b = 0 THEN lo2[P] ELSE b)
          /\ (b = 0 \/ (lo2[P] < b /\ b < hi2[P]))
      BY <3>1, <2>2, <2>4, <1>5, <1>9
    <3>4. hi2[c] <= hi2[P] /\ hi2[c] \in D \cup {sep}
      BY <3>1, <2>2, <1>6, <1>2, <1>9
    <3>5. c \in T \cup {s}
      BY <3>1
    <3> QED
      BY <3>2, <3>3, <3>4, <3>5 DEF c
  <2>5. CASE b # sep /\ b # b0
    <3>1. b \in D /\ b \in Nat /\ c = d[P].children[b] /\ c # p
      BY <2>1, <2>5, <1>3, <1>14
    <3>2. /\ c \in T /\ lev[c] = lev[P] - 1
          /\ lo[c] = (IF b = 0 THEN lo[P] ELSE b)
          /\ b = 0 \/ (lo[P] < b /\ b < hi[P])
          /\ hi[c] = hi[P] \/ hi[c] \in D
          /\ hi[c] <= hi[P]
          /\ \A b2 \in D : b < b2 => hi[c] <= b2
      BY <3>1, <1>4
    <3>3. lo2[c] = lo[c] /\ hi2[c] = hi[c] /\ lev2[c] = lev[c]
      BY <3>1, <3>2, <1>9
    <3>4. b < sep => hi[c] <= sep
      <4>1. CASE b < b0
        <5>1. hi[c] <= b0
          BY <4>1, <3>2, <1>6
        <5> QED
          BY <5>1, <3>2, <1>2, <1>6
      <4>2. CASE b > b0
        <5>1. hi[p] <= b
          BY <4>2, <3>1, <1>5
        <5> QED
          BY <5>1, <3>1, <1>2
      <4> QED
        BY <4>1, <4>2, <2>5, <3>1, <1>6
    <3>5. \A b2 \in D \cup {sep} : b < b2 => hi2[c] <= b2
      BY <3>2, <3>3, <3>4
    <3>6. lev2[c] = lev2[P] - 1 /\ lo2[c] = (IF b = 0 THEN lo2[P] ELSE b)
          /\ (b = 0 \/ (lo2[P] < b /\ b < hi2[P]))
          /\ hi2[c] <= hi2[P] /\ (hi2[c] = hi2[P] \/ hi2[c] \in D \cup {sep})
      BY <3>2, <3>3, <2>2
    <3>7. c \in T \cup {s}
      BY <3>2
    <3> QED
      BY <3>5, <3>6, <3>7 DEF c
  <2> QED
    BY <2>3, <2>4, <2>5
<1>16. ASSUME NEW q \in T \cup {s}, lev2[q] # 0
       PROVE  Kids(d2, T \cup {s}, lo2, hi2, lev2, q)
  <2>1. CASE q = P
    BY <2>1, <1>15
  <2>2. CASE q # P
    <3>1. q \notin {P}
      BY <2>2
    <3>2. ASSUME q \in T PROVE ~HasChild(d, lev, q, p)
      <4> SUFFICES ASSUME HasChild(d, lev, q, p) PROVE FALSE
        OBVIOUS
      <4>1. lev[q] # 0
        BY DEF HasChild
      <4>2. PICK a \in DOMAIN d[q].children : d[q].children[a] = p
        BY DEF HasChild
      <4>3. q = P
        BY <4>1, <4>2, <3>2, <1>1, OnlyParent
      <4> QED
        BY <4>3, <2>2
    <3>3. q \in T => ~HasChild(d, lev, q, p)
      BY <3>2
    <3> HIDE DEF D
    <3> QED
      BY <1>1, <1>8, <1>16, <3>1, <3>3, SplitKids, Zenon
  <2> QED
    BY <2>1, <2>2
<1>17. AllKids(d2, T \cup {s}, lo2, hi2, lev2)
  BY <1>16 DEF AllKids
<1>18. Parented(d2, r, T \cup {s}, lev2)
  <2> SUFFICES ASSUME NEW c \in T \cup {s}, c # r
               PROVE  \E x \in T \cup {s} : HasChild(d2, lev2, x, c)
    BY Zenon DEF Parented
  <2>1. CASE c = s
    <3>1. sep \in DOMAIN d2[P].children /\ d2[P].children[sep] = s /\ lev2[P] # 0
      BY <1>9
    <3> QED
      BY <3>1, <2>1 DEF HasChild
  <2>2. CASE c \in T
    <3>1. PICK q \in T : HasChild(d, lev, q, c)
      BY <2>2, <1>1 DEF Parented
    <3>2. \E x \in T \cup {s} : HasChild(d2, lev2, x, c)
      <4> HIDE DEF D
      <4> QED
        BY <3>1, <2>2, <1>1, <1>8, SplitParented
    <3> QED
      BY <3>2
  <2> QED
    BY <2>1, <2>2
<1>19. Rooted(r, n2, h, T \cup {s}, lo2, hi2, lev2)
  <2>1. r \in T /\ lo[r] = 0 /\ hi[r] = Top /\ lev[r] = h - 1 /\ h \in Nat /\ h # 0 /\ h < n
    BY <1>1 DEF Rooted
  <2>2. r # p
    <3>1. lev[P] < h
      BY <1>1 DEF Spans
    <3> QED
      BY <3>1, <2>1, <1>2, <1>5
  <2> QED
    BY <2>1, <2>2, <1>9 DEF Rooted
<1> QED
  BY <1>11, <1>12, <1>13, <1>17, <1>18, <1>19 DEF TreeOK

\* The root is split and a new root N put above the halves.
LEMMA RootSplitOK ==
  ASSUME NEW d, NEW d2, NEW T, NEW lo, NEW hi, NEW lev, NEW lo2, NEW hi2, NEW lev2,
         NEW s \in Nat, NEW N \in Nat, NEW sep, NEW n \in Nat, NEW n2 \in Nat, NEW h, NEW r,
         TypedPages(d), n <= LastIndexPage + 1,
         n <= s, s > 0, s < n2, n <= N, N > 0, N < n2, s # N,
         TreeOK(d, r, h, n, T, lo, hi, lev),
         SplitStep(d, d2, T, {}, lo, hi, lev, lo2, hi2, lev2, r, s, sep),
         d2[N].kind = "internal", DOMAIN d2[N].children = {0, sep},
         d2[N].children[0] = r, d2[N].children[sep] = s,
         lo2[N] = 0, hi2[N] = Top, lev2[N] = h
  PROVE  TreeOK(d2, N, h + 1, n2, T \cup {s, N}, lo2, hi2, lev2)
<1> DEFINE T1 == T \cup {s}
           T2 == T \cup {s, N}
<1>1. /\ Rooted(r, n, h, T, lo, hi, lev) /\ Spans(n, h, T, lo, hi, lev) /\ Kinds(d, T, lev)
      /\ AllKids(d, T, lo, hi, lev) /\ Nested(T, lo, hi, lev) /\ Parented(d, r, T, lev)
      /\ Cover(T, lo, hi, lev) /\ Fits(d, T, lo, hi, lev)
  BY DEF TreeOK
<1>2. r \in T /\ lo[r] = 0 /\ hi[r] = Top /\ lev[r] = h - 1 /\ h \in Nat /\ h # 0 /\ h < n
  BY <1>1 DEF Rooted
<1>3. \A x \in T : /\ lo[x] \in Nat /\ hi[x] \in Nat /\ lo[x] < hi[x] /\ hi[x] <= Top
                   /\ lev[x] \in Nat /\ lev[x] < h /\ x # s /\ x # N
  BY <1>1 DEF Spans
<1>4. /\ \A x \in T : lo2[x] = lo[x] /\ lev2[x] = lev[x] /\ (x # r => hi2[x] = hi[x])
      /\ hi2[r] = sep /\ lo2[s] = sep /\ hi2[s] = hi[r] /\ lev2[s] = lev[r]
      /\ sep \in Nat /\ lo[r] < sep /\ sep < hi[r]
  BY DEF SplitStep
<1>5. Spans(n2, h, T1, lo2, hi2, lev2) /\ Kinds(d2, T1, lev2)
  BY <1>1, SplitSpans
<1>6. Nested(T1, lo2, hi2, lev2)
  BY <1>1, SplitNested
<1>7. Cover(T1, lo2, hi2, lev2) /\ Fits(d2, T1, lo2, hi2, lev2)
  BY <1>1, SplitCover
<1>8. \A q \in T : ~HasChild(d, lev, q, r)
  <2> SUFFICES ASSUME NEW q \in T, HasChild(d, lev, q, r) PROVE FALSE
    OBVIOUS
  <2>1. PICK a \in DOMAIN d[q].children : d[q].children[a] = r
    BY DEF HasChild
  <2>2. lev[r] = lev[q] - 1
    BY <2>1, <1>1 DEF HasChild, AllKids, Kids
  <2> QED
    BY <2>2, <1>2, <1>3
<1>9. ASSUME NEW q \in T1, lev2[q] # 0
      PROVE  Kids(d2, T1, lo2, hi2, lev2, q)
  <2>1. q \in T => ~HasChild(d, lev, q, r)
    BY <1>8
  <2>2. q \notin {}
    OBVIOUS
  <2> QED
    BY <1>1, <1>9, <2>1, <2>2, SplitKids
<1>10. T2 = T1 \cup {N}
  OBVIOUS
<1>11. \A x \in T1 : x # N
  BY <1>3
<1>12. \A x \in T1 : /\ lo2[x] \in Nat /\ hi2[x] \in Nat /\ lo2[x] < hi2[x] /\ hi2[x] <= Top
                     /\ lev2[x] \in Nat /\ lev2[x] < h
  BY <1>5 DEF Spans
<1>13. r \in T1 /\ s \in T1 /\ T \subseteq T1
  BY <1>2
<1>14. Top \in Nat /\ 0 < Top
  BY TopType DEF Top
<1>15. \A c \in T1 : c = r \/ c = s \/ \E x \in T1 : HasChild(d2, lev2, x, c)
  <2> SUFFICES ASSUME NEW c \in T1, c # r, c # s
               PROVE  \E x \in T1 : HasChild(d2, lev2, x, c)
    OBVIOUS
  <2>1. c \in T
    OBVIOUS
  <2>2. PICK q \in T : HasChild(d, lev, q, c)
    BY <2>1, <1>1 DEF Parented
  <2> QED
    BY <2>1, <2>2, <1>1, SplitParented
<1> HIDE DEF T1, T2
<1>16. Spans(n2, h + 1, T2, lo2, hi2, lev2)
  <2>1. T1 \subseteq 1..(n2 - 1) /\ N \in 1..(n2 - 1)
    BY <1>5 DEF Spans
  <2>2. T2 \subseteq 1..(n2 - 1)
    BY <2>1, <1>10
  <2>3. \A x \in T2 : /\ lo2[x] \in Nat /\ hi2[x] \in Nat /\ lo2[x] < hi2[x] /\ hi2[x] <= Top
                      /\ lev2[x] \in Nat /\ lev2[x] < h + 1
    BY <1>2, <1>10, <1>12, <1>14
  <2> QED
    BY <2>2, <2>3 DEF Spans
<1>17. Kinds(d2, T2, lev2)
  BY <1>2, <1>5, <1>10 DEF Kinds
<1>18. Kids(d2, T2, lo2, hi2, lev2, N)
  <2> SUFFICES ASSUME NEW b \in {0, sep}
               PROVE  LET c == d2[N].children[b] IN
                      /\ c \in T2 /\ lev2[c] = lev2[N] - 1
                      /\ lo2[c] = (IF b = 0 THEN lo2[N] ELSE b)
                      /\ b = 0 \/ (lo2[N] < b /\ b < hi2[N])
                      /\ hi2[c] = hi2[N] \/ hi2[c] \in {0, sep}
                      /\ hi2[c] <= hi2[N]
                      /\ \A b2 \in {0, sep} : b < b2 => hi2[c] <= b2
    BY DEF Kids
  <2>1. sep # 0 /\ r \in T2 /\ s \in T2
    BY <1>2, <1>4, <1>10, <1>13
  <2>2. CASE b = 0
    BY <2>1, <2>2, <1>2, <1>4, <1>14
  <2>3. CASE b = sep
    BY <2>1, <2>3, <1>2, <1>4, <1>14
  <2> QED
    BY <2>2, <2>3
<1>19. ASSUME NEW q \in T2, lev2[q] # 0
       PROVE  Kids(d2, T2, lo2, hi2, lev2, q)
  <2>1. CASE q = N
    BY <2>1, <1>18
  <2>2. CASE q \in T1
    <3>1. Kids(d2, T1, lo2, hi2, lev2, q)
      BY <2>2, <1>9, <1>19
    <3>2. T1 \subseteq T2
      BY <1>10
    <3> QED
      BY <3>1, <3>2 DEF Kids
  <2> QED
    BY <2>1, <2>2, <1>10
<1>20. AllKids(d2, T2, lo2, hi2, lev2)
  BY <1>19 DEF AllKids
<1>21. Nested(T2, lo2, hi2, lev2)
  <2> SUFFICES ASSUME NEW x \in T2, NEW y \in T2, lev2[y] <= lev2[x], x # y
               PROVE  \/ hi2[y] <= lo2[x]
                      \/ hi2[x] <= lo2[y]
                      \/ lev2[y] < lev2[x] /\ lo2[x] <= lo2[y] /\ hi2[y] <= hi2[x]
    BY DEF Nested
  <2>1. CASE x = N
    BY <2>1, <1>10, <1>12
  <2>2. CASE x # N /\ y = N
    BY <2>2, <1>2, <1>10, <1>12
  <2>3. CASE x # N /\ y # N
    BY <2>3, <1>6, <1>10 DEF Nested
  <2> QED
    BY <2>1, <2>2, <2>3
<1>22. Parented(d2, N, T2, lev2)
  <2> SUFFICES ASSUME NEW c \in T2, c # N
               PROVE  \E x \in T2 : HasChild(d2, lev2, x, c)
    BY Zenon DEF Parented
  <2>1. CASE c = r
    <3>1. 0 \in DOMAIN d2[N].children /\ lev2[N] # 0 /\ N \in T2
      BY <1>2, <1>10
    <3> QED
      BY <3>1, <2>1 DEF HasChild
  <2>2. CASE c = s
    <3>1. sep \in DOMAIN d2[N].children /\ lev2[N] # 0 /\ N \in T2
      BY <1>2, <1>10
    <3> QED
      BY <3>1, <2>2 DEF HasChild
  <2>3. CASE c # r /\ c # s
    <3>1. c \in T1
      BY <1>10
    <3>2. PICK x \in T1 : HasChild(d2, lev2, x, c)
      BY <3>1, <2>3, <1>15
    <3> QED
      BY <3>2, <1>10
  <2> QED
    BY <2>1, <2>2, <2>3
<1>23. Cover(T2, lo2, hi2, lev2)
  BY <1>7, <1>10 DEF Cover
<1>24. Fits(d2, T2, lo2, hi2, lev2)
  BY <1>2, <1>7, <1>10 DEF Fits
<1>25. Rooted(N, n2, h + 1, T2, lo2, hi2, lev2)
  <2>1. h + 1 < n2
    BY <1>2
  <2> QED
    BY <2>1, <1>2, <1>10 DEF Rooted
<1> QED
  BY <1>16, <1>17, <1>20, <1>21, <1>22, <1>23, <1>24, <1>25 DEF TreeOK, T2

\* The entries of a leaf may change within its span.
LEMMA LeafRewriteOK ==
  ASSUME NEW d, NEW d2, NEW T, NEW lo, NEW hi, NEW lev, NEW n, NEW h, NEW r,
         TreeOK(d, r, h, n, T, lo, hi, lev),
         NEW p \in T, lev[p] = 0, d2[p].kind = "leaf",
         \A k \in DOMAIN d2[p].entries : lo[p] <= k /\ k < hi[p],
         \A q \in T : q # p => d2[q] = d[q]
  PROVE  TreeOK(d2, r, h, n, T, lo, hi, lev)
<1>1. /\ Rooted(r, n, h, T, lo, hi, lev) /\ Spans(n, h, T, lo, hi, lev) /\ Kinds(d, T, lev)
      /\ AllKids(d, T, lo, hi, lev) /\ Nested(T, lo, hi, lev) /\ Parented(d, r, T, lev)
      /\ Cover(T, lo, hi, lev) /\ Fits(d, T, lo, hi, lev)
  BY DEF TreeOK
<1>2. Kinds(d2, T, lev)
  BY <1>1 DEF Kinds
<1>3. \A q \in T : lev[q] # 0 => d2[q] = d[q]
  OBVIOUS
<1>4. AllKids(d2, T, lo, hi, lev)
  BY <1>1, <1>3 DEF AllKids, Kids
<1>5. Parented(d2, r, T, lev)
  BY <1>1, <1>3 DEF Parented, HasChild
<1>6. Fits(d2, T, lo, hi, lev)
  BY <1>1 DEF Fits
<1> QED
  BY <1>1, <1>2, <1>4, <1>5, <1>6 DEF TreeOK

\* More pages handed out change nothing.
LEMMA TreeGrows ==
  ASSUME NEW d, NEW T, NEW lo, NEW hi, NEW lev, NEW n \in Nat, NEW n2 \in Nat, NEW h, NEW r,
         TreeOK(d, r, h, n, T, lo, hi, lev), n <= n2
  PROVE  TreeOK(d, r, h, n2, T, lo, hi, lev)
<1>1. Rooted(r, n2, h, T, lo, hi, lev)
  BY DEF TreeOK, Rooted
<1>2. Spans(n2, h, T, lo, hi, lev)
  <2>1. T \subseteq 1..(n - 1)
    BY DEF TreeOK, Spans
  <2>2. T \subseteq 1..(n2 - 1)
    BY <2>1
  <2> QED
    BY <2>2 DEF TreeOK, Spans
<1> QED
  BY <1>1, <1>2 DEF TreeOK

-----------------------------------------------------------------------------
(* A part of the tree lost *)

\* The pages of level m and below whose span lies in [a, b) are lost: those on d2
\* are T2.  Of the pages above level m either all (U) are kept, without the
\* children that are lost, or none.  What ended at a ends at b now.
CutStep(d, d2, T, U, T2, lo, hi, lev, hi2, a, b, m) ==
  /\ m \in Nat /\ a \in Nat /\ b \in Nat /\ 0 < a /\ a <= b /\ b <= Top
  /\ U = {} \/ U = {q \in T : m < lev[q]}
  /\ T2 = U \cup {q \in T : lev[q] <= m /\ ~(a <= lo[q] /\ hi[q] <= b)}
  /\ \A q \in T : lev[q] <= m => \/ hi[q] <= a
                                 \/ a <= lo[q] /\ hi[q] <= b
                                 \/ b <= lo[q]
  /\ \A q \in U : \/ lo[q] < a /\ b <= hi[q] /\ (lev[q] = m + 1 => b = hi[q])
                  \/ hi[q] < a
                  \/ b <= lo[q]
  /\ \A q \in T2 : hi2[q] = IF lev[q] <= m /\ hi[q] = a THEN b ELSE hi[q]
  /\ \A q \in T2 : lev[q] <= m => d2[q] = d[q]
  /\ \A q \in U :
       /\ d2[q].kind = "internal"
       /\ DOMAIN d2[q].children =
            {x \in DOMAIN d[q].children : d[q].children[x] \in T2}
       /\ \A x \in DOMAIN d2[q].children : d2[q].children[x] = d[q].children[x]

LEMMA CutSpans ==
  ASSUME NEW d, NEW d2, NEW T, NEW U, NEW T2, NEW lo, NEW hi, NEW lev, NEW hi2,
         NEW a, NEW b, NEW m, NEW n, NEW h, NEW h2,
         CutStep(d, d2, T, U, T2, lo, hi, lev, hi2, a, b, m),
         Spans(n, h, T, lo, hi, lev), Kinds(d, T, lev),
         \A q \in T2 : lev[q] < h2
  PROVE  Spans(n, h2, T2, lo, hi2, lev) /\ Kinds(d2, T2, lev)
<1>1. \A x \in T : lo[x] \in Nat /\ hi[x] \in Nat /\ lo[x] < hi[x] /\ hi[x] <= Top /\ lev[x] \in Nat
  BY DEF Spans
<1>2. T2 \subseteq T /\ m \in Nat /\ a \in Nat /\ b \in Nat /\ a <= b /\ b <= Top
  BY DEF CutStep
<1>3. \A q \in T2 : hi2[q] = hi[q] \/ (hi[q] = a /\ hi2[q] = b)
  BY DEF CutStep
<1>4. \A x \in T2 : lo[x] \in Nat /\ hi2[x] \in Nat /\ lo[x] < hi2[x] /\ hi2[x] <= Top /\ lev[x] \in Nat
  BY <1>1, <1>2, <1>3, TopType
<1>5. \A x \in T2 : d2[x] = d[x] \/ (lev[x] # 0 /\ d2[x].kind = "internal")
  BY <1>1, <1>2 DEF CutStep
<1>6. Kinds(d2, T2, lev)
  BY <1>2, <1>5 DEF Kinds
<1> QED
  BY <1>2, <1>4, <1>6 DEF Spans

LEMMA CutNested ==
  ASSUME NEW d, NEW d2, NEW T, NEW U, NEW T2, NEW lo, NEW hi, NEW lev, NEW hi2,
         NEW a, NEW b, NEW m, NEW n, NEW h,
         CutStep(d, d2, T, U, T2, lo, hi, lev, hi2, a, b, m),
         Spans(n, h, T, lo, hi, lev), Nested(T, lo, hi, lev)
  PROVE  Nested(T2, lo, hi2, lev)
<1>1. \A x \in T : lo[x] \in Nat /\ hi[x] \in Nat /\ lo[x] < hi[x] /\ hi[x] <= Top /\ lev[x] \in Nat
  BY DEF Spans
<1>2. T2 \subseteq T /\ m \in Nat /\ a \in Nat /\ b \in Nat /\ a <= b /\ b <= Top
  BY DEF CutStep
<1>3. \A q \in T2 : hi2[q] = IF lev[q] <= m /\ hi[q] = a THEN b ELSE hi[q]
  BY DEF CutStep
<1>4. \A q \in T2 : lev[q] <= m => hi[q] <= a \/ b <= lo[q]
  BY <1>1, <1>2 DEF CutStep
<1>5. \A q \in T2 : m < lev[q] => \/ lo[q] < a /\ b <= hi[q]
                                  \/ hi[q] < a
                                  \/ b <= lo[q]
  BY <1>1, <1>2 DEF CutStep
<1> SUFFICES ASSUME NEW x \in T2, NEW y \in T2, lev[y] <= lev[x], x # y
             PROVE  \/ hi2[y] <= lo[x]
                    \/ hi2[x] <= lo[y]
                    \/ lev[y] < lev[x] /\ lo[x] <= lo[y] /\ hi2[y] <= hi2[x]
  BY DEF Nested
<1>6. \/ hi[y] <= lo[x]
      \/ hi[x] <= lo[y]
      \/ lev[y] < lev[x] /\ lo[x] <= lo[y] /\ hi[y] <= hi[x]
  BY <1>2 DEF Nested
<1>7. /\ x \in T /\ y \in T /\ lev[x] \in Nat /\ lev[y] \in Nat
      /\ lo[x] \in Nat /\ hi[x] \in Nat /\ lo[x] < hi[x]
      /\ lo[y] \in Nat /\ hi[y] \in Nat /\ lo[y] < hi[y]
  BY <1>1, <1>2
<1>8. CASE m < lev[y]
  <2>1. hi2[x] = hi[x] /\ hi2[y] = hi[y]
    BY <1>2, <1>3, <1>7, <1>8
  <2> QED
    BY <2>1, <1>6
<1>9. CASE lev[y] <= m /\ m < lev[x]
  <2>1. hi2[x] = hi[x] /\ hi2[y] = IF hi[y] = a THEN b ELSE hi[y]
    BY <1>2, <1>3, <1>7, <1>9
  <2>2. \/ lo[x] < a /\ b <= hi[x]
        \/ hi[x] < a
        \/ b <= lo[x]
    BY <1>5, <1>9
  <2> QED
    BY <2>1, <2>2, <1>2, <1>6, <1>7, <1>9
<1>10. CASE lev[x] <= m
  <2>1. /\ hi2[x] = IF hi[x] = a THEN b ELSE hi[x]
        /\ hi2[y] = IF hi[y] = a THEN b ELSE hi[y]
    BY <1>2, <1>3, <1>7, <1>10
  <2>2. (hi[x] <= a \/ b <= lo[x]) /\ (hi[y] <= a \/ b <= lo[y])
    BY <1>2, <1>4, <1>7, <1>10
  <2> QED
    BY <2>1, <2>2, <1>2, <1>6, <1>7
<1> QED
  BY <1>2, <1>7, <1>8, <1>9, <1>10

LEMMA CutCover ==
  ASSUME NEW d, NEW d2, NEW T, NEW U, NEW T2, NEW lo, NEW hi, NEW lev, NEW hi2,
         NEW a, NEW b, NEW m, NEW n \in Nat, NEW h, TypedPages(d), n <= LastIndexPage + 1,
         CutStep(d, d2, T, U, T2, lo, hi, lev, hi2, a, b, m),
         Spans(n, h, T, lo, hi, lev), Kinds(d, T, lev),
         Cover(T, lo, hi, lev), Fits(d, T, lo, hi, lev)
  PROVE  Cover(T2, lo, hi2, lev) /\ Fits(d2, T2, lo, hi2, lev)
<1>1. \A x \in T : lo[x] \in Nat /\ hi[x] \in Nat /\ lo[x] < hi[x] /\ hi[x] <= Top /\ lev[x] \in Nat
  BY DEF Spans
<1>2. T2 \subseteq T /\ m \in Nat /\ a \in Nat /\ b \in Nat /\ a <= b /\ b <= Top /\ 0 < a
  BY DEF CutStep
<1>3. \A q \in T2 : hi2[q] = IF lev[q] <= m /\ hi[q] = a THEN b ELSE hi[q]
  BY DEF CutStep
<1>4. \A q \in T : lev[q] = 0 => hi[q] <= a \/ (a <= lo[q] /\ hi[q] <= b) \/ b <= lo[q]
  BY <1>1, <1>2 DEF CutStep
<1>5. \A q \in T : lev[q] = 0 /\ ~(a <= lo[q] /\ hi[q] <= b) => q \in T2
  BY <1>1, <1>2 DEF CutStep
<1>6. ASSUME NEW k \in Keys
      PROVE  \E q \in T2 : lev[q] = 0 /\ lo[q] <= k /\ k < hi2[q]
  <2>0. k \in Nat
    BY TopType
  <2>1. PICK q \in T : lev[q] = 0 /\ lo[q] <= k /\ k < hi[q]
    BY DEF Cover
  <2>2. CASE ~(a <= lo[q] /\ hi[q] <= b)
    <3>1. q \in T2
      BY <2>1, <2>2, <1>5
    <3>2. hi2[q] = hi[q] \/ (hi[q] = a /\ hi2[q] = b)
      BY <3>1, <1>3
    <3> QED
      BY <3>1, <3>2, <2>0, <2>1, <1>1, <1>2
  <2>3. CASE a <= lo[q] /\ hi[q] <= b
    <3>1. a - 1 \in Keys /\ a - 1 \in Nat
      BY <1>2, TopType DEF Top, Keys
    <3>2. PICK y \in T : lev[y] = 0 /\ lo[y] <= a - 1 /\ a - 1 < hi[y]
      BY <3>1 DEF Cover
    <3>3. hi[y] = a /\ lo[y] < a
      BY <3>2, <1>1, <1>2, <1>4
    <3>4. y \in T2
      BY <3>2, <3>3, <1>1, <1>2, <1>5
    <3>5. hi2[y] = b
      BY <3>2, <3>3, <3>4, <1>2, <1>3
    <3>6. lo[y] <= k /\ k < b
      BY <3>3, <2>0, <2>1, <2>3, <1>1, <1>2
    <3> QED
      BY <3>2, <3>4, <3>5, <3>6
  <2> QED
    BY <2>2, <2>3
<1>7. ASSUME NEW q \in T2, lev[q] = 0, NEW k \in DOMAIN d2[q].entries
      PROVE  lo[q] <= k /\ k < hi2[q]
  <2>1. d2[q] = d[q]
    BY <1>2, <1>7 DEF CutStep
  <2>2. lo[q] <= k /\ k < hi[q] /\ k \in Nat
    <3>1. DOMAIN d[q].entries \subseteq Nat
      BY <1>2, <1>7, LeafPage
    <3> QED
      BY <3>1, <2>1, <1>2, <1>7 DEF Fits
  <2>3. hi2[q] = hi[q] \/ (hi[q] = a /\ hi2[q] = b /\ a <= b)
    BY <1>2, <1>3
  <2>4. CASE hi2[q] = hi[q]
    BY <2>2, <2>4
  <2>5. CASE hi[q] = a /\ hi2[q] = b
    BY <2>2, <2>5, <1>2
  <2> QED
    BY <2>3, <2>4, <2>5
<1>8. Cover(T2, lo, hi2, lev)
  BY <1>6 DEF Cover
<1> QED
  BY <1>7, <1>8 DEF Fits

LEMMA CutKids ==
  ASSUME NEW d, NEW d2, NEW T, NEW U, NEW T2, NEW lo, NEW hi, NEW lev, NEW hi2,
         NEW a, NEW b, NEW m, NEW n \in Nat, NEW h, TypedPages(d), n <= LastIndexPage + 1,
         CutStep(d, d2, T, U, T2, lo, hi, lev, hi2, a, b, m),
         Spans(n, h, T, lo, hi, lev), Kinds(d, T, lev), AllKids(d, T, lo, hi, lev)
  PROVE  AllKids(d2, T2, lo, hi2, lev)
<1>1. \A x \in T : lo[x] \in Nat /\ hi[x] \in Nat /\ lo[x] < hi[x] /\ hi[x] <= Top /\ lev[x] \in Nat
  BY DEF Spans
<1>2. T2 \subseteq T /\ m \in Nat /\ a \in Nat /\ b \in Nat /\ a <= b /\ b <= Top /\ 0 < a
  BY DEF CutStep
<1>3. \A q \in T2 : hi2[q] = IF lev[q] <= m /\ hi[q] = a THEN b ELSE hi[q]
  BY DEF CutStep
<1>4. \A q \in T2 : lev[q] <= m => hi[q] <= a \/ b <= lo[q]
  BY <1>1, <1>2 DEF CutStep
<1>5. \A q \in T : lev[q] <= m => (q \in T2 <=> ~(a <= lo[q] /\ hi[q] <= b))
  BY <1>1, <1>2 DEF CutStep
<1> SUFFICES ASSUME NEW q \in T2, lev[q] # 0 PROVE Kids(d2, T2, lo, hi2, lev, q)
  BY DEF AllKids
<1> DEFINE D == DOMAIN d[q].children
<1>6. q \in T /\ D \subseteq Nat /\ d[q].kind = "internal"
  BY <1>2, InnerPage
<1>7. \A x \in D :
        LET c == d[q].children[x] IN
          /\ c \in T /\ lev[c] = lev[q] - 1
          /\ lo[c] = (IF x = 0 THEN lo[q] ELSE x)
          /\ x = 0 \/ (lo[q] < x /\ x < hi[q])
          /\ hi[c] = hi[q] \/ hi[c] \in D
          /\ hi[c] <= hi[q]
          /\ \A x2 \in D : x < x2 => hi[c] <= x2
  BY <1>6 DEF AllKids, Kids
<1> HIDE DEF D
<1>8. lo[q] \in Nat /\ hi[q] \in Nat /\ lo[q] < hi[q] /\ lev[q] \in Nat
  BY <1>1, <1>6
<1>9. CASE lev[q] <= m
  <2>1. d2[q] = d[q]
    BY <1>9 DEF CutStep
  <2> SUFFICES ASSUME NEW x \in D
               PROVE  LET c == d[q].children[x] IN
                      /\ c \in T2 /\ lev[c] = lev[q] - 1
                      /\ lo[c] = (IF x = 0 THEN lo[q] ELSE x)
                      /\ x = 0 \/ (lo[q] < x /\ x < hi2[q])
                      /\ hi2[c] = hi2[q] \/ hi2[c] \in D
                      /\ hi2[c] <= hi2[q]
                      /\ \A x2 \in D : x < x2 => hi2[c] <= x2
    BY <2>1 DEF Kids, D
  <2> DEFINE c == d[q].children[x]
  <2>2. /\ c \in T /\ lev[c] = lev[q] - 1
        /\ lo[c] = (IF x = 0 THEN lo[q] ELSE x)
        /\ x = 0 \/ (lo[q] < x /\ x < hi[q])
        /\ hi[c] = hi[q] \/ hi[c] \in D
        /\ hi[c] <= hi[q]
        /\ \A x2 \in D : x < x2 => hi[c] <= x2
    BY <1>7
  <2> HIDE DEF c
  <2>3. x \in Nat /\ lo[c] \in Nat /\ hi[c] \in Nat /\ lo[c] < hi[c] /\ lev[c] <= m /\ lo[q] <= lo[c]
    BY <1>1, <1>2, <1>6, <1>8, <1>9, <2>2
  <2>4. hi[q] <= a \/ b <= lo[q]
    BY <1>4, <1>9
  <2>5. c \in T2
    BY <2>2, <2>3, <2>4, <1>2, <1>5, <1>8
  <2>6. /\ hi2[c] = IF hi[c] = a THEN b ELSE hi[c]
        /\ hi2[q] = IF hi[q] = a THEN b ELSE hi[q]
    BY <2>3, <2>5, <1>3, <1>9
  <2>7. CASE hi[c] = a
    <3>1. hi[q] = a
      BY <2>2, <2>3, <2>4, <2>7, <1>2, <1>8
    <3>2. hi2[c] = b /\ hi2[q] = b
      BY <2>6, <2>7, <3>1
    <3>3. \A x2 \in D : ~(x < x2)
      <4> SUFFICES ASSUME NEW x2 \in D, x < x2 PROVE FALSE
        OBVIOUS
      <4>1. a <= x2 /\ x2 \in Nat /\ x2 # 0
        BY <2>2, <2>3, <2>7, <1>6
      <4>2. x2 < hi[q]
        BY <4>1, <1>7
      <4> QED
        BY <4>1, <4>2, <3>1, <1>2
    <3>4. x = 0 \/ (lo[q] < x /\ x < hi2[q])
      BY <2>2, <2>3, <3>1, <3>2, <1>2, <1>8
    <3> QED
      BY <2>2, <2>5, <3>2, <3>3, <3>4, <1>2 DEF c
  <2>8. CASE hi[c] # a
    <3>1. hi2[c] = hi[c]
      BY <2>6, <2>8
    <3>2. hi[q] <= hi2[q] /\ hi2[q] \in Nat
      BY <2>6, <1>2, <1>8
    <3>3. hi2[c] = hi2[q] \/ hi2[c] \in D
      BY <3>1, <2>2, <2>6, <2>8
    <3>4. hi2[c] <= hi2[q]
      BY <3>1, <3>2, <2>2, <2>3, <1>8
    <3>5. x = 0 \/ (lo[q] < x /\ x < hi2[q])
      BY <2>2, <2>3, <3>2, <1>8
    <3> QED
      BY <2>2, <2>5, <3>1, <3>3, <3>4, <3>5 DEF c
  <2> QED
    BY <2>7, <2>8
<1>10. CASE m < lev[q]
  <2>0. q \in U /\ U = {x \in T : m < lev[x]}
    BY <1>2, <1>8, <1>10 DEF CutStep
  <2> DEFINE D2 == DOMAIN d2[q].children
  <2>1. /\ D2 = {x \in D : d[q].children[x] \in T2}
        /\ \A x \in D2 : d2[q].children[x] = d[q].children[x]
    BY <2>0 DEF CutStep, D
  <2>2. hi2[q] = hi[q]
    BY <1>2, <1>3, <1>8, <1>10
  <2>3. \/ lo[q] < a /\ b <= hi[q] /\ (lev[q] = m + 1 => b = hi[q])
        \/ hi[q] < a
        \/ b <= lo[q]
    BY <2>0 DEF CutStep
  <2> SUFFICES ASSUME NEW x \in D2
               PROVE  LET c == d2[q].children[x] IN
                      /\ c \in T2 /\ lev[c] = lev[q] - 1
                      /\ lo[c] = (IF x = 0 THEN lo[q] ELSE x)
                      /\ x = 0 \/ (lo[q] < x /\ x < hi2[q])
                      /\ hi2[c] = hi2[q] \/ hi2[c] \in D2
                      /\ hi2[c] <= hi2[q]
                      /\ \A x2 \in D2 : x < x2 => hi2[c] <= x2
    BY DEF Kids
  <2> DEFINE c == d2[q].children[x]
  <2>4. x \in D /\ c = d[q].children[x] /\ c \in T2 /\ x \in Nat
    BY <2>1, <1>6
  <2>5. /\ c \in T /\ lev[c] = lev[q] - 1
        /\ lo[c] = (IF x = 0 THEN lo[q] ELSE x)
        /\ x = 0 \/ (lo[q] < x /\ x < hi[q])
        /\ hi[c] = hi[q] \/ hi[c] \in D
        /\ hi[c] <= hi[q]
        /\ \A x2 \in D : x < x2 => hi[c] <= x2
    BY <2>4, <1>7
  <2> HIDE DEF c, D2
  <2>6. lo[c] \in Nat /\ hi[c] \in Nat /\ lo[c] < hi[c] /\ lev[c] \in Nat
    BY <2>5, <1>1
  <2>7. CASE m < lev[c]
    <3>1. hi2[c] = hi[c]
      BY <2>4, <2>6, <2>7, <1>2, <1>3
    <3>2. hi[c] \in D => hi[c] \in D2
      <4> SUFFICES ASSUME hi[c] \in D PROVE hi[c] \in D2
        OBVIOUS
      <4> DEFINE e == d[q].children[hi[c]]
      <4>1. e \in T /\ lev[e] = lev[q] - 1
        BY <1>7
      <4>2. e \in U
        BY <4>1, <2>0, <2>5, <2>7
      <4>3. e \in T2
        BY <4>2 DEF CutStep
      <4> QED
        BY <4>3, <2>1
    <3>3. \A x2 \in D2 : x < x2 => hi2[c] <= x2
      BY <3>1, <2>1, <2>5
    <3> QED
      BY <3>1, <3>2, <3>3, <2>2, <2>4, <2>5 DEF c
  <2>8. CASE lev[c] <= m
    <3>0. lev[q] = m + 1
      BY <2>5, <2>8, <1>2, <1>8, <1>10
    <3>1. hi[c] <= a \/ b <= lo[c]
      BY <2>4, <2>8, <1>4
    <3>2. hi2[c] = IF hi[c] = a THEN b ELSE hi[c]
      BY <2>4, <2>8, <1>3
    <3>3. lo[q] <= lo[c]
      BY <2>4, <2>5, <1>8
    <3>4. CASE hi[c] = a
      <4>1. b = hi[q]
        BY <3>0, <3>3, <3>4, <2>3, <2>5, <2>6, <1>2, <1>8
      <4>2. \A x2 \in D2 : x < x2 => b <= x2
        <5> SUFFICES ASSUME NEW x2 \in D2, x < x2 PROVE b <= x2
          OBVIOUS
        <5> DEFINE e == d[q].children[x2]
        <5>1. x2 \in D /\ e \in T2 /\ x2 \in Nat /\ x2 # 0 /\ a <= x2
          BY <2>1, <2>4, <2>5, <3>4, <1>6
        <5>2. lo[e] = x2 /\ lev[e] = m /\ e \in T
          BY <5>1, <3>0, <1>2, <1>7
        <5>3. hi[e] <= a \/ b <= lo[e]
          BY <5>1, <5>2, <1>2, <1>4
        <5> HIDE DEF e
        <5> QED
          BY <5>1, <5>2, <5>3, <1>1, <1>2
      <4>3. hi2[c] = b /\ hi2[c] = hi2[q] /\ hi2[c] <= hi2[q]
        BY <4>1, <3>2, <3>4, <2>2, <1>2
      <4>4. \A x2 \in D2 : x < x2 => hi2[c] <= x2
        BY <4>2, <4>3
      <4> QED
        BY <4>3, <4>4, <2>2, <2>4, <2>5 DEF c
    <3>5. CASE hi[c] # a
      <4>1. hi2[c] = hi[c]
        BY <3>2, <3>5
      <4>2. hi[c] \in D => hi[c] \in D2
        <5> SUFFICES ASSUME hi[c] \in D PROVE hi[c] \in D2
          OBVIOUS
        <5> DEFINE e == d[q].children[hi[c]]
        <5>1. e \in T /\ lev[e] = m /\ lo[e] = hi[c]
          BY <2>6, <3>0, <1>2, <1>7
        <5>2. ~(a <= lo[e] /\ hi[e] <= b)
          <6> HIDE DEF e
          <6> QED
            BY <5>1, <3>1, <3>5, <2>6, <1>1, <1>2
        <5>3. e \in T2
          BY <5>1, <5>2, <1>2, <1>5
        <5> QED
          BY <5>3, <2>1
      <4>3. \A x2 \in D2 : x < x2 => hi2[c] <= x2
        BY <4>1, <2>1, <2>5
      <4> QED
        BY <4>1, <4>2, <4>3, <2>2, <2>4, <2>5 DEF c
    <3> QED
      BY <3>4, <3>5
  <2> QED
    BY <2>6, <2>7, <2>8, <1>2
<1> QED
  BY <1>2, <1>8, <1>9, <1>10

LEMMA CutOK ==
  ASSUME NEW d, NEW d2, NEW T, NEW U, NEW T2, NEW lo, NEW hi, NEW lev, NEW hi2,
         NEW a, NEW b, NEW m, NEW n \in Nat, NEW h, NEW r, NEW r2, NEW h2,
         TypedPages(d), n <= LastIndexPage + 1,
         CutStep(d, d2, T, U, T2, lo, hi, lev, hi2, a, b, m),
         TreeOK(d, r, h, n, T, lo, hi, lev),
         r2 \in T2, lo[r2] = 0, hi2[r2] = Top, lev[r2] = h2 - 1,
         h2 \in Nat, h2 # 0, h2 <= h, \A q \in T2 : lev[q] < h2,
         \A x \in T2, q \in T : x # r2 /\ HasChild(d, lev, q, x) => lev[q] <= m \/ q \in U,
         r \in T2 => r = r2
  PROVE  TreeOK(d2, r2, h2, n, T2, lo, hi2, lev)
<1>1. /\ Rooted(r, n, h, T, lo, hi, lev) /\ Spans(n, h, T, lo, hi, lev) /\ Kinds(d, T, lev)
      /\ AllKids(d, T, lo, hi, lev) /\ Nested(T, lo, hi, lev) /\ Parented(d, r, T, lev)
      /\ Cover(T, lo, hi, lev) /\ Fits(d, T, lo, hi, lev)
  BY DEF TreeOK
<1>2. Spans(n, h2, T2, lo, hi2, lev) /\ Kinds(d2, T2, lev)
  BY <1>1, CutSpans
<1>3. Nested(T2, lo, hi2, lev)
  BY <1>1, CutNested
<1>4. Cover(T2, lo, hi2, lev) /\ Fits(d2, T2, lo, hi2, lev)
  BY <1>1, CutCover
<1>5. AllKids(d2, T2, lo, hi2, lev)
  BY <1>1, CutKids
<1>6. Rooted(r2, n, h2, T2, lo, hi2, lev)
  BY <1>1 DEF Rooted
<1>7. Parented(d2, r2, T2, lev)
  <2> SUFFICES ASSUME NEW x \in T2, x # r2
               PROVE  \E q \in T2 : HasChild(d2, lev, q, x)
    BY Zenon DEF Parented
  <2>1. x \in T /\ x # r
    BY DEF CutStep
  <2>2. PICK q \in T : HasChild(d, lev, q, x)
    BY <2>1, <1>1 DEF Parented
  <2>3. lev[q] # 0 /\ \E y \in DOMAIN d[q].children : d[q].children[y] = x
    BY <2>2 DEF HasChild
  <2>4. PICK y \in DOMAIN d[q].children : d[q].children[y] = x
    BY <2>3
  <2>5. CASE q \in U
    <3>1. y \in DOMAIN d2[q].children /\ d2[q].children[y] = x /\ q \in T2
      BY <2>4, <2>5 DEF CutStep
    <3> QED
      BY <3>1, <2>3 DEF HasChild
  <2>6. CASE lev[q] <= m
    <3>1. /\ x \in T /\ lev[x] = lev[q] - 1
          /\ lo[x] = (IF y = 0 THEN lo[q] ELSE y)
          /\ y = 0 \/ (lo[q] < y /\ y < hi[q])
          /\ hi[x] <= hi[q]
      BY <2>3, <2>4, <1>1 DEF AllKids, Kids
    <3>2. y \in Nat
      BY <2>3, <2>4, <1>1, InnerPage
    <3>3. /\ lo[x] \in Nat /\ hi[x] \in Nat /\ lo[q] \in Nat /\ hi[q] \in Nat
          /\ lev[q] \in Nat /\ lev[x] \in Nat
      BY <2>1, <1>1 DEF Spans
    <3>4. m \in Nat /\ a \in Nat /\ b \in Nat
      BY DEF CutStep
    <3>5. lev[x] <= m /\ ~(a <= lo[x] /\ hi[x] <= b)
      BY <2>6, <3>1, <3>3, <3>4 DEF CutStep
    <3>6. ~(a <= lo[q] /\ hi[q] <= b)
      BY <3>1, <3>2, <3>3, <3>4, <3>5
    <3>7. q \in T2 /\ d2[q] = d[q]
      BY <3>6, <2>6 DEF CutStep
    <3> QED
      BY <3>7, <2>3 DEF HasChild
  <2> QED
    BY <2>2, <2>5, <2>6
<1> QED
  BY <1>2, <1>3, <1>4, <1>5, <1>6, <1>7 DEF TreeOK

\* What is left of the tree under a page R that starts at key 0.
Kept(T, lo, hi, lev, a, b, m) ==
  {q \in T : m < lev[q] \/ ~(a <= lo[q] /\ hi[q] <= b)}
Below(T, lo, hi, lev, R) ==
  {q \in T : lev[q] <= lev[R] /\ ~(hi[R] <= lo[q] /\ hi[q] <= Top)}

\* No leaf lies across a; no page of level m or below lies across a or b.
Apart(T, lo, hi, lev, a) == \A q \in T : lev[q] = 0 => hi[q] <= a \/ a <= lo[q]
Aside(T, lo, hi, lev, a, b, m) ==
  \A q \in T : lev[q] <= m => \/ hi[q] <= a
                              \/ a <= lo[q] /\ hi[q] <= b
                              \/ b <= lo[q]

LEMMA RestrictOK ==
  ASSUME NEW d, NEW T, NEW lo, NEW hi, NEW lev, NEW hi2,
         NEW n \in Nat, NEW h, NEW r, TypedPages(d), n <= LastIndexPage + 1,
         TreeOK(d, r, h, n, T, lo, hi, lev),
         NEW R \in T, lo[R] = 0,
         \A q \in Below(T, lo, hi, lev, R) : hi2[q] = IF hi[q] = hi[R] THEN Top ELSE hi[q]
  PROVE  /\ TreeOK(d, R, lev[R] + 1, n, Below(T, lo, hi, lev, R), lo, hi2, lev)
         /\ Apart(T, lo, hi, lev, hi[R])
<1> DEFINE T2 == Below(T, lo, hi, lev, R)
           a == hi[R]
           m == lev[R]
<1>1. /\ Rooted(r, n, h, T, lo, hi, lev) /\ Spans(n, h, T, lo, hi, lev) /\ Kinds(d, T, lev)
      /\ AllKids(d, T, lo, hi, lev) /\ Nested(T, lo, hi, lev) /\ Parented(d, r, T, lev)
      /\ Cover(T, lo, hi, lev) /\ Fits(d, T, lo, hi, lev)
  BY DEF TreeOK
<1>2. r \in T /\ lo[r] = 0 /\ hi[r] = Top /\ lev[r] = h - 1 /\ h \in Nat /\ h # 0 /\ h < n
  BY <1>1 DEF Rooted
<1>3. \A x \in T : /\ lo[x] \in Nat /\ hi[x] \in Nat /\ lo[x] < hi[x] /\ hi[x] <= Top
                   /\ lev[x] \in Nat /\ lev[x] < h
  BY <1>1 DEF Spans
<1>4. m \in Nat /\ a \in Nat /\ 0 < a /\ a <= Top /\ Top \in Nat /\ m < h
  BY <1>3, TopType
<1>5. T2 = {q \in T : lev[q] <= m /\ ~(a <= lo[q] /\ hi[q] <= Top)}
  BY DEF Below
<1>6. \A q \in T2 : hi2[q] = IF hi[q] = a THEN Top ELSE hi[q]
  OBVIOUS
<1>7. \A q \in T : lev[q] <= m => hi[q] <= a \/ a <= lo[q]
  <2> SUFFICES ASSUME NEW q \in T, lev[q] <= m, q # R PROVE hi[q] <= a \/ a <= lo[q]
    BY <1>4
  <2>1. \/ hi[q] <= lo[R]
        \/ hi[R] <= lo[q]
        \/ lev[q] < lev[R] /\ lo[R] <= lo[q] /\ hi[q] <= hi[R]
    BY <1>1 DEF Nested
  <2> QED
    BY <2>1, <1>3
<1>8. \A q \in T : lev[q] = m => q = R \/ a <= lo[q]
  <2> SUFFICES ASSUME NEW q \in T, lev[q] = m, q # R PROVE a <= lo[q]
    OBVIOUS
  <2>1. \/ hi[q] <= lo[R]
        \/ hi[R] <= lo[q]
        \/ lev[q] < lev[R] /\ lo[R] <= lo[q] /\ hi[q] <= hi[R]
    BY <1>3, <1>1 DEF Nested
  <2> QED
    BY <2>1, <1>3
<1> HIDE DEF T2, a, m
<1>9. R \in T2 /\ hi2[R] = Top
  <2>1. ~(a <= lo[R]) /\ lev[R] <= m
    BY <1>4 DEF m
  <2>2. R \in T2
    BY <2>1, <1>5
  <2> QED
    BY <2>2, <1>6 DEF a
<1>10. CutStep(d, d, T, {}, T2, lo, hi, lev, hi2, a, Top, m)
  <2>1. T2 = {} \cup {q \in T : lev[q] <= m /\ ~(a <= lo[q] /\ hi[q] <= Top)}
    BY <1>5
  <2>2. \A q \in T : lev[q] <= m => \/ hi[q] <= a
                                    \/ a <= lo[q] /\ hi[q] <= Top
                                    \/ Top <= lo[q]
    BY <1>3, <1>7
  <2>3. \A q \in T2 : hi2[q] = IF lev[q] <= m /\ hi[q] = a THEN Top ELSE hi[q]
    BY <1>5, <1>6
  <2>4. Top <= Top
    BY <1>4
  <2> QED
    BY <1>4, <2>1, <2>2, <2>3, <2>4 DEF CutStep
<1>11. /\ R \in T2 /\ lo[R] = 0 /\ hi2[R] = Top /\ lev[R] = (m + 1) - 1
       /\ m + 1 \in Nat /\ m + 1 # 0 /\ m + 1 <= h /\ \A q \in T2 : lev[q] < m + 1
  <2>1. \A q \in T2 : lev[q] < m + 1
    BY <1>3, <1>4, <1>5
  <2> QED
    BY <2>1, <1>2, <1>4, <1>9 DEF m
<1>12. \A x \in T2, q \in T : x # R /\ HasChild(d, lev, q, x) => lev[q] <= m \/ q \in {}
  <2> SUFFICES ASSUME NEW x \in T2, NEW q \in T, x # R, HasChild(d, lev, q, x)
               PROVE  lev[q] <= m
    OBVIOUS
  <2>1. PICK y \in DOMAIN d[q].children : d[q].children[y] = x
    BY DEF HasChild
  <2>2. lev[x] = lev[q] - 1
    BY <2>1, <1>1 DEF HasChild, AllKids, Kids
  <2>3. lev[x] <= m /\ x \in T /\ lev[x] # m
    BY <1>3, <1>5, <1>8
  <2> QED
    BY <2>2, <2>3, <1>3, <1>4
<1>13. r \in T2 => r = R
  <2> SUFFICES ASSUME r \in T2, r # R PROVE FALSE
    OBVIOUS
  <2>1. lev[r] = m
    BY <1>2, <1>3, <1>4, <1>5
  <2> QED
    BY <2>1, <1>2, <1>4, <1>8
<1>14. TreeOK(d, R, m + 1, n, T2, lo, hi2, lev)
  BY <1>10, <1>11, <1>12, <1>13, CutOK
<1>15. \A q \in T : lev[q] = 0 => lev[q] <= m
  BY <1>3, <1>4
<1> QED
  BY <1>7, <1>14, <1>15 DEF T2, m, a, Apart

LEMMA CutSameRootOK ==
  ASSUME NEW d, NEW d2, NEW T, NEW U, NEW T2, NEW lo, NEW hi, NEW lev, NEW hi2,
         NEW a, NEW b, NEW m, NEW n \in Nat, NEW h, NEW r,
         TypedPages(d), n <= LastIndexPage + 1,
         CutStep(d, d2, T, U, T2, lo, hi, lev, hi2, a, b, m),
         TreeOK(d, r, h, n, T, lo, hi, lev),
         r \in T2, hi2[r] = Top,
         \A x \in T2, q \in T : x # r /\ HasChild(d, lev, q, x) => lev[q] <= m \/ q \in U
  PROVE  TreeOK(d2, r, h, n, T2, lo, hi2, lev)
<1>1. /\ lo[r] = 0 /\ lev[r] = h - 1 /\ h \in Nat /\ h # 0 /\ h <= h
  BY DEF TreeOK, Rooted
<1>2. \A q \in T2 : lev[q] < h
  BY DEF TreeOK, Spans, CutStep
<1> QED
  BY <1>1, <1>2, CutOK, ZenonT(60)

LEMMA AsideOK ==
  ASSUME NEW d, NEW T, NEW lo, NEW hi, NEW lev,
         NEW n \in Nat, NEW h, NEW r, TypedPages(d), n <= LastIndexPage + 1,
         TreeOK(d, r, h, n, T, lo, hi, lev),
         NEW p \in T, lev[p] # 0, NEW sep \in Nat, sep \in DOMAIN d[p].children,
         lo[p] < sep, sep < hi[p]
  PROVE  Aside(T, lo, hi, lev, sep, hi[p], lev[p] - 1)
<1> DEFINE b == hi[p]
           m == lev[p] - 1
           D == DOMAIN d[p].children
<1>1. /\ Rooted(r, n, h, T, lo, hi, lev) /\ Spans(n, h, T, lo, hi, lev) /\ Kinds(d, T, lev)
      /\ AllKids(d, T, lo, hi, lev) /\ Nested(T, lo, hi, lev) /\ Parented(d, r, T, lev)
      /\ Cover(T, lo, hi, lev) /\ Fits(d, T, lo, hi, lev)
  BY DEF TreeOK
<1>2. r \in T /\ lo[r] = 0 /\ hi[r] = Top /\ lev[r] = h - 1 /\ h \in Nat /\ h # 0 /\ h < n
  BY <1>1 DEF Rooted
<1>3. \A x \in T : /\ lo[x] \in Nat /\ hi[x] \in Nat /\ lo[x] < hi[x] /\ hi[x] <= Top
                   /\ lev[x] \in Nat /\ lev[x] < h
  BY <1>1 DEF Spans
<1>4. m \in Nat /\ b \in Nat /\ sep < b /\ b <= Top /\ 0 < sep /\ lo[p] < sep /\ lev[p] = m + 1
  BY <1>3
<1>5. d[p].kind = "internal" /\ D \subseteq Nat
  BY <1>1, InnerPage
<1>6. \A x \in D :
        LET c == d[p].children[x] IN
          /\ c \in T /\ lev[c] = lev[p] - 1
          /\ lo[c] = (IF x = 0 THEN lo[p] ELSE x)
          /\ x = 0 \/ (lo[p] < x /\ x < hi[p])
          /\ hi[c] <= hi[p]
  BY <1>1 DEF AllKids, Kids
<1>7. \A q \in T : lev[q] <= m => \/ hi[q] <= sep
                                  \/ sep <= lo[q] /\ hi[q] <= b
                                  \/ b <= lo[q]
  <2> SUFFICES ASSUME NEW q \in T, lev[q] <= m
               PROVE  \/ hi[q] <= sep
                      \/ sep <= lo[q] /\ hi[q] <= b
                      \/ b <= lo[q]
    OBVIOUS
  <2> DEFINE c == d[p].children[sep]
  <2>1. c \in T /\ lev[c] = m /\ lo[c] = sep /\ hi[c] <= b
    BY <1>4, <1>6
  <2>2. lev[q] < lev[p] /\ q # p
    BY <1>3, <1>4
  <2>3. \/ hi[q] <= lo[p]
        \/ hi[p] <= lo[q]
        \/ lo[p] <= lo[q] /\ hi[q] <= hi[p]
    BY <2>2, <1>3, <1>1 DEF Nested
  <2> HIDE DEF c
  <2>4. CASE q = c
    BY <2>1, <2>4
  <2>5. CASE q # c
    <3>1. \/ hi[q] <= lo[c]
          \/ hi[c] <= lo[q]
          \/ lo[c] <= lo[q] /\ hi[q] <= hi[c]
      BY <2>1, <2>5, <1>1 DEF Nested
    <3> QED
      BY <3>1, <2>1, <2>3, <1>3, <1>4
  <2> QED
    BY <2>4, <2>5
<1> HIDE DEF b, m
<1>8. Aside(T, lo, hi, lev, sep, b, m)
  BY <1>7 DEF Aside
<1> QED
  BY <1>8 DEF b, m

\* What is left when an internal page has only been written with its lower half.
LEMMA HalfSplitOK ==
  ASSUME NEW d, NEW d2, NEW T, NEW lo, NEW hi, NEW lev, NEW hi2,
         NEW n \in Nat, NEW h, NEW r, TypedPages(d), n <= LastIndexPage + 1,
         TreeOK(d, r, h, n, T, lo, hi, lev),
         NEW p \in T, lev[p] # 0, NEW sep \in Nat, sep \in DOMAIN d[p].children,
         lo[p] < sep, sep < hi[p],
         d2[p].kind = "internal",
         DOMAIN d2[p].children = {x \in DOMAIN d[p].children : x < sep},
         \A x \in DOMAIN d2[p].children : d2[p].children[x] = d[p].children[x],
         \A q \in T : q # p => d2[q] = d[q],
         \A q \in Kept(T, lo, hi, lev, sep, hi[p], lev[p] - 1) :
            hi2[q] = IF lev[q] <= lev[p] - 1 /\ hi[q] = sep THEN hi[p] ELSE hi[q]
  PROVE  TreeOK(d2, r, h, n, Kept(T, lo, hi, lev, sep, hi[p], lev[p] - 1), lo, hi2, lev)
<1> DEFINE b == hi[p]
           m == lev[p] - 1
           T2 == Kept(T, lo, hi, lev, sep, hi[p], lev[p] - 1)
           U == {q \in T : m < lev[q]}
           D == DOMAIN d[p].children
<1>1. /\ Rooted(r, n, h, T, lo, hi, lev) /\ Spans(n, h, T, lo, hi, lev) /\ Kinds(d, T, lev)
      /\ AllKids(d, T, lo, hi, lev) /\ Nested(T, lo, hi, lev) /\ Parented(d, r, T, lev)
      /\ Cover(T, lo, hi, lev) /\ Fits(d, T, lo, hi, lev)
  BY DEF TreeOK
<1>2. r \in T /\ lo[r] = 0 /\ hi[r] = Top /\ lev[r] = h - 1 /\ h \in Nat /\ h # 0 /\ h < n
  BY <1>1 DEF Rooted
<1>3. \A x \in T : /\ lo[x] \in Nat /\ hi[x] \in Nat /\ lo[x] < hi[x] /\ hi[x] <= Top
                   /\ lev[x] \in Nat /\ lev[x] < h
  BY <1>1 DEF Spans
<1>4. m \in Nat /\ b \in Nat /\ sep < b /\ b <= Top /\ 0 < sep /\ lo[p] < sep /\ lev[p] = m + 1
  BY <1>3
<1>5. d[p].kind = "internal" /\ D \subseteq Nat
  BY <1>1, InnerPage
<1>6. \A x \in D :
        LET c == d[p].children[x] IN
          /\ c \in T /\ lev[c] = lev[p] - 1
          /\ lo[c] = (IF x = 0 THEN lo[p] ELSE x)
          /\ x = 0 \/ (lo[p] < x /\ x < hi[p])
          /\ hi[c] <= hi[p]
  BY <1>1 DEF AllKids, Kids
<1>7. \A q \in T : lev[q] <= m => \/ hi[q] <= sep
                                  \/ sep <= lo[q] /\ hi[q] <= b
                                  \/ b <= lo[q]
  <2>1. Aside(T, lo, hi, lev, sep, b, m)
    BY AsideOK
  <2> HIDE DEF b, m
  <2> QED
    BY <2>1 DEF Aside
<1>8. \A q \in T : lev[p] <= lev[q] /\ q # p => \/ lo[q] < sep /\ b <= hi[q] /\ lev[p] < lev[q]
                                                \/ hi[q] <= lo[p]
                                                \/ b <= lo[q]
  <2> SUFFICES ASSUME NEW q \in T, lev[p] <= lev[q], q # p
               PROVE  \/ lo[q] < sep /\ b <= hi[q] /\ lev[p] < lev[q]
                      \/ hi[q] <= lo[p]
                      \/ b <= lo[q]
    OBVIOUS
  <2>1. \/ hi[p] <= lo[q]
        \/ hi[q] <= lo[p]
        \/ lev[p] < lev[q] /\ lo[q] <= lo[p] /\ hi[p] <= hi[q]
    BY <1>1 DEF Nested
  <2> QED
    BY <2>1, <1>3, <1>4
<1>9. T2 = U \cup {q \in T : lev[q] <= m /\ ~(sep <= lo[q] /\ hi[q] <= b)}
  BY <1>3, <1>4 DEF Kept
<1>10. \A q \in T2 : hi2[q] = IF lev[q] <= m /\ hi[q] = sep THEN b ELSE hi[q]
  OBVIOUS
<1>11. p \in U
  BY <1>4
<1> HIDE DEF T2, D
<1>12. DOMAIN d2[p].children = {x \in D : d[p].children[x] \in T2}
  <2> SUFFICES ASSUME NEW x \in D PROVE x < sep <=> d[p].children[x] \in T2
    BY DEF D
  <2> DEFINE c == d[p].children[x]
  <2>1. c \in T /\ lev[c] = m /\ lo[c] = (IF x = 0 THEN lo[p] ELSE x) /\ hi[c] <= b
    BY <1>4, <1>6
  <2>2. x \in Nat
    BY <1>5
  <2> HIDE DEF c
  <2>3. c \in T2 <=> ~(sep <= lo[c])
    BY <2>1, <1>4, <1>9
  <2>4. x < sep <=> ~(sep <= lo[c])
    BY <2>1, <2>2, <1>3, <1>4
  <2> QED
    BY <2>3, <2>4 DEF c
<1>13. ASSUME NEW q \in U, q # p, NEW x \in DOMAIN d[q].children
       PROVE  d[q].children[x] \in T2
  <2> DEFINE c == d[q].children[x]
  <2>0. q \in T /\ lev[q] # 0 /\ lev[p] <= lev[q]
    BY <1>3, <1>4
  <2>1. /\ c \in T /\ lev[c] = lev[q] - 1
        /\ lo[c] = (IF x = 0 THEN lo[q] ELSE x)
        /\ x = 0 \/ (lo[q] < x /\ x < hi[q])
        /\ hi[c] <= hi[q]
    BY <2>0, <1>1 DEF AllKids, Kids
  <2>2. x \in Nat
    BY <2>0, <1>1, InnerPage
  <2> HIDE DEF c
  <2>3. CASE m < lev[c]
    BY <2>1, <2>3, <1>9 DEF c
  <2>4. CASE lev[c] <= m
    <3>1. lev[q] = lev[p]
      BY <2>0, <2>1, <2>4, <1>3, <1>4
    <3>2. hi[q] <= lo[p] \/ b <= lo[q]
      BY <2>0, <3>1, <1>3, <1>8, <1>13
    <3>3. ~(sep <= lo[c] /\ hi[c] <= b)
      BY <2>0, <2>1, <2>2, <3>2, <1>3, <1>4
    <3> QED
      BY <3>3, <2>1, <2>4, <1>9 DEF c
  <2> QED
    BY <2>1, <2>3, <2>4, <1>3, <1>4
<1>14. \A q \in U : \/ lo[q] < sep /\ b <= hi[q] /\ (lev[q] = m + 1 => b = hi[q])
                    \/ hi[q] < sep
                    \/ b <= lo[q]
  <2> SUFFICES ASSUME NEW q \in U
               PROVE  \/ lo[q] < sep /\ b <= hi[q] /\ (lev[q] = m + 1 => b = hi[q])
                      \/ hi[q] < sep
                      \/ b <= lo[q]
    OBVIOUS
  <2>1. CASE q = p
    BY <2>1, <1>4
  <2>2. CASE q # p
    <3>1. q \in T /\ lev[p] <= lev[q]
      BY <1>3, <1>4
    <3> QED
      BY <3>1, <2>2, <1>3, <1>4, <1>8
  <2> QED
    BY <2>1, <2>2
<1>15. \A q \in U :
         /\ d2[q].kind = "internal"
         /\ DOMAIN d2[q].children = {x \in DOMAIN d[q].children : d[q].children[x] \in T2}
         /\ \A x \in DOMAIN d2[q].children : d2[q].children[x] = d[q].children[x]
  <2> SUFFICES ASSUME NEW q \in U
               PROVE  /\ d2[q].kind = "internal"
                      /\ DOMAIN d2[q].children = {x \in DOMAIN d[q].children : d[q].children[x] \in T2}
                      /\ \A x \in DOMAIN d2[q].children : d2[q].children[x] = d[q].children[x]
    OBVIOUS
  <2>1. CASE q = p
    BY <2>1, <1>12 DEF D
  <2>2. CASE q # p
    <3>1. q \in T /\ lev[q] # 0 /\ d2[q] = d[q]
      BY <2>2, <1>3, <1>4
    <3>2. d[q].kind = "internal"
      BY <3>1, <1>1 DEF Kinds
    <3> QED
      BY <3>1, <3>2, <2>2, <1>13
  <2> QED
    BY <2>1, <2>2
<1>16. CutStep(d, d2, T, U, T2, lo, hi, lev, hi2, sep, b, m)
  <2>1. \A q \in T2 : lev[q] <= m => d2[q] = d[q]
    BY <1>4, <1>9
  <2>2. U = {} \/ U = {q \in T : m < lev[q]}
    OBVIOUS
  <2>3. sep <= b
    BY <1>4
  <2> HIDE DEF U, m, b
  <2> QED
    BY <2>1, <2>2, <2>3, <1>4, <1>7, <1>9, <1>10, <1>14, <1>15 DEF CutStep
<1>17. r \in T2 /\ hi2[r] = Top
  <2>1. m < lev[r]
    BY <1>2, <1>3, <1>4
  <2>2. r \in T2
    BY <2>1, <1>2, <1>9
  <2> QED
    BY <2>1, <2>2, <1>2, <1>3, <1>4, <1>10
<1>18. \A x \in T2, q \in T : x # r /\ HasChild(d, lev, q, x) => lev[q] <= m \/ q \in U
  BY <1>3, <1>4
<1>21. TreeOK(d2, r, h, n, T2, lo, hi2, lev)
  <2> HIDE DEF U, m, b
  <2> QED
    BY <1>16, <1>17, <1>18, CutSameRootOK
<1> QED
  BY <1>21 DEF T2

-----------------------------------------------------------------------------
(* The leaf chain *)

\* The leaf chain C holds the leaves of the tree and those that crashes have left
\* to the chain alone; rk[q] counts the leaves from q to the end of the chain.
\* A leaf that is not in the tree has an empty span.
ChainPages(d, n, T, lo, hi, lev, C, rk) ==
  /\ C \subseteq 1..(n - 1)
  /\ \A p \in T : lev[p] = 0 <=> p \in C
  /\ \A q \in C : /\ d[q].kind = "leaf"
                  /\ rk[q] \in Nat /\ 0 < rk[q] /\ rk[q] < n
                  /\ lo[q] \in Nat /\ hi[q] \in Nat /\ lo[q] <= hi[q] /\ hi[q] <= Top
                  /\ \A k \in DOMAIN d[q].entries : k < hi[q]
  /\ \A q \in C : q \notin T => lo[q] = hi[q]

ChainOrder(lo, hi, C, rk) ==
  \A q, q2 \in C : /\ rk[q] = rk[q2] => q = q2
                   /\ rk[q2] < rk[q] => hi[q] <= lo[q2]

ChainLinks(d, C, rk) ==
  \A q \in C : \/ d[q].next = 0 /\ \A q2 \in C : rk[q] <= rk[q2]
               \/ /\ d[q].next \in C /\ rk[d[q].next] < rk[q]
                  /\ \A q2 \in C : rk[q2] < rk[q] => rk[q2] <= rk[d[q].next]

ChainOK(d, n, T, lo, hi, lev, C, rk) ==
  /\ ChainPages(d, n, T, lo, hi, lev, C, rk)
  /\ ChainOrder(lo, hi, C, rk)
  /\ ChainLinks(d, C, rk)

\* The chain from leaf p on has the value v for key k.
Holds(d, q, k) == k \in DOMAIN d[q].entries
Gives(d, C, rk, p, k, v) ==
  \/ v = None /\ \A q \in C : rk[q] <= rk[p] => ~Holds(d, q, k)
  \/ /\ v # None
     /\ \E q \in C : /\ rk[q] <= rk[p] /\ Holds(d, q, k) /\ d[q].entries[k] = v
                     /\ \A q2 \in C : rk[q] < rk[q2] /\ rk[q2] <= rk[p] => ~Holds(d, q2, k)

ContentOK(d, T, lo, hi, lev, C, rk, con) ==
  \A p \in T, k \in Keys :
    lev[p] = 0 /\ lo[p] <= k /\ k < hi[p] => Gives(d, C, rk, p, k, con[k])

\* On d2 leaf s follows leaf p and has its entries from sep on; the span of p
\* ends, and that of s begins, at e.
ChainSplit(d, d2, T2, lo, hi, lo2, hi2, C, rk, rk2, p, s, sep, e) ==
  /\ p \in C /\ s \notin C
  /\ d2[p].kind = "leaf" /\ d2[s].kind = "leaf"
  /\ DOMAIN d2[p].entries = {k \in DOMAIN d[p].entries : k < sep}
  /\ DOMAIN d2[s].entries = {k \in DOMAIN d[p].entries : sep <= k}
  /\ \A k \in DOMAIN d2[p].entries : d2[p].entries[k] = d[p].entries[k]
  /\ \A k \in DOMAIN d2[s].entries : d2[s].entries[k] = d[p].entries[k]
  /\ d2[p].next = s /\ d2[s].next = d[p].next
  /\ \A q \in C : q # p => d2[q] = d[q]
  /\ sep \in Nat /\ e \in Nat /\ sep <= e /\ e <= hi[p] /\ lo[p] <= e
  /\ \A q \in C : lo2[q] = lo[q] /\ (q # p => hi2[q] = hi[q])
  /\ hi2[p] = e /\ lo2[s] = e /\ hi2[s] = hi[p]
  /\ s \notin T2 => e = hi[p]
  /\ \A q \in C : rk2[q] = IF rk[p] <= rk[q] THEN rk[q] + 1 ELSE rk[q]
  /\ rk2[s] = rk[p]

LEMMA ChainSplitOK ==
  ASSUME NEW d, NEW d2, NEW T, NEW T2, NEW lo, NEW hi, NEW lev, NEW lo2, NEW hi2, NEW lev2,
         NEW C, NEW rk, NEW rk2, NEW p, NEW s \in Nat, NEW sep, NEW e,
         NEW n \in Nat, NEW n2 \in Nat, n <= s, s > 0, s < n2,
         ChainOK(d, n, T, lo, hi, lev, C, rk),
         \A q \in C : DOMAIN d[q].entries \subseteq Nat,
         ChainSplit(d, d2, T2, lo, hi, lo2, hi2, C, rk, rk2, p, s, sep, e),
         \A x \in T2 : lev2[x] = 0 <=> x \in C \cup {s},
         \A x \in C : x \in T => x \in T2,
         p \in T2
  PROVE  ChainOK(d2, n2, T2, lo2, hi2, lev2, C \cup {s}, rk2)
<1> DEFINE C2 == C \cup {s}
<1>1. /\ C \subseteq 1..(n - 1)
      /\ \A q \in C : /\ d[q].kind = "leaf"
                      /\ rk[q] \in Nat /\ 0 < rk[q] /\ rk[q] < n
                      /\ lo[q] \in Nat /\ hi[q] \in Nat /\ lo[q] <= hi[q] /\ hi[q] <= Top
                      /\ \A k \in DOMAIN d[q].entries : k < hi[q]
      /\ \A q \in C : q \notin T => lo[q] = hi[q]
  BY DEF ChainOK, ChainPages
<1>2. \A q, q2 \in C : /\ rk[q] = rk[q2] => q = q2
                       /\ rk[q2] < rk[q] => hi[q] <= lo[q2]
  BY DEF ChainOK, ChainOrder
<1>3. \A q \in C : \/ d[q].next = 0 /\ \A q2 \in C : rk[q] <= rk[q2]
                   \/ /\ d[q].next \in C /\ rk[d[q].next] < rk[q]
                      /\ \A q2 \in C : rk[q2] < rk[q] => rk[q2] <= rk[d[q].next]
  BY DEF ChainOK, ChainLinks
<1>4. /\ p \in C /\ s \notin C
      /\ d2[p].next = s /\ d2[s].next = d[p].next
      /\ \A q \in C : q # p => d2[q] = d[q]
      /\ sep \in Nat /\ e \in Nat /\ sep <= e /\ e <= hi[p] /\ lo[p] <= e
      /\ \A q \in C : lo2[q] = lo[q] /\ (q # p => hi2[q] = hi[q])
      /\ hi2[p] = e /\ lo2[s] = e /\ hi2[s] = hi[p]
      /\ s \notin T2 => e = hi[p]
      /\ \A q \in C : rk2[q] = IF rk[p] <= rk[q] THEN rk[q] + 1 ELSE rk[q]
      /\ rk2[s] = rk[p]
  BY DEF ChainSplit
<1>5. /\ d2[p].kind = "leaf" /\ d2[s].kind = "leaf"
      /\ \A k \in DOMAIN d2[p].entries : k \in Nat /\ k < e
      /\ \A k \in DOMAIN d2[s].entries : k \in DOMAIN d[p].entries
  <2>1. /\ d2[p].kind = "leaf" /\ d2[s].kind = "leaf"
        /\ DOMAIN d2[p].entries = {k \in DOMAIN d[p].entries : k < sep}
        /\ DOMAIN d2[s].entries = {k \in DOMAIN d[p].entries : sep <= k}
    BY DEF ChainSplit
  <2>2. DOMAIN d[p].entries \subseteq Nat
    BY <1>4
  <2> QED
    BY <2>1, <2>2, <1>4
<1>6. ChainPages(d2, n2, T2, lo2, hi2, lev2, C2, rk2)
  <2>1. C2 \subseteq 1..(n2 - 1)
    <3>1. s \in 1..(n2 - 1) /\ \A x \in 1..(n - 1) : x \in 1..(n2 - 1)
      OBVIOUS
    <3> QED
      BY <3>1, <1>1
  <2>2. ASSUME NEW q \in C2
        PROVE  /\ d2[q].kind = "leaf"
               /\ rk2[q] \in Nat /\ 0 < rk2[q] /\ rk2[q] < n2
               /\ lo2[q] \in Nat /\ hi2[q] \in Nat /\ lo2[q] <= hi2[q] /\ hi2[q] <= Top
               /\ \A k \in DOMAIN d2[q].entries : k < hi2[q]
               /\ (q \notin T2 => lo2[q] = hi2[q])
    <3>1. CASE q = s
      <4>1. rk2[q] \in Nat /\ 0 < rk2[q] /\ rk2[q] < n2
        BY <3>1, <1>1, <1>4
      <4>2. \A k \in DOMAIN d2[q].entries : k < hi2[q]
        BY <3>1, <1>1, <1>4, <1>5
      <4> QED
        BY <3>1, <4>1, <4>2, <1>1, <1>4, <1>5
    <3>2. CASE q = p
      <4>1. rk2[q] = rk[q] + 1
        BY <3>2, <1>1, <1>4
      <4>2. rk2[q] \in Nat /\ 0 < rk2[q] /\ rk2[q] < n2
        BY <3>2, <4>1, <1>1, <1>4
      <4>3. hi[p] <= Top /\ e <= Top /\ lo2[q] = lo[p] /\ lo[p] \in Nat
        BY <3>2, <1>1, <1>4, TopType
      <4> QED
        BY <3>2, <4>2, <4>3, <1>4, <1>5
    <3>3. CASE q \in C /\ q # p
      <4>1. d2[q] = d[q] /\ lo2[q] = lo[q] /\ hi2[q] = hi[q]
        BY <3>3, <1>4
      <4>2. rk[q] \in Nat /\ 0 < rk[q] /\ rk[q] < n /\ (rk2[q] = rk[q] + 1 \/ rk2[q] = rk[q])
        BY <3>3, <1>1, <1>4
      <4>3. rk2[q] \in Nat /\ 0 < rk2[q] /\ rk2[q] < n2
        BY <4>2
      <4>4. /\ d[q].kind = "leaf" /\ lo[q] \in Nat /\ hi[q] \in Nat /\ lo[q] <= hi[q] /\ hi[q] <= Top
            /\ \A k \in DOMAIN d[q].entries : k < hi[q]
            /\ (q \notin T2 => lo[q] = hi[q])
        BY <3>3, <1>1
      <4> QED
        BY <4>1, <4>3, <4>4
    <3> QED
      BY <3>1, <3>2, <3>3
  <2> QED
    BY <2>1, <2>2 DEF ChainPages
<1>7. ChainOrder(lo2, hi2, C2, rk2)
  <2> SUFFICES ASSUME NEW q \in C2, NEW q2 \in C2
               PROVE  /\ rk2[q] = rk2[q2] => q = q2
                      /\ rk2[q2] < rk2[q] => hi2[q] <= lo2[q2]
    BY DEF ChainOrder
  <2>1. CASE q = s /\ q2 = s
    BY <2>1, <1>1, <1>4
  <2>2. CASE q = s /\ q2 \in C
    <3>1. /\ rk[q2] \in Nat /\ rk[p] \in Nat
          /\ rk2[q2] = (IF rk[p] <= rk[q2] THEN rk[q2] + 1 ELSE rk[q2])
          /\ rk2[q] = rk[p] /\ lo2[q2] = lo[q2]
      BY <2>2, <1>1, <1>4
    <3>2. rk[q2] < rk[p] => hi[p] <= lo[q2]
      BY <2>2, <1>2, <1>4
    <3> QED
      BY <3>1, <3>2, <2>2, <1>4
  <2>3. CASE q \in C /\ q2 = s
    <3>1. /\ rk[q] \in Nat /\ rk[p] \in Nat
          /\ rk2[q] = (IF rk[p] <= rk[q] THEN rk[q] + 1 ELSE rk[q])
          /\ rk2[q2] = rk[p] /\ lo2[q2] = e
      BY <2>3, <1>1, <1>4
    <3>2. (rk[q] = rk[p] => q = p) /\ (rk[p] < rk[q] => hi[q] <= lo[p])
      BY <2>3, <1>2, <1>4
    <3>3. hi[q] \in Nat /\ lo[p] \in Nat
      BY <2>3, <1>1, <1>4
    <3>4. CASE q = p
      BY <3>1, <3>4, <2>3, <1>4
    <3>5. CASE q # p
      BY <3>1, <3>2, <3>3, <3>5, <2>3, <1>4
    <3> QED
      BY <3>4, <3>5
  <2>4. CASE q \in C /\ q2 \in C
    <3>1. /\ rk[q] \in Nat /\ rk[p] \in Nat /\ rk[q2] \in Nat
          /\ rk2[q] = (IF rk[p] <= rk[q] THEN rk[q] + 1 ELSE rk[q])
          /\ rk2[q2] = (IF rk[p] <= rk[q2] THEN rk[q2] + 1 ELSE rk[q2])
          /\ lo2[q2] = lo[q2]
      BY <2>4, <1>1, <1>4
    <3>2. /\ rk[q] = rk[q2] => q = q2
          /\ rk[q2] < rk[q] => hi[q] <= lo[q2]
      BY <2>4, <1>2
    <3>3. hi[q] \in Nat /\ hi2[q] \in Nat /\ lo[q2] \in Nat /\ hi2[q] <= hi[q]
      BY <2>4, <1>1, <1>4
    <3>4. (rk2[q] = rk2[q2] => rk[q] = rk[q2]) /\ (rk2[q2] < rk2[q] => rk[q2] < rk[q])
      BY <3>1
    <3> QED
      BY <3>1, <3>2, <3>3, <3>4
  <2> QED
    BY <2>1, <2>2, <2>3, <2>4
<1>8. ChainLinks(d2, C2, rk2)
  <2> SUFFICES ASSUME NEW q \in C2
               PROVE  \/ d2[q].next = 0 /\ \A q2 \in C2 : rk2[q] <= rk2[q2]
                      \/ /\ d2[q].next \in C2 /\ rk2[d2[q].next] < rk2[q]
                         /\ \A q2 \in C2 : rk2[q2] < rk2[q] => rk2[q2] <= rk2[d2[q].next]
    BY DEF ChainLinks
  <2>1. rk[p] \in Nat
    BY <1>1, <1>4
  <2>2. ASSUME NEW q2 \in C2
        PROVE  \/ q2 = s /\ rk2[q2] = rk[p]
               \/ q2 \in C /\ rk[q2] \in Nat /\ rk[p] <= rk[q2] /\ rk2[q2] = rk[q2] + 1
               \/ q2 \in C /\ rk[q2] \in Nat /\ rk[q2] < rk[p] /\ rk2[q2] = rk[q2]
    BY <2>1, <1>1, <1>4
  <2>3. CASE q = p
    <3>1. d2[q].next = s /\ s \in C2 /\ rk2[s] = rk[p] /\ rk2[q] = rk[p] + 1
      BY <2>1, <2>3, <1>4
    <3>2. \A q2 \in C2 : rk2[q2] < rk2[q] => rk2[q2] <= rk2[s]
      BY <2>1, <2>2, <3>1
    <3> QED
      BY <2>1, <3>1, <3>2
  <2>4. CASE q = s
    <3>1. d2[q].next = d[p].next /\ rk2[q] = rk[p]
      BY <2>4, <1>4
    <3>2. CASE d[p].next = 0 /\ \A q2 \in C : rk[p] <= rk[q2]
      <4>1. \A q2 \in C2 : rk2[q] <= rk2[q2]
        BY <2>1, <2>2, <3>1, <3>2
      <4> QED
        BY <3>1, <3>2, <4>1
    <3>3. CASE /\ d[p].next \in C /\ rk[d[p].next] < rk[p]
               /\ \A q2 \in C : rk[q2] < rk[p] => rk[q2] <= rk[d[p].next]
      <4>1. rk2[d[p].next] = rk[d[p].next] /\ rk[d[p].next] \in Nat
        BY <3>3, <1>1, <1>4, <2>1
      <4>2. \A q2 \in C2 : rk2[q2] < rk2[q] => rk2[q2] <= rk2[d[p].next]
        BY <2>1, <2>2, <3>1, <3>3, <4>1
      <4> QED
        BY <3>1, <3>3, <4>1, <4>2
    <3> QED
      BY <3>2, <3>3, <1>3, <1>4
  <2>5. CASE q \in C /\ q # p
    <3>1. d2[q] = d[q] /\ rk[q] \in Nat /\ rk[q] # rk[p]
      BY <2>5, <1>1, <1>2, <1>4
    <3>2. rk2[q] = IF rk[p] <= rk[q] THEN rk[q] + 1 ELSE rk[q]
      BY <2>5, <1>4
    <3>3. CASE d[q].next = 0 /\ \A q2 \in C : rk[q] <= rk[q2]
      <4>1. rk[q] < rk[p] /\ rk2[q] = rk[q]
        BY <3>1, <3>2, <3>3, <2>1, <1>4
      <4>2. \A q2 \in C2 : rk2[q] <= rk2[q2]
        BY <2>1, <2>2, <3>1, <3>3, <4>1
      <4> QED
        BY <3>1, <3>3, <4>2
    <3>4. CASE /\ d[q].next \in C /\ rk[d[q].next] < rk[q]
               /\ \A q2 \in C : rk[q2] < rk[q] => rk[q2] <= rk[d[q].next]
      <4> DEFINE x == d[q].next
      <4>0. /\ x \in C /\ rk[x] \in Nat /\ rk[x] < rk[q]
            /\ \A q2 \in C : rk[q2] < rk[q] => rk[q2] <= rk[x]
        BY <3>4, <1>1
      <4>1. rk2[x] = IF rk[p] <= rk[x] THEN rk[x] + 1 ELSE rk[x]
        BY <4>0, <1>4
      <4>2. rk[p] < rk[q] => rk[p] <= rk[x]
        BY <4>0, <1>4
      <4> HIDE DEF x
      <4>3. rk2[x] < rk2[q]
        BY <2>1, <3>1, <3>2, <4>0, <4>1
      <4>4. \A q2 \in C2 : rk2[q2] < rk2[q] => rk2[q2] <= rk2[x]
        <5> SUFFICES ASSUME NEW q2 \in C2, rk2[q2] < rk2[q] PROVE rk2[q2] <= rk2[x]
          OBVIOUS
        <5>1. CASE q2 = s
          BY <5>1, <1>4, <2>1, <3>1, <3>2, <4>0, <4>1, <4>2
        <5>2. CASE q2 \in C
          <6>1. rk[q2] \in Nat /\ rk2[q2] = (IF rk[p] <= rk[q2] THEN rk[q2] + 1 ELSE rk[q2])
            BY <5>2, <1>1, <1>4
          <6>2. rk[q2] < rk[q]
            BY <6>1, <2>1, <3>1, <3>2
          <6>3. rk[q2] <= rk[x]
            BY <6>2, <5>2, <4>0
          <6> QED
            BY <6>1, <6>3, <2>1, <4>0, <4>1
        <5> QED
          BY <5>1, <5>2
      <4>5. d2[q].next = x
        BY <3>1 DEF x
      <4> QED
        BY <4>0, <4>3, <4>4, <4>5
    <3> QED
      BY <3>3, <3>4, <2>5, <1>3
  <2> QED
    BY <2>3, <2>4, <2>5
<1> QED
  BY <1>6, <1>7, <1>8 DEF ChainOK

\* A lookup gives the same after the split: from p, and from s for the keys of s.
LEMMA SplitGives ==
  ASSUME NEW d, NEW d2, NEW T, NEW T2, NEW lo, NEW hi, NEW lev, NEW lo2, NEW hi2,
         NEW C, NEW rk, NEW rk2, NEW p, NEW s, NEW sep, NEW e, NEW n,
         ChainOK(d, n, T, lo, hi, lev, C, rk),
         ChainSplit(d, d2, T2, lo, hi, lo2, hi2, C, rk, rk2, p, s, sep, e),
         NEW k \in Nat, NEW v, NEW x \in C, Gives(d, C, rk, x, k, v)
  PROVE  /\ Gives(d2, C \cup {s}, rk2, x, k, v)
         /\ x = p /\ sep <= k => Gives(d2, C \cup {s}, rk2, s, k, v)
<1> DEFINE C2 == C \cup {s}
<1>1. /\ p \in C /\ s \notin C
      /\ DOMAIN d2[p].entries = {y \in DOMAIN d[p].entries : y < sep}
      /\ DOMAIN d2[s].entries = {y \in DOMAIN d[p].entries : sep <= y}
      /\ \A y \in DOMAIN d2[p].entries : d2[p].entries[y] = d[p].entries[y]
      /\ \A y \in DOMAIN d2[s].entries : d2[s].entries[y] = d[p].entries[y]
      /\ \A q \in C : q # p => d2[q] = d[q]
      /\ \A q \in C : rk2[q] = IF rk[p] <= rk[q] THEN rk[q] + 1 ELSE rk[q]
      /\ rk2[s] = rk[p]
      /\ sep \in Nat
  BY DEF ChainSplit
<1>2. /\ \A q \in C : rk[q] \in Nat
      /\ \A q, q2 \in C : rk[q] = rk[q2] => q = q2
  BY DEF ChainOK, ChainPages, ChainOrder
<1>3. /\ \A q \in C : q # p => (Holds(d2, q, k) <=> Holds(d, q, k))
      /\ Holds(d2, p, k) <=> Holds(d, p, k) /\ k < sep
      /\ Holds(d2, s, k) <=> Holds(d, p, k) /\ sep <= k
  BY <1>1 DEF Holds
<1>4. ASSUME NEW q \in C, NEW y \in C, rk2[q] <= rk2[y]
      PROVE  rk[q] <= rk[y]
  BY <1>1, <1>2, <1>4
<1>5. ASSUME NEW q \in C, NEW y \in C, rk[q] <= rk[y]
      PROVE  rk2[q] <= rk2[y]
  BY <1>1, <1>2, <1>5
<1>6. \A q \in C : (rk2[s] <= rk2[q] <=> rk[p] <= rk[q]) /\ (rk2[q] <= rk2[s] <=> rk[q] < rk[p])
  BY <1>1, <1>2
<1>7. \A q, y \in C : rk2[q] \in Nat /\ rk2[s] \in Nat /\ (rk2[q] < rk2[y] <=> rk[q] < rk[y])
                      /\ (rk2[q] <= rk2[y] <=> rk[q] <= rk[y])
  BY <1>1, <1>2
<1>8. CASE v = None
  <2>1. \A q \in C : rk[q] <= rk[x] => ~Holds(d, q, k)
    BY <1>8 DEF Gives
  <2>2. \A q \in C2 : rk2[q] <= rk2[x] => ~Holds(d2, q, k)
    <3> SUFFICES ASSUME NEW q \in C2, rk2[q] <= rk2[x] PROVE ~Holds(d2, q, k)
      OBVIOUS
    <3>1. CASE q = s
      <4>1. rk[p] <= rk[x]
        BY <3>1, <1>6
      <4> QED
        BY <3>1, <4>1, <2>1, <1>1, <1>3
    <3>2. CASE q \in C
      BY <3>2, <2>1, <1>1, <1>3, <1>7
    <3> QED
      BY <3>1, <3>2
  <2>3. ASSUME x = p
        PROVE  \A q \in C2 : rk2[q] <= rk2[s] => ~Holds(d2, q, k)
    <3> SUFFICES ASSUME NEW q \in C2, rk2[q] <= rk2[s] PROVE ~Holds(d2, q, k)
      OBVIOUS
    <3>1. CASE q = s
      BY <3>1, <2>1, <2>3, <1>1, <1>2, <1>3
    <3>2. CASE q \in C
      BY <3>2, <2>1, <2>3, <1>1, <1>2, <1>3, <1>6
    <3> QED
      BY <3>1, <3>2
  <2> QED
    BY <2>2, <2>3, <1>8 DEF Gives
<1>9. CASE v # None
  <2>1. PICK f \in C : /\ rk[f] <= rk[x] /\ Holds(d, f, k) /\ d[f].entries[k] = v
                       /\ \A q2 \in C : rk[f] < rk[q2] /\ rk[q2] <= rk[x] => ~Holds(d, q2, k)
    BY <1>9 DEF Gives
  <2> DEFINE g == IF f = p /\ sep <= k THEN s ELSE f
  <2>2. g \in C2 /\ Holds(d2, g, k) /\ d2[g].entries[k] = v
    <3>1. CASE f = p
      BY <3>1, <2>1, <1>1 DEF Holds
    <3>2. CASE f # p
      BY <3>2, <2>1, <1>1 DEF Holds
    <3> QED
      BY <3>1, <3>2
  <2>3. rk2[g] <= rk2[x]
    <3>1. CASE f = p /\ sep <= k
      BY <3>1, <2>1, <1>1, <1>6
    <3>2. CASE ~(f = p /\ sep <= k)
      BY <3>2, <2>1, <1>7
    <3> QED
      BY <3>1, <3>2
  <2>4. \A q2 \in C2 : rk2[g] < rk2[q2] /\ rk2[q2] <= rk2[x] => ~Holds(d2, q2, k)
    <3> SUFFICES ASSUME NEW q2 \in C2, rk2[g] < rk2[q2], rk2[q2] <= rk2[x], Holds(d2, q2, k)
                 PROVE  FALSE
      OBVIOUS
    <3>1. CASE q2 = s
      <4>1. Holds(d, p, k) /\ sep <= k
        BY <3>1, <1>3
      <4>2. f # p /\ g = f
        BY <3>1, <4>1, <1>7
      <4>3. rk[f] < rk[p]
        BY <3>1, <4>2, <1>1, <1>2, <1>6, <1>7
      <4>4. rk[p] <= rk[x]
        BY <3>1, <1>6
      <4> QED
        BY <4>1, <4>3, <4>4, <2>1, <1>1
    <3>2. CASE q2 \in C
      <4>1. Holds(d, q2, k) /\ (q2 = p => k < sep)
        BY <3>2, <1>3
      <4>2. rk[q2] <= rk[x]
        BY <3>2, <1>7
      <4>3. CASE g = f
        BY <4>1, <4>2, <4>3, <3>2, <2>1, <1>7
      <4>4. CASE g # f
        <5>1. f = p /\ g = s /\ sep <= k
          BY <4>4
        <5>2. rk[p] <= rk[q2]
          BY <5>1, <3>2, <1>6, <1>7, <1>2, <1>1
        <5>3. q2 # p
          BY <4>1, <5>1, <1>1
        <5>4. rk[p] < rk[q2]
          BY <5>2, <5>3, <3>2, <1>1, <1>2
        <5> QED
          BY <5>1, <5>4, <4>1, <4>2, <3>2, <2>1
      <4> QED
        BY <4>3, <4>4
    <3> QED
      BY <3>1, <3>2
  <2>5. ASSUME x = p, sep <= k
        PROVE  /\ rk2[g] <= rk2[s]
               /\ \A q2 \in C2 : rk2[g] < rk2[q2] /\ rk2[q2] <= rk2[s] => ~Holds(d2, q2, k)
    <3>1. rk2[g] <= rk2[s]
      <4>1. CASE f = p
        BY <4>1, <2>5, <1>1, <1>2
      <4>2. CASE f # p
        <5>1. rk[f] < rk[p]
          BY <4>2, <2>1, <2>5, <1>1, <1>2
        <5> QED
          BY <5>1, <4>2, <1>6
      <4> QED
        BY <4>1, <4>2
    <3>2. \A q2 \in C2 : rk2[q2] <= rk2[s] => rk2[q2] <= rk2[p]
      BY <1>1, <1>2, <1>7
    <3>3. \A q2 \in C2 : rk2[g] < rk2[q2] /\ rk2[q2] <= rk2[s] => ~Holds(d2, q2, k)
      BY <3>2, <2>4, <2>5
    <3> QED
      BY <3>1, <3>3
  <2> HIDE DEF g
  <2>6. Gives(d2, C2, rk2, x, k, v)
    BY <2>2, <2>3, <2>4, <1>9 DEF Gives
  <2>7. ASSUME x = p, sep <= k PROVE Gives(d2, C2, rk2, s, k, v)
    BY <2>2, <2>5, <2>7, <1>9 DEF Gives
  <2> QED
    BY <2>6, <2>7
<1> QED
  BY <1>8, <1>9

LEMMA SplitContent ==
  ASSUME NEW d, NEW d2, NEW T, NEW T2, NEW lo, NEW hi, NEW lev, NEW lo2, NEW hi2, NEW lev2,
         NEW C, NEW rk, NEW rk2, NEW p, NEW s, NEW sep, NEW e, NEW n, NEW con,
         ChainOK(d, n, T, lo, hi, lev, C, rk),
         ContentOK(d, T, lo, hi, lev, C, rk, con),
         ChainSplit(d, d2, T2, lo, hi, lo2, hi2, C, rk, rk2, p, s, sep, e),
         \A x \in T2 : lev2[x] = 0 <=> x \in C \cup {s},
         \A x \in C : x \in T2 => x \in T,
         p \in T
  PROVE  ContentOK(d2, T2, lo2, hi2, lev2, C \cup {s}, rk2, con)
<1> SUFFICES ASSUME NEW x \in T2, NEW k \in Keys, lev2[x] = 0, lo2[x] <= k, k < hi2[x]
             PROVE  Gives(d2, C \cup {s}, rk2, x, k, con[k])
  BY DEF ContentOK
<1>1. /\ \A q \in C : /\ lo[q] \in Nat /\ hi[q] \in Nat /\ lo[q] <= hi[q]
      /\ \A q \in T : lev[q] = 0 <=> q \in C
  BY DEF ChainOK, ChainPages
<1>2. /\ p \in C /\ s \notin C
      /\ sep \in Nat /\ e \in Nat /\ sep <= e /\ e <= hi[p] /\ lo[p] <= e
      /\ \A q \in C : lo2[q] = lo[q] /\ (q # p => hi2[q] = hi[q])
      /\ hi2[p] = e /\ lo2[s] = e /\ hi2[s] = hi[p]
  BY DEF ChainSplit
<1>3. k \in Nat
  BY TopType
<1>4. CASE x \in C
  <2>1. x \in T /\ lev[x] = 0 /\ lo[x] <= k /\ k < hi[x]
    <3>1. x \in T /\ lev[x] = 0 /\ lo[x] <= k
      BY <1>1, <1>2, <1>4
    <3>2. k < hi[x]
      BY <1>1, <1>2, <1>3, <1>4
    <3> QED
      BY <3>1, <3>2
  <2>2. Gives(d, C, rk, x, k, con[k])
    BY <2>1 DEF ContentOK
  <2> QED
    BY <2>2, <1>3, <1>4, SplitGives
<1>5. CASE x = s
  <2>1. p \in T /\ lev[p] = 0 /\ lo[p] <= k /\ k < hi[p] /\ sep <= k
    BY <1>1, <1>2, <1>3, <1>5
  <2>2. Gives(d, C, rk, p, k, con[k])
    BY <2>1 DEF ContentOK
  <2> QED
    BY <2>1, <2>2, <1>2, <1>3, <1>5, SplitGives
<1> QED
  BY <1>4, <1>5

LEMMA SameGives ==
  ASSUME NEW d, NEW d2, NEW C, NEW rk, NEW x, NEW k, NEW v,
         \A q \in C : /\ Holds(d2, q, k) <=> Holds(d, q, k)
                      /\ Holds(d, q, k) => d2[q].entries[k] = d[q].entries[k],
         Gives(d, C, rk, x, k, v)
  PROVE  Gives(d2, C, rk, x, k, v)
BY DEF Gives

\* Pages that are not in the chain have come, or changed.
LEMMA ChainSameOK ==
  ASSUME NEW d, NEW d2, NEW T, NEW T2, NEW lo, NEW hi, NEW lev, NEW lo2, NEW hi2, NEW lev2,
         NEW C, NEW rk, NEW n \in Nat, NEW n2 \in Nat, n <= n2,
         ChainOK(d, n, T, lo, hi, lev, C, rk),
         \A q \in C : d2[q] = d[q] /\ lo2[q] = lo[q] /\ hi2[q] = hi[q],
         \A x \in T2 : lev2[x] = 0 <=> x \in C,
         \A x \in C : x \in T <=> x \in T2
  PROVE  /\ ChainOK(d2, n2, T2, lo2, hi2, lev2, C, rk)
         /\ \A con : ContentOK(d, T, lo, hi, lev, C, rk, con)
                       => ContentOK(d2, T2, lo2, hi2, lev2, C, rk, con)
<1>1. /\ C \subseteq 1..(n - 1)
      /\ \A q \in C : /\ d[q].kind = "leaf"
                      /\ rk[q] \in Nat /\ 0 < rk[q] /\ rk[q] < n
                      /\ lo[q] \in Nat /\ hi[q] \in Nat /\ lo[q] <= hi[q] /\ hi[q] <= Top
                      /\ \A k \in DOMAIN d[q].entries : k < hi[q]
      /\ \A q \in C : q \notin T => lo[q] = hi[q]
      /\ \A p \in T : lev[p] = 0 <=> p \in C
  BY DEF ChainOK, ChainPages
<1>2. ChainPages(d2, n2, T2, lo2, hi2, lev2, C, rk)
  <2>1. C \subseteq 1..(n2 - 1)
    <3>1. \A x \in 1..(n - 1) : x \in 1..(n2 - 1)
      OBVIOUS
    <3> QED
      BY <3>1, <1>1
  <2>2. \A q \in C : rk[q] < n2
    BY <1>1
  <2> QED
    BY <2>1, <2>2, <1>1 DEF ChainPages
<1>3. ChainOrder(lo2, hi2, C, rk)
  BY DEF ChainOK, ChainOrder
<1>4. ChainLinks(d2, C, rk)
  BY DEF ChainOK, ChainLinks
<1>5. ASSUME NEW con, ContentOK(d, T, lo, hi, lev, C, rk, con)
      PROVE  ContentOK(d2, T2, lo2, hi2, lev2, C, rk, con)
  <2> SUFFICES ASSUME NEW x \in T2, NEW k \in Keys, lev2[x] = 0, lo2[x] <= k, k < hi2[x]
               PROVE  Gives(d2, C, rk, x, k, con[k])
    BY DEF ContentOK
  <2>1. x \in T /\ lev[x] = 0 /\ lo[x] <= k /\ k < hi[x]
    BY <1>1
  <2>2. Gives(d, C, rk, x, k, con[k])
    BY <2>1, <1>5 DEF ContentOK
  <2> QED
    BY <2>2, SameGives DEF Holds
<1> QED
  BY <1>2, <1>3, <1>4, <1>5 DEF ChainOK

\* All leaves of the chain but p are as they were.
SameBut(d, d2, C, p) == \A q \in C : q # p => d2[q] = d[q]
KeyPut(d, d2, p, k, v) ==
  /\ DOMAIN d2[p].entries = DOMAIN d[p].entries \cup {k}
  /\ d2[p].entries[k] = v
  /\ \A x \in DOMAIN d[p].entries : x # k => d2[p].entries[x] = d[p].entries[x]
KeyRemoved(d, d2, p, k) ==
  /\ DOMAIN d2[p].entries = DOMAIN d[p].entries \ {k}
  /\ \A x \in DOMAIN d2[p].entries : d2[p].entries[x] = d[p].entries[x]

\* The entries of a leaf may change within its span.
LEMMA ChainRewriteOK ==
  ASSUME NEW d, NEW d2, NEW T, NEW lo, NEW hi, NEW lev, NEW C, NEW rk, NEW n,
         ChainOK(d, n, T, lo, hi, lev, C, rk),
         NEW p, d2[p].kind = "leaf", d2[p].next = d[p].next,
         \A k \in DOMAIN d2[p].entries : k < hi[p],
         SameBut(d, d2, C, p)
  PROVE  ChainOK(d2, n, T, lo, hi, lev, C, rk)
<1> \A q \in C : q # p => d2[q] = d[q]
  BY DEF SameBut
<1>1. ChainPages(d2, n, T, lo, hi, lev, C, rk)
  BY DEF ChainOK, ChainPages
<1>2. \A q \in C : d2[q].next = d[q].next
  OBVIOUS
<1>3. ChainLinks(d2, C, rk)
  BY <1>2 DEF ChainOK, ChainLinks
<1> QED
  BY <1>1, <1>3 DEF ChainOK

\* A key written into the leaf that is responsible for it is found.
LEMMA InsertContent ==
  ASSUME NEW d, NEW d2, NEW T, NEW lo, NEW hi, NEW lev, NEW C, NEW rk, NEW n, NEW h, NEW con,
         Spans(n, h, T, lo, hi, lev), Nested(T, lo, hi, lev),
         ChainOK(d, n, T, lo, hi, lev, C, rk),
         ContentOK(d, T, lo, hi, lev, C, rk, con),
         con \in [Keys -> Values \cup {None}],
         NEW p \in T, lev[p] = 0, NEW k \in Keys, lo[p] <= k, k < hi[p], NEW v \in Values,
         KeyPut(d, d2, p, k, v),
         SameBut(d, d2, C, p)
  PROVE  ContentOK(d2, T, lo, hi, lev, C, rk, [con EXCEPT ![k] = v])
<1> \A q \in C : q # p => d2[q] = d[q]
  BY DEF SameBut
<1> /\ DOMAIN d2[p].entries = DOMAIN d[p].entries \cup {k}
    /\ d2[p].entries[k] = v
    /\ \A x \in DOMAIN d[p].entries : x # k => d2[p].entries[x] = d[p].entries[x]
  BY DEF KeyPut
<1> DEFINE con2 == [con EXCEPT ![k] = v]
<1> SUFFICES ASSUME NEW x \in T, NEW j \in Keys, lev[x] = 0, lo[x] <= j, j < hi[x]
             PROVE  Gives(d2, C, rk, x, j, con2[j])
  BY DEF ContentOK
<1>1. v # None
  BY BTreeAssumption
<1>2. con2[k] = v /\ \A y \in Keys : y # k => con2[y] = con[y]
  OBVIOUS
<1> HIDE DEF con2
<1>3. CASE j = k
  <2>1. x = p
    <3>1. k \in Nat
      BY TopType
    <3> QED
      BY <3>1, <1>3, OneLeaf
  <2>2. p \in C /\ rk[p] \in Nat /\ \A q \in C : rk[q] \in Nat
    BY DEF ChainOK, ChainPages
  <2>3. Holds(d2, p, k) /\ d2[p].entries[k] = v
    BY DEF Holds
  <2>4. \A q2 \in C : ~(rk[p] < rk[q2] /\ rk[q2] <= rk[p])
    BY <2>2
  <2> QED
    BY <2>1, <2>2, <2>3, <2>4, <1>1, <1>2, <1>3 DEF Gives
<1>4. CASE j # k
  <2>1. Gives(d, C, rk, x, j, con[j])
    BY DEF ContentOK
  <2>2. \A q \in C : /\ Holds(d2, q, j) <=> Holds(d, q, j)
                     /\ Holds(d, q, j) => d2[q].entries[j] = d[q].entries[j]
    BY <1>4 DEF Holds
  <2> QED
    BY <2>1, <2>2, <1>2, <1>4, SameGives
<1> QED
  BY <1>3, <1>4

\* A key removed from its leaf is gone if no leaf further along has it.
LEMMA DeleteContent ==
  ASSUME NEW d, NEW d2, NEW T, NEW lo, NEW hi, NEW lev, NEW C, NEW rk, NEW n, NEW h, NEW con,
         Spans(n, h, T, lo, hi, lev), Nested(T, lo, hi, lev),
         ChainOK(d, n, T, lo, hi, lev, C, rk),
         ContentOK(d, T, lo, hi, lev, C, rk, con),
         con \in [Keys -> Values \cup {None}],
         NEW p \in T, lev[p] = 0, NEW k \in Keys, lo[p] <= k, k < hi[p],
         KeyRemoved(d, d2, p, k),
         SameBut(d, d2, C, p),
         \A q \in C : rk[q] < rk[p] => ~Holds(d, q, k)
  PROVE  ContentOK(d2, T, lo, hi, lev, C, rk, [con EXCEPT ![k] = None])
<1> \A q \in C : q # p => d2[q] = d[q]
  BY DEF SameBut
<1> /\ DOMAIN d2[p].entries = DOMAIN d[p].entries \ {k}
    /\ \A x \in DOMAIN d2[p].entries : d2[p].entries[x] = d[p].entries[x]
  BY DEF KeyRemoved
<1> DEFINE con2 == [con EXCEPT ![k] = None]
<1> SUFFICES ASSUME NEW x \in T, NEW j \in Keys, lev[x] = 0, lo[x] <= j, j < hi[x]
             PROVE  Gives(d2, C, rk, x, j, con2[j])
  BY DEF ContentOK
<1>2. con2[k] = None /\ \A y \in Keys : y # k => con2[y] = con[y]
  OBVIOUS
<1> HIDE DEF con2
<1>3. CASE j = k
  <2>1. x = p
    <3>1. k \in Nat
      BY TopType
    <3> QED
      BY <3>1, <1>3, OneLeaf
  <2>2. p \in C /\ rk[p] \in Nat /\ \A q \in C : rk[q] \in Nat
    BY DEF ChainOK, ChainPages
  <2>3. \A q \in C : rk[q] = rk[p] => q = p
    BY <2>2 DEF ChainOK, ChainOrder
  <2>4. \A q \in C : rk[q] <= rk[p] => ~Holds(d2, q, k)
    BY <2>2, <2>3 DEF Holds
  <2> QED
    BY <2>1, <2>4, <1>2, <1>3 DEF Gives
<1>4. CASE j # k
  <2>1. Gives(d, C, rk, x, j, con[j])
    BY DEF ContentOK
  <2>2. \A q \in C : /\ Holds(d2, q, j) <=> Holds(d, q, j)
                     /\ Holds(d, q, j) => d2[q].entries[j] = d[q].entries[j]
    BY <1>4 DEF Holds
  <2> QED
    BY <2>1, <2>2, <1>2, <1>4, SameGives
<1> QED
  BY <1>3, <1>4

\* Leaves that are lost to the tree stay in the chain: those within [a, b) get an
\* empty span at b, and the leaf that ended at a ends at b.
CutChain(T2, lo, hi, lo2, hi2, C, a, b) ==
  /\ a \in Nat /\ b \in Nat /\ a <= b /\ b <= Top
  /\ \A q \in C : q \in T2 => /\ hi[q] <= a \/ b <= lo[q]
                              /\ lo2[q] = lo[q]
                              /\ hi2[q] = IF hi[q] = a THEN b ELSE hi[q]
  /\ \A q \in C : q \notin T2 =>
       \/ a <= lo[q] /\ hi[q] <= b /\ lo2[q] = b /\ hi2[q] = b
       \/ lo[q] = hi[q] /\ ~(a <= lo[q] /\ hi[q] <= b) /\ lo2[q] = lo[q] /\ hi2[q] = hi[q]

LEMMA CutChainOK ==
  ASSUME NEW d, NEW d2, NEW T, NEW T2, NEW lo, NEW hi, NEW lev, NEW lo2, NEW hi2,
         NEW C, NEW rk, NEW n \in Nat, NEW h, NEW a, NEW b,
         ChainOK(d, n, T, lo, hi, lev, C, rk), Spans(n, h, T, lo, hi, lev), T2 \subseteq T,
         \A q \in C : d2[q] = d[q] /\ DOMAIN d[q].entries \subseteq Nat,
         CutChain(T2, lo, hi, lo2, hi2, C, a, b)
  PROVE  ChainOK(d2, n, T2, lo2, hi2, lev, C, rk)
<1>1. /\ C \subseteq 1..(n - 1)
      /\ \A q \in C : /\ d[q].kind = "leaf"
                      /\ rk[q] \in Nat /\ 0 < rk[q] /\ rk[q] < n
                      /\ lo[q] \in Nat /\ hi[q] \in Nat /\ lo[q] <= hi[q] /\ hi[q] <= Top
                      /\ \A k \in DOMAIN d[q].entries : k < hi[q]
      /\ \A q \in C : q \notin T => lo[q] = hi[q]
      /\ \A p \in T : lev[p] = 0 <=> p \in C
  BY DEF ChainOK, ChainPages
<1>2. \A q \in T : lo[q] < hi[q]
  BY DEF Spans
<1>3. a \in Nat /\ b \in Nat /\ a <= b /\ b <= Top /\ Top \in Nat
  BY TopType DEF CutChain
<1>4. ASSUME NEW q \in C
      PROVE  \/ /\ q \in T2 /\ lo[q] < hi[q] /\ (hi[q] <= a \/ b <= lo[q])
                /\ lo2[q] = lo[q] /\ hi2[q] = IF hi[q] = a THEN b ELSE hi[q]
             \/ q \notin T2 /\ a <= lo[q] /\ hi[q] <= b /\ lo2[q] = b /\ hi2[q] = b
             \/ /\ q \notin T2 /\ lo[q] = hi[q] /\ ~(a <= lo[q] /\ hi[q] <= b)
                /\ lo2[q] = lo[q] /\ hi2[q] = hi[q]
  BY <1>2 DEF CutChain
<1>5. ASSUME NEW q \in C
      PROVE  /\ lo2[q] \in Nat /\ hi2[q] \in Nat /\ lo2[q] <= hi2[q] /\ hi2[q] <= Top
             /\ hi[q] <= hi2[q] /\ lo[q] <= lo2[q]
             /\ q \notin T2 => lo2[q] = hi2[q]
  <2>1. lo[q] \in Nat /\ hi[q] \in Nat /\ lo[q] <= hi[q] /\ hi[q] <= Top
    BY <1>1
  <2> QED
    BY <1>3, <1>4, <2>1
<1>6. ChainPages(d2, n, T2, lo2, hi2, lev, C, rk)
  <2>1. ASSUME NEW q \in C, NEW k \in DOMAIN d2[q].entries
        PROVE  k < hi2[q]
    <3>1. k < hi[q] /\ hi[q] \in Nat /\ k \in Nat
      BY <2>1, <1>1
    <3>2. hi2[q] = hi[q] \/ (hi[q] = a /\ hi2[q] = b) \/ (hi[q] <= b /\ hi2[q] = b)
      BY <1>4
    <3>3. CASE hi2[q] = hi[q]
      BY <3>1, <3>3
    <3>4. CASE hi2[q] # hi[q]
      <4>1. hi[q] <= hi2[q] /\ hi2[q] \in Nat
        BY <1>5
      <4> QED
        BY <3>1, <4>1
    <3> QED
      BY <3>3, <3>4
  <2>2. \A p \in T2 : lev[p] = 0 <=> p \in C
    BY <1>1
  <2> QED
    BY <2>1, <2>2, <1>1, <1>5 DEF ChainPages
<1>7. ChainOrder(lo2, hi2, C, rk)
  <2> SUFFICES ASSUME NEW q \in C, NEW q2 \in C
               PROVE  /\ rk[q] = rk[q2] => q = q2
                      /\ rk[q2] < rk[q] => hi2[q] <= lo2[q2]
    BY DEF ChainOrder
  <2>1. rk[q] = rk[q2] => q = q2
    BY DEF ChainOK, ChainOrder
  <2>2. ASSUME rk[q2] < rk[q] PROVE hi2[q] <= lo2[q2]
    <3>1. hi[q] <= lo[q2]
      BY <2>2 DEF ChainOK, ChainOrder
    <3>2. /\ lo[q] \in Nat /\ hi[q] \in Nat /\ lo[q] <= hi[q]
          /\ lo[q2] \in Nat /\ hi[q2] \in Nat /\ lo[q2] <= hi[q2]
      BY <1>1
    <3>3. hi2[q] = hi[q] \/ (a <= hi[q] /\ hi2[q] = b)
      BY <1>3, <1>4, <3>2
    <3>4. CASE hi2[q] = hi[q]
      BY <3>1, <3>2, <3>4, <1>5
    <3>5. CASE a <= hi[q] /\ hi2[q] = b
      <4>1. a <= lo[q2]
        BY <3>1, <3>2, <3>5, <1>3
      <4> QED
        BY <4>1, <3>2, <3>5, <1>3, <1>4
    <3> QED
      BY <3>3, <3>4, <3>5
  <2> QED
    BY <2>1, <2>2
<1>8. ChainLinks(d2, C, rk)
  BY DEF ChainOK, ChainLinks
<1> QED
  BY <1>6, <1>7, <1>8 DEF ChainOK

LEMMA CutContent ==
  ASSUME NEW d, NEW d2, NEW T, NEW T2, NEW lo, NEW hi, NEW lev, NEW lo2, NEW hi2,
         NEW C, NEW rk, NEW n, NEW h, NEW a, NEW b, NEW con,
         ChainOK(d, n, T, lo, hi, lev, C, rk), Spans(n, h, T, lo, hi, lev), T2 \subseteq T,
         Cover(T, lo, hi, lev), ContentOK(d, T, lo, hi, lev, C, rk, con),
         \A q \in C : d2[q] = d[q] /\ DOMAIN d[q].entries \subseteq Nat,
         CutChain(T2, lo, hi, lo2, hi2, C, a, b)
  PROVE  ContentOK(d2, T2, lo2, hi2, lev, C, rk, con)
<1>1. /\ \A q \in C : /\ rk[q] \in Nat /\ lo[q] \in Nat /\ hi[q] \in Nat
                      /\ \A k \in DOMAIN d[q].entries : k < hi[q]
      /\ \A p \in T : lev[p] = 0 <=> p \in C
  BY DEF ChainOK, ChainPages
<1>2. \A q, q2 \in C : /\ rk[q] = rk[q2] => q = q2
                       /\ rk[q2] < rk[q] => hi[q] <= lo[q2]
  BY DEF ChainOK, ChainOrder
<1> SUFFICES ASSUME NEW x \in T2, NEW k \in Keys, lev[x] = 0, lo2[x] <= k, k < hi2[x]
             PROVE  Gives(d2, C, rk, x, k, con[k])
  BY DEF ContentOK
<1>3. x \in C /\ x \in T /\ k \in Nat
  BY <1>1, TopType
<1>4. lo2[x] = lo[x] /\ (hi2[x] = hi[x] \/ hi[x] = a)
  BY <1>3 DEF CutChain
<1>5. Gives(d, C, rk, x, k, con[k])
  <2>1. CASE k < hi[x]
    BY <2>1, <1>3, <1>4 DEF ContentOK
  <2>2. CASE hi[x] <= k
    <3>1. PICK y \in T : lev[y] = 0 /\ lo[y] <= k /\ k < hi[y]
      BY DEF Cover
    <3>2. Gives(d, C, rk, y, k, con[k])
      BY <3>1 DEF ContentOK
    <3>3. y \in C
      BY <3>1, <1>1
    <3>4. rk[y] < rk[x]
      <4>0. rk[x] \in Nat /\ rk[y] \in Nat /\ lo[x] \in Nat /\ hi[x] \in Nat
            /\ lo[y] \in Nat /\ hi[y] \in Nat
        BY <3>3, <1>1, <1>3
      <4>1. CASE rk[x] = rk[y]
        <5>1. x = y
          BY <4>1, <3>3, <1>2, <1>3
        <5> QED
          BY <5>1, <4>0, <3>1, <2>2, <1>3
      <4>2. CASE rk[x] < rk[y]
        <5>1. hi[y] <= lo[x]
          BY <4>2, <3>3, <1>2, <1>3
        <5>2. lo[x] <= hi[x]
          BY <4>0, <1>3 DEF Spans
        <5> QED
          BY <5>1, <5>2, <4>0, <3>1, <2>2, <1>3
      <4> QED
        BY <4>0, <4>1, <4>2
    <3>5. \A q \in C : rk[y] < rk[q] => ~Holds(d, q, k)
      <4> SUFFICES ASSUME NEW q \in C, rk[y] < rk[q], Holds(d, q, k) PROVE FALSE
        OBVIOUS
      <4>1. hi[q] <= lo[y] /\ hi[q] \in Nat /\ lo[y] \in Nat
        BY <3>3, <1>1, <1>2
      <4>2. k < hi[q]
        BY <1>1 DEF Holds
      <4> QED
        BY <4>1, <4>2, <3>1, <1>3
    <3>6. \A q \in C : rk[q] \in Nat /\ rk[x] \in Nat /\ rk[y] \in Nat
      BY <3>3, <1>1, <1>3
    <3>7. CASE con[k] = None
      <4>1. \A q \in C : rk[q] <= rk[y] => ~Holds(d, q, k)
        BY <3>2, <3>7 DEF Gives
      <4>2. \A q \in C : ~Holds(d, q, k)
        BY <4>1, <3>5, <3>6
      <4> QED
        BY <4>2, <3>7 DEF Gives
    <3>8. CASE con[k] # None
      <4>1. PICK f \in C : /\ rk[f] <= rk[y] /\ Holds(d, f, k) /\ d[f].entries[k] = con[k]
                           /\ \A q2 \in C : rk[f] < rk[q2] /\ rk[q2] <= rk[y] => ~Holds(d, q2, k)
        BY <3>2, <3>8 DEF Gives
      <4>2. rk[f] <= rk[x]
        BY <4>1, <3>4, <3>6
      <4>3. \A q2 \in C : rk[f] < rk[q2] => ~Holds(d, q2, k)
        BY <4>1, <3>5, <3>6
      <4> QED
        BY <4>1, <4>2, <4>3, <3>8 DEF Gives
    <3> QED
      BY <3>7, <3>8
  <2>3. hi[x] \in Nat
    BY <1>1, <1>3
  <2> QED
    BY <2>1, <2>2, <2>3, <1>3
<1> QED
  BY <1>5, SameGives DEF Holds

-----------------------------------------------------------------------------
(* Descents and walks along the chain *)

\* f[n] is what n applications of F make of x0.
Iterates(f, L, S, x0, F) ==
  f \in [0..L -> S] /\ f[0] = x0 /\ \A n \in 1..L : f[n] = F[f[n - 1]]

\* A function can be applied again and again.
LEMMA Iterated ==
  ASSUME NEW L \in Nat, NEW S, NEW x0 \in S, NEW F \in [S -> S]
  PROVE  \E f : Iterates(f, L, S, x0, F)
<1> DEFINE Good(m, f) == f \in [0..m -> S]
                         /\ f = [n \in 0..m |-> IF n = 0 THEN x0 ELSE F[f[n - 1]]]
           Bad == {m \in 0..L : \A f : ~Good(m, f)}
<1> SUFFICES ASSUME \A f : ~Good(L, f) PROVE FALSE
  <2>1. PICK f : Good(L, f)
    OBVIOUS
  <2>2. \A n \in 0..L : f[n] = IF n = 0 THEN x0 ELSE F[f[n - 1]]
    BY <2>1
  <2>3. Iterates(f, L, S, x0, F)
    BY <2>1, <2>2 DEF Iterates
  <2> QED
    BY <2>3
<1>1. L \in Bad /\ Bad \subseteq Nat
  OBVIOUS
<1>2. PICK m \in Bad : \A y \in Bad : m <= y
  BY <1>1, LeastExists, Zenon
<1>3. m \in Nat /\ m <= L
  OBVIOUS
<1>4. CASE m = 0
  <2> DEFINE f == [n \in 0..0 |-> x0]
  <2>1. f \in [0..0 -> S] /\ f = [n \in 0..0 |-> IF n = 0 THEN x0 ELSE F[f[n - 1]]]
    OBVIOUS
  <2>2. Good(m, f)
    BY <2>1, <1>4
  <2> QED
    BY <2>2, <1>2
<1>5. CASE m # 0
  <2>1. m - 1 \in 0..L /\ ~(m <= m - 1) /\ m - 1 \in Nat
    BY <1>3, <1>5
  <2>2. PICK g : Good(m - 1, g)
    BY <2>1, <1>2
  <2> DEFINE f == [n \in 0..m |-> IF n = m THEN F[g[m - 1]] ELSE g[n]]
  <2>3. g \in [0..(m - 1) -> S] /\ \A n \in 0..(m - 1) : g[n] = IF n = 0 THEN x0 ELSE F[g[n - 1]]
    BY <2>2
  <2>4. f \in [0..m -> S]
    <3>1. g[m - 1] \in S /\ F[g[m - 1]] \in S
      BY <2>1, <2>3
    <3>2. \A n \in 0..m : n = m \/ n \in 0..(m - 1)
      BY <1>3
    <3> QED
      BY <2>3, <3>1, <3>2
  <2>5. \A n \in 0..m : f[n] = IF n = 0 THEN x0 ELSE F[f[n - 1]]
    <3> SUFFICES ASSUME NEW n \in 0..m PROVE f[n] = IF n = 0 THEN x0 ELSE F[f[n - 1]]
      OBVIOUS
    <3>1. CASE n = m
      <4>1. m - 1 \in 0..m /\ m - 1 # m
        BY <1>3, <1>5
      <4>2. f[m - 1] = g[m - 1] /\ f[n] = F[g[m - 1]]
        BY <4>1, <3>1
      <4> QED
        BY <4>2, <3>1, <1>5
    <3>2. CASE n # m
      <4>1. n \in 0..(m - 1) /\ f[n] = g[n]
        BY <3>2, <1>3
      <4>2. n # 0 => n - 1 \in 0..m /\ n - 1 # m /\ f[n - 1] = g[n - 1]
        BY <4>1, <1>3
      <4> QED
        BY <4>1, <4>2, <2>3
    <3> QED
      BY <3>1, <3>2
  <2> HIDE DEF f
  <2>6. f = [n \in 0..m |-> IF n = 0 THEN x0 ELSE F[f[n - 1]]]
    BY <2>4, <2>5
  <2>7. Good(m, f)
    BY <2>4, <2>6
  <2> QED
    BY <2>7, <1>2
<1> QED
  BY <1>4, <1>5

\* The pages on the way down to the leaf of a key.
LEMMA Descent ==
  ASSUME TypedPages(disk), NEW k \in Keys, root \in 0..LastIndexPage, nextPage \in Nat
  PROVE  \E f :
           /\ f[0] = root
           /\ \A n \in 1..nextPage : f[n] = StepDown(f[n - 1], k)
           /\ FindLeaf(k) = f[nextPage]
<1> DEFINE S == 0..LastIndexPage
           F == [p \in S |-> StepDown(p, k)]
           G(f) == f = [n \in 0..nextPage |-> IF n = 0 THEN root ELSE StepDown(f[n - 1], k)]
<1>1. \A p \in S : StepDown(p, k) \in S
  <2> SUFFICES ASSUME NEW p \in S, p # 0, disk[p].kind = "internal"
               PROVE  ChildOf(disk[p], k) \in S
    BY DEF StepDown
  <2>1. p \in PageIds
    BY BTreeAssumption DEF PageIds
  <2>2. ChildOf(disk[p], k) \in PageIds
    BY <2>1, SlotFacts DEF TypedPages
  <2> QED
    BY <2>2, BTreeAssumption DEF PageIds
<1>2. F \in [S -> S]
  BY <1>1
<1>3. PICK f : Iterates(f, nextPage, S, root, F)
  <2> HIDE DEF F, S
  <2>1. root \in S
    BY DEF S
  <2> QED
    BY <1>2, <2>1, Iterated, Zenon
<1>4. \A n \in 0..nextPage : n # 0 => n - 1 \in 0..nextPage /\ F[f[n - 1]] = StepDown(f[n - 1], k)
  BY <1>3 DEF Iterates
<1>5. G(f)
  <2>1. \A n \in 0..nextPage : n = 0 \/ n \in 1..nextPage
    OBVIOUS
  <2>2. \A n \in 0..nextPage : f[n] = IF n = 0 THEN root ELSE StepDown(f[n - 1], k)
    BY <1>3, <1>4, <2>1 DEF Iterates
  <2>3. f \in [0..nextPage -> S]
    BY <1>3 DEF Iterates
  <2> QED
    BY <2>2, <2>3
<1>6. FindLeaf(k) = (CHOOSE g : G(g))[nextPage]
  BY DEF FindLeaf
<1>7. G(CHOOSE g : G(g))
  BY <1>5, Zenon
<1>8. \A g : G(g) => g[0] = root /\ \A n \in 1..nextPage : g[n] = StepDown(g[n - 1], k)
  <2> SUFFICES ASSUME NEW g, G(g)
               PROVE  g[0] = root /\ \A n \in 1..nextPage : g[n] = StepDown(g[n - 1], k)
    OBVIOUS
  <2>1. \A n \in 0..nextPage : g[n] = IF n = 0 THEN root ELSE StepDown(g[n - 1], k)
    OBVIOUS
  <2>2. 0 \in 0..nextPage /\ \A n \in 1..nextPage : n \in 0..nextPage /\ n # 0
    OBVIOUS
  <2> HIDE DEF G
  <2> QED
    BY <2>1, <2>2
<1> HIDE DEF G
<1> QED
  BY <1>6, <1>7, <1>8

\* The leaves on the way along the chain.
LEMMA Walk ==
  ASSUME TypedPages(disk), NEW k, NEW p \in 0..LastIndexPage, nextPage \in Nat
  PROVE  \E f :
           /\ f[0] = p
           /\ \A n \in 1..nextPage : f[n] = StepOn(f[n - 1], k)
           /\ FoundFrom(p, k) = IF HasKey(f[nextPage], k) THEN disk[f[nextPage]].entries[k] ELSE None
<1> DEFINE S == 0..LastIndexPage
           F == [x \in S |-> StepOn(x, k)]
           G(f) == f = [n \in 0..nextPage |-> IF n = 0 THEN p ELSE StepOn(f[n - 1], k)]
           V(f) == IF HasKey(f[nextPage], k) THEN disk[f[nextPage]].entries[k] ELSE None
<1>1. \A x \in S : StepOn(x, k) \in S
  <2> SUFFICES ASSUME NEW x \in S, x # 0, disk[x].kind = "leaf" PROVE disk[x].next \in S
    BY DEF StepOn, IsLeaf
  <2>1. x \in PageIds
    BY BTreeAssumption DEF PageIds
  <2> QED
    BY <2>1, LeafShape DEF TypedPages
<1>2. F \in [S -> S]
  BY <1>1
<1>3. PICK f : Iterates(f, nextPage, S, p, F)
  <2> HIDE DEF F, S
  <2>1. p \in S
    BY DEF S
  <2> QED
    BY <1>2, <2>1, Iterated, Zenon
<1>4. \A n \in 0..nextPage : n # 0 => n - 1 \in 0..nextPage /\ F[f[n - 1]] = StepOn(f[n - 1], k)
  BY <1>3 DEF Iterates
<1>5. G(f)
  <2>1. \A n \in 0..nextPage : n = 0 \/ n \in 1..nextPage
    OBVIOUS
  <2>2. \A n \in 0..nextPage : f[n] = IF n = 0 THEN p ELSE StepOn(f[n - 1], k)
    BY <1>3, <1>4, <2>1 DEF Iterates
  <2>3. f \in [0..nextPage -> S]
    BY <1>3 DEF Iterates
  <2> QED
    BY <2>2, <2>3
<1>6. FoundFrom(p, k) = V(CHOOSE g : G(g))
  BY DEF FoundFrom
<1>7. G(CHOOSE g : G(g))
  BY <1>5, Zenon
<1>8. \A g : G(g) => g[0] = p /\ \A n \in 1..nextPage : g[n] = StepOn(g[n - 1], k)
  <2> SUFFICES ASSUME NEW g, G(g)
               PROVE  g[0] = p /\ \A n \in 1..nextPage : g[n] = StepOn(g[n - 1], k)
    OBVIOUS
  <2>1. \A n \in 0..nextPage : g[n] = IF n = 0 THEN p ELSE StepOn(g[n - 1], k)
    OBVIOUS
  <2>2. 0 \in 0..nextPage /\ \A n \in 1..nextPage : n \in 0..nextPage /\ n # 0
    OBVIOUS
  <2> HIDE DEF G
  <2> QED
    BY <2>1, <2>2
<1> HIDE DEF G
<1>9. \E g : G(g) /\ FoundFrom(p, k) = V(g)
  <2> HIDE DEF V
  <2> QED
    BY <1>6, <1>7, Zenon
<1> QED
  BY <1>8, <1>9

\* Each step but the first follows from the one before: so a property of the first
\* that every step keeps holds of the last.
LEMMA Kept0 ==
  ASSUME NEW L \in Nat, NEW Good, Good \subseteq 0..L, 0 \in Good,
         \A n \in 1..L : n - 1 \in Good => n \in Good
  PROVE  L \in Good
<1> DEFINE Bad == 0..L \ Good
<1> SUFFICES ASSUME L \notin Good PROVE FALSE
  OBVIOUS
<1>1. L \in Bad /\ Bad \subseteq Nat
  OBVIOUS
<1>2. PICK m \in Bad : \A y \in Bad : m <= y
  BY <1>1, LeastExists, Zenon
<1>3. m \in 1..L /\ m - 1 \in 0..L /\ ~(m <= m - 1)
  OBVIOUS
<1>4. m - 1 \in Good
  BY <1>2, <1>3
<1> QED
  BY <1>2, <1>3, <1>4

\* find_leaf finds the leaf that is responsible for the key.
LEMMA FindLeafOK ==
  ASSUME TypedPages(disk), NEW k \in Keys, root \in 0..LastIndexPage, nextPage \in Nat,
         NEW n \in Nat, n <= nextPage, n <= LastIndexPage + 1,
         NEW T, NEW lo, NEW hi, NEW lev,
         TreeOK(disk, root, height, n, T, lo, hi, lev)
  PROVE  /\ FindLeaf(k) \in T /\ lev[FindLeaf(k)] = 0
         /\ lo[FindLeaf(k)] <= k /\ k < hi[FindLeaf(k)]
<1>1. /\ Rooted(root, n, height, T, lo, hi, lev) /\ Spans(n, height, T, lo, hi, lev)
      /\ Kinds(disk, T, lev) /\ AllKids(disk, T, lo, hi, lev)
  BY DEF TreeOK
<1>2. /\ root \in T /\ lo[root] = 0 /\ hi[root] = Top /\ lev[root] = height - 1
      /\ height \in Nat /\ height # 0 /\ height < n
  BY <1>1 DEF Rooted
<1>3. \A x \in T : lev[x] \in Nat /\ x \in PageIds /\ x # 0
  BY <1>1, BTreeAssumption DEF Spans, PageIds
<1>4. PICK f : /\ f[0] = root
               /\ \A i \in 1..nextPage : f[i] = StepDown(f[i - 1], k)
               /\ FindLeaf(k) = f[nextPage]
  BY Descent
<1> DEFINE Fine(i) == /\ f[i] \in T /\ lo[f[i]] <= k /\ k < hi[f[i]]
                      /\ lev[f[i]] = IF i <= height - 1 THEN height - 1 - i ELSE 0
           Good == {i \in 0..nextPage : Fine(i)}
<1>5. 0 \in Good
  BY <1>2, <1>4, TopType
<1>6. ASSUME NEW i \in 1..nextPage, i - 1 \in Good PROVE i \in Good
  <2> DEFINE x == f[i - 1]
  <2>1. /\ x \in T /\ lo[x] <= k /\ k < hi[x]
        /\ lev[x] = IF i - 1 <= height - 1 THEN height - 1 - (i - 1) ELSE 0
    BY <1>6
  <2>2. f[i] = StepDown(x, k)
    BY <1>4
  <2> HIDE DEF x
  <2>3. CASE lev[x] = 0
    <3>1. disk[x].kind = "leaf"
      BY <2>1, <2>3, <1>1 DEF Kinds
    <3>2. f[i] = x
      BY <2>2, <3>1 DEF StepDown
    <3>3. lev[x] = IF i <= height - 1 THEN height - 1 - i ELSE 0
      BY <2>1, <2>3, <1>2
    <3> QED
      BY <2>1, <3>2, <3>3
  <2>4. CASE lev[x] # 0
    <3>1. disk[x].kind = "internal"
      BY <2>1, <2>4, <1>1 DEF Kinds
    <3>2. f[i] = ChildOf(disk[x], k)
      BY <2>1, <2>2, <3>1, <1>3 DEF StepDown
    <3>3. f[i] \in T /\ lev[f[i]] = lev[x] - 1 /\ lo[f[i]] <= k /\ k < hi[f[i]]
      BY <2>1, <2>4, <3>2, <1>1, ChildStep
    <3>4. lev[f[i]] = IF i <= height - 1 THEN height - 1 - i ELSE 0
      BY <2>1, <2>4, <3>3, <1>2
    <3> QED
      BY <3>3, <3>4
  <2> QED
    BY <2>3, <2>4
<1>7. Good \subseteq 0..nextPage
  OBVIOUS
<1> HIDE DEF Good
<1>8. nextPage \in Good
  BY <1>5, <1>6, <1>7, Kept0
<1>9. Fine(nextPage)
  BY <1>8 DEF Good
<1> QED
  BY <1>2, <1>4, <1>9

LEMMA FindLeafInEmpty ==
  ASSUME TypedPages(disk), NEW k \in Keys, root = 0, nextPage \in Nat
  PROVE  FindLeaf(k) = 0
<1>1. root \in 0..LastIndexPage
  BY BTreeAssumption
<1>2. PICK f : /\ f[0] = root
               /\ \A i \in 1..nextPage : f[i] = StepDown(f[i - 1], k)
               /\ FindLeaf(k) = f[nextPage]
  BY <1>1, Descent
<1> DEFINE Good == {i \in 0..nextPage : f[i] = 0}
<1>3. 0 \in Good
  BY <1>2
<1>4. \A i \in 1..nextPage : i - 1 \in Good => i \in Good
  BY <1>2 DEF StepDown
<1>5. Good \subseteq 0..nextPage
  OBVIOUS
<1> HIDE DEF Good
<1>6. nextPage \in Good
  BY <1>3, <1>4, <1>5, Kept0
<1> QED
  BY <1>2, <1>6 DEF Good

LEMMA FoundFromNothing ==
  ASSUME TypedPages(disk), NEW k, nextPage \in Nat
  PROVE  FoundFrom(0, k) = None
<1>1. 0 \in 0..LastIndexPage
  BY BTreeAssumption
<1>2. PICK f :
           /\ f[0] = 0
           /\ \A n \in 1..nextPage : f[n] = StepOn(f[n - 1], k)
           /\ FoundFrom(0, k) = IF HasKey(f[nextPage], k) THEN disk[f[nextPage]].entries[k] ELSE None
  BY <1>1, Walk
<1> DEFINE Good == {i \in 0..nextPage : f[i] = 0}
<1>3. 0 \in Good
  BY <1>2
<1>4. \A i \in 1..nextPage : i - 1 \in Good => i \in Good
  BY <1>2 DEF StepOn
<1>5. Good \subseteq 0..nextPage
  OBVIOUS
<1> HIDE DEF Good
<1>6. nextPage \in Good
  BY <1>3, <1>4, <1>5, Kept0
<1>7. f[nextPage] = 0
  BY <1>6 DEF Good
<1> QED
  BY <1>2, <1>7 DEF HasKey

\* The walk along the chain ends with the first leaf that has the key.
LEMMA FoundFromOK ==
  ASSUME TypedPages(disk), NEW k, nextPage \in Nat,
         NEW n \in Nat, n <= nextPage, n <= LastIndexPage + 1,
         NEW T, NEW lo, NEW hi, NEW lev, NEW C, NEW rk,
         ChainOK(disk, n, T, lo, hi, lev, C, rk), NEW p \in C
  PROVE  Gives(disk, C, rk, p, k, FoundFrom(p, k))
<1>1. \A q \in C : q \in PageIds /\ q # 0 /\ q \in 0..LastIndexPage
  BY BTreeAssumption DEF ChainOK, ChainPages, PageIds
<1>2. \A q \in C : IsLeaf(q) /\ rk[q] \in Nat /\ 0 < rk[q] /\ rk[q] < n
  BY DEF ChainOK, ChainPages, IsLeaf
<1>3. \A q \in C : \/ disk[q].next = 0 /\ \A q2 \in C : rk[q] <= rk[q2]
                   \/ /\ disk[q].next \in C /\ rk[disk[q].next] < rk[q]
                      /\ \A q2 \in C : rk[q2] < rk[q] => rk[q2] <= rk[disk[q].next]
  BY DEF ChainOK, ChainLinks
<1>4. \A q, q2 \in C : rk[q] = rk[q2] => q = q2
  BY DEF ChainOK, ChainOrder
<1>5. \A q \in C : HasKey(q, k) <=> Holds(disk, q, k)
  BY <1>1, <1>2 DEF HasKey, Holds, KeysOf
<1>6. PICK f :
           /\ f[0] = p
           /\ \A i \in 1..nextPage : f[i] = StepOn(f[i - 1], k)
           /\ FoundFrom(p, k) = IF HasKey(f[nextPage], k) THEN disk[f[nextPage]].entries[k] ELSE None
  BY <1>1, Walk
<1> DEFINE None0(x) == x = 0 /\ \A q \in C : rk[q] <= rk[p] => ~Holds(disk, q, k)
           On(x, i) == /\ x \in C /\ rk[x] <= rk[p]
                       /\ \A q \in C : rk[x] < rk[q] /\ rk[q] <= rk[p] => ~Holds(disk, q, k)
                       /\ Holds(disk, x, k) \/ rk[x] + i <= rk[p]
           Good == {i \in 0..nextPage : None0(f[i]) \/ On(f[i], i)}
<1>7. 0 \in Good
  <2>1. On(f[0], 0)
    BY <1>2, <1>6
  <2> QED
    BY <2>1
<1>8. ASSUME NEW i \in 1..nextPage, i - 1 \in Good PROVE i \in Good
  <2> DEFINE x == f[i - 1]
             y == f[i]
  <2>1. None0(x) \/ On(x, i - 1)
    BY <1>8
  <2>2. y = StepOn(x, k)
    BY <1>6
  <2> HIDE DEF x, y
  <2>3. CASE x = 0
    <3>1. None0(x)
      BY <2>1, <2>3, <1>1
    <3>2. y = 0
      BY <2>2, <2>3 DEF StepOn
    <3>3. None0(y)
      BY <3>1, <3>2
    <3> HIDE DEF None0, On
    <3> QED
      BY <3>3 DEF y
  <2>4. CASE x # 0 /\ Holds(disk, x, k)
    <3>1. On(x, i - 1)
      BY <2>1, <2>4
    <3>2. y = x
      BY <2>2, <2>4, <3>1, <1>5 DEF StepOn
    <3>3. On(y, i)
      BY <2>4, <3>1, <3>2
    <3> HIDE DEF None0, On
    <3> QED
      BY <3>3 DEF y
  <2>5. CASE x # 0 /\ ~Holds(disk, x, k)
    <3>1. On(x, i - 1)
      BY <2>1, <2>5
    <3>2. x \in C
      BY <3>1
    <3>3. y = disk[x].next
      BY <2>2, <2>5, <3>2, <1>2, <1>5 DEF StepOn
    <3>4. \A q \in C : rk[q] \in Nat /\ rk[x] \in Nat /\ rk[p] \in Nat
      BY <3>2, <1>2
    <3>5. CASE disk[x].next = 0 /\ \A q2 \in C : rk[x] <= rk[q2]
      <4>1. \A q \in C : rk[q] <= rk[p] => ~Holds(disk, q, k)
        <5> SUFFICES ASSUME NEW q \in C, rk[q] <= rk[p] PROVE ~Holds(disk, q, k)
          OBVIOUS
        <5>1. rk[x] < rk[q] \/ rk[q] = rk[x]
          BY <3>4, <3>5
        <5> QED
          BY <5>1, <3>1, <3>2, <2>5, <1>4
      <4>2. None0(y)
        BY <4>1, <3>3, <3>5
      <4> HIDE DEF None0, On
      <4> QED
        BY <4>2 DEF y
    <3>6. CASE /\ disk[x].next \in C /\ rk[disk[x].next] < rk[x]
               /\ \A q2 \in C : rk[q2] < rk[x] => rk[q2] <= rk[disk[x].next]
      <4>1. y \in C /\ rk[y] < rk[x] /\ rk[y] \in Nat
            /\ \A q2 \in C : rk[q2] < rk[x] => rk[q2] <= rk[y]
        BY <3>3, <3>4, <3>6
      <4>2. rk[y] <= rk[p] /\ rk[y] + i <= rk[p]
        BY <4>1, <3>1, <3>4, <2>5
      <4>3. \A q \in C : rk[y] < rk[q] /\ rk[q] <= rk[p] => ~Holds(disk, q, k)
        <5> SUFFICES ASSUME NEW q \in C, rk[y] < rk[q], rk[q] <= rk[p] PROVE ~Holds(disk, q, k)
          OBVIOUS
        <5>1. rk[x] < rk[q] \/ rk[q] = rk[x]
          BY <4>1, <3>4
        <5> QED
          BY <5>1, <3>1, <3>2, <2>5, <1>4
      <4>4. On(y, i)
        BY <4>1, <4>2, <4>3
      <4> HIDE DEF None0, On
      <4> QED
        BY <4>4 DEF y
    <3> QED
      BY <3>2, <3>5, <3>6, <1>3
  <2> QED
    BY <2>3, <2>4, <2>5
<1>9. Good \subseteq 0..nextPage
  OBVIOUS
<1>10. nextPage \in Good
  <2> HIDE DEF Good
  <2> QED
    BY <1>7, <1>8, <1>9, Kept0
<1> DEFINE z == f[nextPage]
<1>11. None0(z) \/ On(z, nextPage)
  BY <1>10
<1> HIDE DEF z
<1>12. FoundFrom(p, k) = IF HasKey(z, k) THEN disk[z].entries[k] ELSE None
  BY <1>6 DEF z
<1>13. CASE None0(z)
  <2>1. FoundFrom(p, k) = None
    BY <1>12, <1>13 DEF HasKey
  <2> QED
    BY <2>1, <1>13 DEF Gives
<1>14. CASE On(z, nextPage)
  <2>1. z \in C /\ rk[z] \in Nat /\ rk[z] > 0 /\ rk[p] < n /\ rk[p] \in Nat
    BY <1>2, <1>14
  <2>2. Holds(disk, z, k)
    BY <2>1, <1>14
  <2>3. FoundFrom(p, k) = disk[z].entries[k]
    BY <2>1, <2>2, <1>5, <1>12
  <2>4. disk[z].entries[k] \in Values
    <3>1. IsPage(disk[z]) /\ disk[z].kind = "leaf"
      BY <2>1, <1>1, <1>2 DEF TypedPages, IsLeaf
    <3>2. disk[z].entries \in [DOMAIN disk[z].entries -> Values]
      BY <3>1, LeafShape
    <3> QED
      BY <3>2, <2>2 DEF Holds
  <2>5. disk[z].entries[k] # None
    BY <2>4, BTreeAssumption
  <2> QED
    BY <2>1, <2>2, <2>3, <2>5, <1>14 DEF Gives
<1> QED
  BY <1>11, <1>13, <1>14

LEMMA GivesOnce ==
  ASSUME NEW d, NEW n, NEW T, NEW lo, NEW hi, NEW lev, NEW C, NEW rk,
         ChainOK(d, n, T, lo, hi, lev, C, rk), NEW p \in C, NEW k, NEW v, NEW w,
         Gives(d, C, rk, p, k, v), Gives(d, C, rk, p, k, w)
  PROVE  v = w
<1>1. \A q, q2 \in C : rk[q] \in Nat /\ (rk[q] = rk[q2] => q = q2)
  BY DEF ChainOK, ChainPages, ChainOrder
<1>2. CASE v = None /\ w = None
  BY <1>2
<1>3. CASE v = None /\ w # None
  BY <1>3 DEF Gives
<1>4. CASE v # None /\ w = None
  BY <1>4 DEF Gives
<1>5. CASE v # None /\ w # None
  <2>1. PICK f \in C : /\ rk[f] <= rk[p] /\ Holds(d, f, k) /\ d[f].entries[k] = v
                       /\ \A q2 \in C : rk[f] < rk[q2] /\ rk[q2] <= rk[p] => ~Holds(d, q2, k)
    BY <1>5 DEF Gives
  <2>2. PICK g \in C : /\ rk[g] <= rk[p] /\ Holds(d, g, k) /\ d[g].entries[k] = w
                       /\ \A q2 \in C : rk[g] < rk[q2] /\ rk[q2] <= rk[p] => ~Holds(d, q2, k)
    BY <1>5 DEF Gives
  <2>3. ~(rk[f] < rk[g]) /\ ~(rk[g] < rk[f])
    BY <2>1, <2>2
  <2>4. f = g
    BY <2>3, <1>1
  <2> QED
    BY <2>1, <2>2, <2>4
<1> QED
  BY <1>2, <1>3, <1>4, <1>5

\* Lookups give what the content says.
LEMMA LookupOK ==
  ASSUME TypedPages(disk), NEW k \in Keys, nextPage \in Nat, root \in 0..LastIndexPage,
         NEW n \in Nat, n <= nextPage, n <= LastIndexPage + 1,
         NEW T, NEW lo, NEW hi, NEW lev, NEW C, NEW rk,
         TreeOK(disk, root, height, n, T, lo, hi, lev),
         ChainOK(disk, n, T, lo, hi, lev, C, rk),
         ContentOK(disk, T, lo, hi, lev, C, rk, content)
  PROVE  Lookup(k) = content[k]
<1> DEFINE p == FindLeaf(k)
<1>1. p \in T /\ lev[p] = 0 /\ lo[p] <= k /\ k < hi[p]
  BY FindLeafOK
<1> HIDE DEF p
<1>2. p \in C
  BY <1>1 DEF ChainOK, ChainPages
<1>3. Gives(disk, C, rk, p, k, FoundFrom(p, k))
  BY <1>2, FoundFromOK
<1>4. Gives(disk, C, rk, p, k, content[k])
  BY <1>1 DEF ContentOK
<1>5. FoundFrom(p, k) = content[k]
  BY <1>2, <1>3, <1>4, GivesOnce
<1> QED
  BY <1>5 DEF Lookup, p

\* The pages at each depth are the children of those above.
LEMMA DepthOK ==
  ASSUME TypedPages(disk), root \in PageIds
  PROVE  /\ Depth[0] = {root}
         /\ \A i \in 1..LastIndexPage : Depth[i] = ChildrenOf(Depth[i - 1])
<1> DEFINE L == 0..LastIndexPage
           Sets == SUBSET PageIds
           F == [S \in Sets |-> ChildrenOf(S)]
           G(f) == f = [i \in 0..LastIndexPage |-> IF i = 0 THEN {root} ELSE ChildrenOf(f[i - 1])]
<1>0. LastIndexPage \in Nat
  BY BTreeAssumption
<1>1. \A S \in Sets : ChildrenOf(S) \in Sets
  <2> SUFFICES ASSUME NEW S \in Sets, NEW q \in S, disk[q].kind = "internal"
               PROVE  Range(disk[q].children) \subseteq PageIds
    BY DEF ChildrenOf
  <2>1. disk[q].children \in [DOMAIN disk[q].children -> PageIds]
    BY InternalShape DEF TypedPages
  <2> QED
    BY <2>1 DEF Range
<1>2. F \in [Sets -> Sets]
  BY <1>1
<1>3. PICK f : Iterates(f, LastIndexPage, Sets, {root}, F)
  <2> HIDE DEF F, Sets
  <2>1. {root} \in Sets
    BY DEF Sets
  <2> QED
    BY <1>0, <1>2, <2>1, Iterated, Zenon
<1>4. \A i \in 1..LastIndexPage : F[f[i - 1]] = ChildrenOf(f[i - 1])
  BY <1>0, <1>3 DEF Iterates
<1>5. G(f)
  <2>1. \A i \in 0..LastIndexPage : i = 0 \/ i \in 1..LastIndexPage
    BY <1>0
  <2>2. \A i \in 0..LastIndexPage : f[i] = IF i = 0 THEN {root} ELSE ChildrenOf(f[i - 1])
    BY <1>3, <1>4, <2>1 DEF Iterates
  <2>3. f \in [0..LastIndexPage -> Sets]
    BY <1>3 DEF Iterates
  <2> QED
    BY <2>2, <2>3
<1>6. Depth = (CHOOSE g : G(g))
  BY DEF Depth
<1>7. G(CHOOSE g : G(g))
  BY <1>5, Zenon
<1>8. \A g : G(g) => g[0] = {root} /\ \A i \in 1..LastIndexPage : g[i] = ChildrenOf(g[i - 1])
  <2> SUFFICES ASSUME NEW g, G(g)
               PROVE  g[0] = {root} /\ \A i \in 1..LastIndexPage : g[i] = ChildrenOf(g[i - 1])
    OBVIOUS
  <2>1. \A i \in 0..LastIndexPage : g[i] = IF i = 0 THEN {root} ELSE ChildrenOf(g[i - 1])
    OBVIOUS
  <2>2. 0 \in 0..LastIndexPage /\ \A i \in 1..LastIndexPage : i \in 0..LastIndexPage /\ i # 0
    BY <1>0
  <2> HIDE DEF G
  <2> QED
    BY <2>1, <2>2
<1> HIDE DEF G
<1> QED
  BY <1>6, <1>7, <1>8

\* Internal pages of T lead to pages of T one level lower.
Leads(d, T, lev) ==
  \A p \in T : lev[p] # 0 => \A b \in DOMAIN d[p].children :
    d[p].children[b] \in T /\ lev[d[p].children[b]] = lev[p] - 1

\* The pages at depth i are of level height - 1 - i ...
LEMMA DepthSound ==
  ASSUME TypedPages(disk), NEW n \in Nat, n <= LastIndexPage + 1,
         NEW T, NEW lo, NEW hi, NEW lev,
         Rooted(root, n, height, T, lo, hi, lev), Spans(n, height, T, lo, hi, lev),
         Kinds(disk, T, lev), Leads(disk, T, lev),
         NEW i \in 0..(height - 1)
  PROVE  /\ i \in 0..LastIndexPage
         /\ \A p \in Depth[i] : p \in T /\ lev[p] = height - 1 - i
<1>1. root \in T /\ lev[root] = height - 1 /\ height \in Nat /\ height # 0 /\ height < n
  BY DEF Rooted
<1>2. \A p \in T : p \in PageIds /\ lev[p] \in Nat
  BY BTreeAssumption DEF Spans, PageIds
<1>3. LastIndexPage \in Nat /\ i \in Nat /\ height - 1 <= LastIndexPage /\ i \in 0..LastIndexPage
  BY <1>1, BTreeAssumption
<1>4. /\ Depth[0] = {root}
      /\ \A j \in 1..LastIndexPage : Depth[j] = ChildrenOf(Depth[j - 1])
  BY <1>1, <1>2, DepthOK
<1> DEFINE Fine(j) == \A p \in Depth[j] : p \in T /\ lev[p] = height - 1 - j
           Good == {j \in 0..i : Fine(j)}
<1>5. 0 \in Good
  BY <1>1, <1>3, <1>4
<1>6. ASSUME NEW j \in 1..i, j - 1 \in Good PROVE j \in Good
  <2>1. Depth[j] = ChildrenOf(Depth[j - 1])
    BY <1>3, <1>4
  <2>2. \A p \in Depth[j - 1] : p \in T /\ lev[p] = height - 1 - (j - 1)
    BY <1>6
  <2>3. ASSUME NEW p \in Depth[j] PROVE p \in T /\ lev[p] = height - 1 - j
    <3>1. PICK q \in Depth[j - 1] : disk[q].kind = "internal" /\ p \in Range(disk[q].children)
      BY <2>1 DEF ChildrenOf
    <3>2. PICK b \in DOMAIN disk[q].children : p = disk[q].children[b]
      BY <3>1 DEF Range
    <3>3. q \in T /\ lev[q] = height - 1 - (j - 1)
      BY <2>2
    <3>4. lev[q] # 0
      BY <3>1, <3>3 DEF Kinds
    <3>5. p \in T /\ lev[p] = lev[q] - 1
      BY <3>2, <3>3, <3>4 DEF Leads
    <3> QED
      BY <3>3, <3>5, <1>1, <1>3
  <2>4. Fine(j)
    BY <2>3
  <2> HIDE DEF Fine
  <2> QED
    BY <2>4
<1>7. Good \subseteq 0..i
  OBVIOUS
<1> HIDE DEF Good
<1>8. i \in Good
  BY <1>3, <1>5, <1>6, <1>7, Kept0
<1>9. Fine(i)
  BY <1>8 DEF Good
<1> QED
  BY <1>3, <1>9

\* ... and when no split is under way all pages of that level are there.
LEMMA DepthComplete ==
  ASSUME TypedPages(disk), NEW n \in Nat, n <= LastIndexPage + 1,
         NEW T, NEW lo, NEW hi, NEW lev,
         TreeOK(disk, root, height, n, T, lo, hi, lev),
         NEW i \in 0..(height - 1), NEW x \in T, lev[x] = height - 1 - i
  PROVE  x \in Depth[i]
<1>1. root \in T /\ lev[root] = height - 1 /\ height \in Nat /\ height # 0 /\ height < n
  BY DEF TreeOK, Rooted
<1>2. \A p \in T : p \in PageIds /\ lev[p] \in Nat /\ lev[p] < height
  BY BTreeAssumption DEF TreeOK, Spans, PageIds
<1>3. /\ LastIndexPage \in Nat /\ i \in Nat /\ height - 1 <= LastIndexPage
      /\ \A j \in 1..i : j \in 1..LastIndexPage
  BY <1>1, BTreeAssumption
<1>4. /\ Depth[0] = {root}
      /\ \A j \in 1..LastIndexPage : Depth[j] = ChildrenOf(Depth[j - 1])
  BY <1>1, <1>2, DepthOK
<1>5. \A p, q \in T : HasChild(disk, lev, q, p) =>
        lev[p] = lev[q] - 1 /\ disk[q].kind = "internal" /\ p \in Range(disk[q].children)
  <2> SUFFICES ASSUME NEW p \in T, NEW q \in T, HasChild(disk, lev, q, p)
               PROVE  lev[p] = lev[q] - 1 /\ disk[q].kind = "internal" /\ p \in Range(disk[q].children)
    OBVIOUS
  <2>1. PICK b \in DOMAIN disk[q].children : disk[q].children[b] = p
    BY DEF HasChild
  <2>2. lev[q] # 0
    BY DEF HasChild
  <2>3. lev[p] = lev[q] - 1 /\ disk[q].kind = "internal"
    BY <2>1, <2>2 DEF TreeOK, AllKids, Kids, Kinds
  <2> QED
    BY <2>1, <2>3 DEF Range
<1>6. \A p \in T : p # root => \E q \in T : HasChild(disk, lev, q, p)
  BY Zenon DEF TreeOK, Parented
<1> DEFINE Fine(j) == \A p \in T : lev[p] = height - 1 - j => p \in Depth[j]
           Good == {j \in 0..i : Fine(j)}
<1>7. 0 \in Good
  <2>1. ASSUME NEW p \in T, lev[p] = height - 1 - 0 PROVE p \in Depth[0]
    <3>1. p = root
      <4> SUFFICES ASSUME p # root PROVE FALSE
        OBVIOUS
      <4>1. PICK q \in T : HasChild(disk, lev, q, p)
        BY <1>6
      <4>2. lev[p] = lev[q] - 1
        BY <4>1, <1>5
      <4> QED
        BY <4>2, <2>1, <1>1, <1>2
    <3> QED
      BY <3>1, <1>4
  <2> QED
    BY <2>1, <1>3
<1>8. ASSUME NEW j \in 1..i, j - 1 \in Good PROVE j \in Good
  <2>1. Depth[j] = ChildrenOf(Depth[j - 1])
    BY <1>3, <1>4
  <2>2. \A p \in T : lev[p] = height - 1 - (j - 1) => p \in Depth[j - 1]
    BY <1>8
  <2>3. ASSUME NEW p \in T, lev[p] = height - 1 - j PROVE p \in Depth[j]
    <3>1. p # root
      BY <2>3, <1>1, <1>3
    <3>2. PICK q \in T : HasChild(disk, lev, q, p)
      BY <3>1, <1>6
    <3>3. lev[p] = lev[q] - 1 /\ disk[q].kind = "internal" /\ p \in Range(disk[q].children)
      BY <3>2, <1>5
    <3>4. q \in Depth[j - 1]
      BY <3>3, <2>2, <2>3, <1>1, <1>2, <1>3
    <3> QED
      BY <3>3, <3>4, <2>1 DEF ChildrenOf
  <2>4. Fine(j)
    BY <2>3
  <2> HIDE DEF Fine
  <2> QED
    BY <2>4
<1>9. Good \subseteq 0..i
  OBVIOUS
<1> HIDE DEF Good
<1>10. i \in Good
  BY <1>3, <1>7, <1>8, <1>9, Kept0
<1>11. Fine(i)
  BY <1>10 DEF Good
<1> QED
  BY <1>11

\* Pages but the root are at least half full.
HalfOK(d, r, T, lev) ==
  \A p \in T : p # r => Size(d[p]) >= IF lev[p] = 0 THEN Cap \div 2 ELSE (Cap - 1) \div 2

LEMMA HalfFullOK ==
  ASSUME TypedPages(disk), NEW n \in Nat, n <= LastIndexPage + 1,
         NEW T, NEW lo, NEW hi, NEW lev,
         Rooted(root, n, height, T, lo, hi, lev), Spans(n, height, T, lo, hi, lev),
         Kinds(disk, T, lev), Leads(disk, T, lev), HalfOK(disk, root, T, lev)
  PROVE  \A i \in 1..(height - 1) : \A p \in Depth[i] :
           Size(disk[p]) >= IF IsLeaf(p) THEN Cap \div 2 ELSE (Cap - 1) \div 2
<1> SUFFICES ASSUME NEW i \in 1..(height - 1), NEW p \in Depth[i]
             PROVE  Size(disk[p]) >= IF IsLeaf(p) THEN Cap \div 2 ELSE (Cap - 1) \div 2
  OBVIOUS
<1>1. height \in Nat /\ lev[root] = height - 1
  BY DEF Rooted
<1>2. i \in 0..(height - 1) /\ i \in Nat
  BY <1>1
<1>3. p \in T /\ lev[p] = height - 1 - i
  BY <1>2, DepthSound
<1>4. p # root
  BY <1>1, <1>2, <1>3
<1>5. IsLeaf(p) <=> lev[p] = 0
  BY <1>3 DEF Kinds, IsLeaf
<1> QED
  BY <1>3, <1>4, <1>5 DEF HalfOK

LEMMA LevelAndChainedOK ==
  ASSUME TypedPages(disk), NEW n \in Nat, n <= LastIndexPage + 1,
         NEW T, NEW lo, NEW hi, NEW lev, NEW C, NEW rk,
         TreeOK(disk, root, height, n, T, lo, hi, lev),
         ChainOK(disk, n, T, lo, hi, lev, C, rk), C \subseteq T
  PROVE  LET leaves == Depth[height - 1]
         IN /\ \A i \in 0..(height - 2) : \A p \in Depth[i] : ~IsLeaf(p)
            /\ \A p \in leaves : IsLeaf(p) /\ disk[p].next \in leaves \cup {0}
            /\ Cardinality({p \in leaves : disk[p].next = 0}) = 1
            /\ \A p \in leaves : disk[p].next # 0 =>
                 \A a \in KeysOf(p), b \in KeysOf(disk[p].next) : a < b
<1>1. /\ Rooted(root, n, height, T, lo, hi, lev) /\ Spans(n, height, T, lo, hi, lev)
      /\ Kinds(disk, T, lev) /\ AllKids(disk, T, lo, hi, lev) /\ Cover(T, lo, hi, lev)
      /\ Fits(disk, T, lo, hi, lev)
  BY DEF TreeOK
<1>2. height \in Nat /\ height # 0 /\ lev[root] = height - 1
  BY <1>1 DEF Rooted
<1>3. Leads(disk, T, lev)
  BY <1>1 DEF Leads, AllKids, Kids
<1>4. ASSUME NEW i \in 0..(height - 1), NEW p \in Depth[i]
      PROVE  p \in T /\ lev[p] = height - 1 - i
  BY <1>1, <1>3, DepthSound
<1> DEFINE leaves == Depth[height - 1]
<1>5. leaves = C
  <2>1. height - 1 \in 0..(height - 1) /\ height - 1 - (height - 1) = 0
    BY <1>2
  <2>2. \A p \in leaves : p \in T /\ lev[p] = 0
    BY <2>1, <1>4
  <2>3. \A p \in T : lev[p] = 0 => p \in leaves
    BY <2>1, DepthComplete
  <2>4. \A p \in T : lev[p] = 0 <=> p \in C
    BY DEF ChainOK, ChainPages
  <2> HIDE DEF leaves
  <2> QED
    BY <2>2, <2>3, <2>4
<1> HIDE DEF leaves
<1>6. \A i \in 0..(height - 2) : \A p \in Depth[i] : ~IsLeaf(p)
  <2> SUFFICES ASSUME NEW i \in 0..(height - 2), NEW p \in Depth[i] PROVE ~IsLeaf(p)
    OBVIOUS
  <2>1. i \in 0..(height - 1) /\ i \in Nat
    BY <1>2
  <2>2. p \in T /\ lev[p] # 0
    BY <2>1, <1>2, <1>4
  <2> QED
    BY <2>2, <1>1 DEF Kinds, IsLeaf
<1>7. \A q \in C : /\ IsLeaf(q) /\ rk[q] \in Nat /\ q # 0
                   /\ lo[q] \in Nat /\ hi[q] \in Nat /\ lev[q] = 0
                   /\ DOMAIN disk[q].entries \subseteq Nat
  <2> SUFFICES ASSUME NEW q \in C
               PROVE  /\ IsLeaf(q) /\ rk[q] \in Nat /\ q # 0
                      /\ lo[q] \in Nat /\ hi[q] \in Nat /\ lev[q] = 0
                      /\ DOMAIN disk[q].entries \subseteq Nat
    OBVIOUS
  <2>1. /\ IsLeaf(q) /\ rk[q] \in Nat /\ q # 0
        /\ lo[q] \in Nat /\ hi[q] \in Nat /\ lev[q] = 0 /\ q \in T
    BY DEF ChainOK, ChainPages, IsLeaf
  <2> QED
    BY <2>1, <1>1, LeafPage
<1>8. \A q \in C : \/ disk[q].next = 0 /\ \A q2 \in C : rk[q] <= rk[q2]
                   \/ /\ disk[q].next \in C /\ rk[disk[q].next] < rk[q]
                      /\ \A q2 \in C : rk[q2] < rk[q] => rk[q2] <= rk[disk[q].next]
  BY DEF ChainOK, ChainLinks
<1>9. \A q, q2 \in C : /\ rk[q] = rk[q2] => q = q2
                       /\ rk[q2] < rk[q] => hi[q] <= lo[q2]
  BY DEF ChainOK, ChainOrder
<1>10. \A p \in leaves : IsLeaf(p) /\ disk[p].next \in leaves \cup {0}
  BY <1>5, <1>7, <1>8
<1>11. Cardinality({p \in leaves : disk[p].next = 0}) = 1
  <2>1. C # {}
    <3>1. 0 \in Keys
      BY BTreeAssumption DEF Keys
    <3>2. PICK q \in T : lev[q] = 0
      BY <3>1, <1>1 DEF Cover
    <3> QED
      BY <3>2 DEF ChainOK, ChainPages
  <2> DEFINE R == {rk[q] : q \in C}
  <2>2. R \subseteq Nat /\ R # {}
    BY <2>1, <1>7
  <2>3. PICK x \in R : \A y \in R : x <= y
    BY <2>2, LeastExists
  <2>4. PICK z \in C : x = rk[z]
    BY <2>3
  <2>5. \A q \in C : rk[z] <= rk[q]
    BY <2>3, <2>4
  <2>6. disk[z].next = 0
    <3> SUFFICES ASSUME disk[z].next \in C, rk[disk[z].next] < rk[z] PROVE FALSE
      BY <1>8
    <3> QED
      BY <2>5, <1>7
  <2>7. \A q \in C : disk[q].next = 0 => q = z
    <3> SUFFICES ASSUME NEW q \in C, disk[q].next = 0 PROVE q = z
      OBVIOUS
    <3>1. rk[q] <= rk[z] /\ rk[z] <= rk[q]
      BY <2>5, <1>7, <1>8
    <3> QED
      BY <3>1, <1>7, <1>9
  <2>8. {p \in leaves : disk[p].next = 0} = {z}
    BY <2>6, <2>7, <1>5
  <2> QED
    BY <2>8, FS_Singleton
<1>12. ASSUME NEW p \in leaves, disk[p].next # 0,
              NEW a \in KeysOf(p), NEW b \in KeysOf(disk[p].next)
       PROVE  a < b
  <2> DEFINE q == disk[p].next
  <2>1. p \in C /\ q \in C /\ rk[q] < rk[p]
    BY <1>5, <1>8, <1>12
  <2>2. hi[p] <= lo[q]
    BY <2>1, <1>9
  <2> HIDE DEF q
  <2>3. a \in DOMAIN disk[p].entries /\ b \in DOMAIN disk[q].entries
    BY <1>12 DEF KeysOf, q
  <2>4. p \in T /\ q \in T /\ lev[p] = 0 /\ lev[q] = 0
    BY <2>1, <1>7
  <2>5. a < hi[p] /\ lo[q] <= b
    BY <2>3, <2>4, <1>1 DEF Fits
  <2> QED
    BY <2>1, <2>2, <2>3, <2>5, <1>7
<1> QED
  BY <1>6, <1>10, <1>11, <1>12 DEF leaves

-----------------------------------------------------------------------------
(* What the disk has between two inserts *)

\* No internal page and no header hd names a page that was not written.
NoneDangles(d, hd) ==
  /\ hd.root = 0 \/ d[hd.root] # Unwritten
  /\ \A p \in PageIds : d[p].kind = "internal" =>
       \A b \in DOMAIN d[p].children : d[d[p].children[b]] # Unwritten

\* The root in the header is a page at the left edge of the tree.
HeaderOK(hd, T, lo, lev) ==
  hd.root # 0 => hd.root \in T /\ lo[hd.root] = 0 /\ lev[hd.root] = hd.height - 1

ChainSound(d, n, ev, con, T, lo, hi, lev, C, rk) ==
  "torn" \notin ev =>
    /\ ChainOK(d, n, T, lo, hi, lev, C, rk)
    /\ "undeleted" \notin ev => ContentOK(d, T, lo, hi, lev, C, rk, con)
    /\ ev \cap CrashDamage = {} => C \subseteq T

HalfSound(d, r, ev, T, lev) ==
  ev \cap (CrashDamage \cup {"deleted"}) = {} => HalfOK(d, r, T, lev)

\* With header hd, after the events ev, disk d has a tree with the content con.
Sound(d, r, h, hd, n, ev, con, T, lo, hi, lev, C, rk) ==
  /\ TypedPages(d)
  /\ NoneDangles(d, hd)
  /\ TreeOK(d, r, h, n, T, lo, hi, lev)
  /\ HeaderOK(hd, T, lo, lev)
  /\ HalfSound(d, r, ev, T, lev)
  /\ ChainSound(d, n, ev, con, T, lo, hi, lev, C, rk)

\* Page at of the tree has room and is responsible for the key.
Reached(d, T, lo, hi, at, key) ==
  at # 0 => at \in T /\ lo[at] <= key /\ key < hi[at] /\ ~Full(d[at])

Stands(d, r, h, hd, n, ev, con, at, key) ==
  \E T, lo, hi, lev, C, rk :
    /\ Sound(d, r, h, hd, n, ev, con, T, lo, hi, lev, C, rk)
    /\ Reached(d, T, lo, hi, at, key)

LEMMA ItStands ==
  ASSUME NEW d, NEW r, NEW h, NEW hd, NEW n, NEW ev, NEW con, NEW at, NEW key,
         NEW T, NEW lo, NEW hi, NEW lev, NEW C, NEW rk,
         Sound(d, r, h, hd, n, ev, con, T, lo, hi, lev, C, rk),
         Reached(d, T, lo, hi, at, key)
  PROVE  Stands(d, r, h, hd, n, ev, con, at, key)
BY Zenon DEF Stands

\* More pages handed out change nothing.
LEMMA SoundGrows ==
  ASSUME NEW d, NEW r, NEW h, NEW hd, NEW n \in Nat, NEW n2 \in Nat, NEW ev, NEW con,
         NEW T, NEW lo, NEW hi, NEW lev, NEW C, NEW rk, n <= n2,
         Sound(d, r, h, hd, n, ev, con, T, lo, hi, lev, C, rk)
  PROVE  Sound(d, r, h, hd, n2, ev, con, T, lo, hi, lev, C, rk)
<1>1. TreeOK(d, r, h, n2, T, lo, hi, lev)
  BY TreeGrows, ZenonT(60) DEF Sound
<1>2. ASSUME "torn" \notin ev
      PROVE  ChainOK(d, n2, T, lo, hi, lev, C, rk)
  <2>1. ChainOK(d, n, T, lo, hi, lev, C, rk)
    BY <1>2 DEF Sound, ChainSound
  <2>2. ChainPages(d, n2, T, lo, hi, lev, C, rk)
    BY <2>1, SMTT(60) DEF ChainOK, ChainPages
  <2> QED
    BY <2>1, <2>2 DEF ChainOK
<1> QED
  BY <1>1, <1>2 DEF Sound, ChainSound

\* The chain after a page of the tree has been split.
HalvesOn(d, d2, n, p, s) ==
  /\ d2[p] = Halves(d[p], s).low /\ d2[s] = Halves(d[p], s).high
  /\ \A x \in 1..(n - 1) : d[x].kind = "leaf" /\ x # p => d2[x] = d[x]
SpansSplit(T, T2, C, lo, hi, lev, lo2, hi2, lev2, n, p, s, sep) ==
  /\ T \subseteq T2 /\ s \in T2
  /\ \A x \in T2 : x \in T \/ x = s \/ (lev2[x] # 0 /\ n <= x)
  /\ \A x \in T \cup C : x # s => lo2[x] = lo[x] /\ (x # p => hi2[x] = hi[x])
  /\ \A x \in T : lev2[x] = lev[x]
  /\ lev2[s] = lev[p] /\ lo2[s] = sep /\ hi2[p] = sep /\ hi2[s] = hi[p]
SomeChain(d, n, ev, con, T, lo, hi, lev) ==
  \E C, rk : ChainSound(d, n, ev, con, T, lo, hi, lev, C, rk)

LEMMA SplitChainSound ==
  ASSUME NEW d, NEW d2, NEW r, NEW h, NEW n \in Nat, NEW n2 \in Nat, NEW ev, NEW con,
         NEW T, NEW lo, NEW hi, NEW lev, NEW C, NEW rk,
         NEW T2, NEW lo2, NEW hi2, NEW lev2, NEW p \in T, NEW s \in PageIds,
         n <= LastIndexPage + 1, n <= s, s < n2,
         TypedPages(d), TreeOK(d, r, h, n, T, lo, hi, lev),
         ChainSound(d, n, ev, con, T, lo, hi, lev, C, rk),
         Full(d[p]), HalvesOn(d, d2, n, p, s),
         SpansSplit(T, T2, C, lo, hi, lev, lo2, hi2, lev2, n, p, s, Halves(d[p], s).separator)
  PROVE  SomeChain(d2, n2, ev, con, T2, lo2, hi2, lev2)
<1> DEFINE sep == Halves(d[p], s).separator
<1>0. /\ d2[p] = Halves(d[p], s).low /\ d2[s] = Halves(d[p], s).high
      /\ \A x \in 1..(n - 1) : d[x].kind = "leaf" /\ x # p => d2[x] = d[x]
      /\ T \subseteq T2 /\ s \in T2
      /\ \A x \in T2 : x \in T \/ x = s \/ (lev2[x] # 0 /\ n <= x)
      /\ \A x \in T \cup C : x # s => lo2[x] = lo[x] /\ (x # p => hi2[x] = hi[x])
      /\ \A x \in T : lev2[x] = lev[x]
      /\ lev2[s] = lev[p] /\ lo2[s] = sep /\ hi2[p] = sep /\ hi2[s] = hi[p]
  BY DEF HalvesOn, SpansSplit
<1>1. CASE "torn" \in ev
  BY <1>1 DEF ChainSound, SomeChain
<1>2. CASE "torn" \notin ev
  <2>1. /\ ChainOK(d, n, T, lo, hi, lev, C, rk)
        /\ "undeleted" \notin ev => ContentOK(d, T, lo, hi, lev, C, rk, con)
        /\ ev \cap CrashDamage = {} => C \subseteq T
    BY <1>2 DEF ChainSound
  <2>2. /\ C \subseteq 1..(n - 1)
        /\ \A x \in T : lev[x] = 0 <=> x \in C
        /\ \A x \in C : d[x].kind = "leaf" /\ rk[x] \in Nat
    BY <2>1 DEF ChainOK, ChainPages
  <2>3. /\ Spans(n, h, T, lo, hi, lev) /\ Kinds(d, T, lev)
        /\ AllKids(d, T, lo, hi, lev) /\ Fits(d, T, lo, hi, lev)
    BY DEF TreeOK
  <2>4. /\ T \subseteq 1..(n - 1) /\ s \notin T /\ s \notin C /\ s \in Nat /\ s > 0 /\ s # p
        /\ \A x \in T2 : x \in C => x \in T
    BY <1>0, <2>2, <2>3 DEF Spans, PageIds
  <2>5. /\ sep \in Nat /\ lo[p] < sep /\ sep < hi[p]
        /\ SplitInto(d[p], d2[p], d2[s], sep)
    BY <1>0, <2>3, SeparatorInside
  <2>6. \A x \in C : x # p => d2[x] = d[x]
    BY <1>0, <2>2
  <2>7. \A x \in C : lo2[x] = lo[x] /\ (x # p => hi2[x] = hi[x])
    BY <1>0, <2>4
  <2>8. \A x \in C : x \in PageIds /\ DOMAIN d[x].entries \subseteq Nat
    <3> SUFFICES ASSUME NEW x \in C PROVE x \in PageIds /\ DOMAIN d[x].entries \subseteq Nat
      OBVIOUS
    <3>1. x \in PageIds
      BY <2>2, BTreeAssumption DEF PageIds
    <3>2. DOMAIN d[x].entries \subseteq Keys
      BY <3>1, <2>2, LeafShape DEF TypedPages
    <3> QED
      BY <3>1, <3>2, TopType
  <2>9. CASE lev[p] # 0
    <3>1. \A x \in C : d2[x] = d[x] /\ lo2[x] = lo[x] /\ hi2[x] = hi[x]
      BY <2>2, <2>6, <2>7, <2>9
    <3>2. \A x \in T2 : lev2[x] = 0 <=> x \in C
      BY <1>0, <2>2, <2>4, <2>9
    <3>3. \A x \in C : x \in T <=> x \in T2
      BY <1>0, <2>4
    <3>4. n <= n2
      BY <2>4
    <3>5. /\ ChainOK(d2, n2, T2, lo2, hi2, lev2, C, rk)
          /\ \A c : ContentOK(d, T, lo, hi, lev, C, rk, c)
                      => ContentOK(d2, T2, lo2, hi2, lev2, C, rk, c)
      BY <2>1, <3>1, <3>2, <3>3, <3>4, ChainSameOK, ZenonT(60)
    <3>6. ChainSound(d2, n2, ev, con, T2, lo2, hi2, lev2, C, rk)
      BY <1>0, <2>1, <3>5 DEF ChainSound
    <3> QED
      BY <3>6 DEF SomeChain
  <2>10. CASE lev[p] = 0
    <3> DEFINE C2 == C \cup {s}
               rk2 == [x \in C2 |-> IF x = s THEN rk[p]
                                    ELSE IF rk[p] <= rk[x] THEN rk[x] + 1 ELSE rk[x]]
    <3>1. p \in C /\ d[p].kind = "leaf"
      BY <2>2, <2>10
    <3>2. /\ \A x \in C : rk2[x] = IF rk[p] <= rk[x] THEN rk[x] + 1 ELSE rk[x]
          /\ rk2[s] = rk[p]
      BY <2>4
    <3>3. p \in PageIds /\ IsPage(d[p])
      BY <2>8, <3>1 DEF TypedPages
    <3>4. /\ d2[p].kind = "leaf" /\ d2[s].kind = "leaf"
          /\ DOMAIN d2[p].entries = {k \in DOMAIN d[p].entries : k < sep}
          /\ DOMAIN d2[s].entries = {k \in DOMAIN d[p].entries : sep <= k}
          /\ \A k \in DOMAIN d2[p].entries : d2[p].entries[k] = d[p].entries[k]
          /\ \A k \in DOMAIN d2[s].entries : d2[s].entries[k] = d[p].entries[k]
          /\ d2[p].next = s /\ d2[s].next = d[p].next
      BY <1>0, <3>1, <3>3, LeafHalvesFacts
    <3>5. lo[p] \in Nat /\ hi[p] \in Nat
      BY <2>3 DEF Spans
    <3> HIDE DEF C2, rk2, sep
    <3>6. ChainSplit(d, d2, T2, lo, hi, lo2, hi2, C, rk, rk2, p, s, sep, sep)
      BY <1>0, <2>4, <2>5, <2>6, <2>7, <3>1, <3>2, <3>4, <3>5, SMTT(60) DEF ChainSplit, sep
    <3>7. \A x \in T2 : lev2[x] = 0 <=> x \in C \cup {s}
      BY <1>0, <2>2, <2>4, <2>10
    <3>8. /\ \A x \in C : x \in T => x \in T2
          /\ \A x \in C : x \in T2 => x \in T
      BY <1>0, <2>4
    <3>9. \A x \in C : DOMAIN d[x].entries \subseteq Nat
      BY <2>8
    <3>10. ChainOK(d2, n2, T2, lo2, hi2, lev2, C \cup {s}, rk2)
      BY <1>0, <2>1, <2>4, <3>6, <3>7, <3>8, <3>9, ChainSplitOK, ZenonT(60)
    <3>11. "undeleted" \notin ev => ContentOK(d2, T2, lo2, hi2, lev2, C \cup {s}, rk2, con)
      BY <2>1, <3>6, <3>7, <3>8, SplitContent, ZenonT(60)
    <3>12. ChainSound(d2, n2, ev, con, T2, lo2, hi2, lev2, C \cup {s}, rk2)
      BY <1>0, <2>1, <3>10, <3>11 DEF ChainSound
    <3> QED
      BY <3>12 DEF SomeChain
  <2> QED
    BY <2>9, <2>10
<1> QED
  BY <1>1, <1>2

-----------------------------------------------------------------------------
(* What crashes leave *)

\* A tree is what it is by the spans of its own pages.
LEMMA TreeSame ==
  ASSUME NEW d, NEW T, NEW lo, NEW hi, NEW lev, NEW lo2, NEW hi2, NEW n, NEW h, NEW r,
         TreeOK(d, r, h, n, T, lo, hi, lev),
         \A q \in T : lo2[q] = lo[q] /\ hi2[q] = hi[q]
  PROVE  TreeOK(d, r, h, n, T, lo2, hi2, lev)
<1>1. Rooted(r, n, h, T, lo2, hi2, lev) /\ Spans(n, h, T, lo2, hi2, lev)
  BY DEF TreeOK, Rooted, Spans
<1>2. AllKids(d, T, lo2, hi2, lev)
  <2> SUFFICES ASSUME NEW p \in T, lev[p] # 0 PROVE Kids(d, T, lo2, hi2, lev, p)
    BY DEF AllKids
  <2>1. Kids(d, T, lo, hi, lev, p)
    BY DEF TreeOK, AllKids
  <2> QED
    BY <2>1 DEF Kids
<1>3. Nested(T, lo2, hi2, lev)
  BY DEF TreeOK, Nested
<1>4. Cover(T, lo2, hi2, lev) /\ Fits(d, T, lo2, hi2, lev)
  BY DEF TreeOK, Cover, Fits
<1> QED
  BY <1>1, <1>2, <1>3, <1>4 DEF TreeOK

LEMMA WrittenKinds ==
  ASSUME NEW page, IsPage(page), page.kind = "leaf" \/ page.kind = "internal"
  PROVE  page # Unwritten
BY PageKinds DEF Unwritten

StillWritten(d, d2) == \A x \in PageIds : d[x] # Unwritten => d2[x] # Unwritten
KnownChildren(d, d2) ==
  \A x \in PageIds : d2[x].kind = "internal" =>
    \A b \in DOMAIN d2[x].children :
      \/ d2[d2[x].children[b]] # Unwritten
      \/ \E y \in PageIds : /\ d[y].kind = "internal"
                            /\ \E a \in DOMAIN d[y].children :
                                 d[y].children[a] = d2[x].children[b]

LEMMA NoneDanglesKept ==
  ASSUME NEW d, NEW d2, NEW hd, TypedPages(d), TypedPages(d2), NoneDangles(d, hd),
         hd.root \in 0..LastIndexPage,
         StillWritten(d, d2), KnownChildren(d, d2)
  PROVE  NoneDangles(d2, hd)
<1>1. hd.root = 0 \/ d2[hd.root] # Unwritten
  <2>1. hd.root = 0 \/ hd.root \in PageIds
    BY BTreeAssumption DEF PageIds
  <2> QED
    BY <2>1 DEF NoneDangles, StillWritten
<1>2. ASSUME NEW x \in PageIds, d2[x].kind = "internal", NEW b \in DOMAIN d2[x].children
      PROVE  d2[d2[x].children[b]] # Unwritten
  <2> SUFFICES ASSUME NEW y \in PageIds, d[y].kind = "internal",
                      NEW a \in DOMAIN d[y].children, d[y].children[a] = d2[x].children[b]
               PROVE  d2[d2[x].children[b]] # Unwritten
    BY <1>2 DEF KnownChildren
  <2>1. d[d[y].children[a]] # Unwritten
    BY DEF NoneDangles
  <2>2. d[y].children[a] \in PageIds
    <3>1. IsPage(d[y])
      BY DEF TypedPages
    <3>2. d[y].children \in [DOMAIN d[y].children -> PageIds]
      BY <3>1, InternalShape
    <3> QED
      BY <3>2
  <2> QED
    BY <2>1, <2>2 DEF StillWritten
<1> QED
  BY <1>1, <1>2 DEF NoneDangles

FirstWrite(d, d1, p, s) == d1 = [d EXCEPT ![p] = Halves(d[p], s).low]
SecondWrite(d, d1, d2, p, s) == d2 = [d1 EXCEPT ![s] = Halves(d[p], s).high]

Halved(d, d1, d2, hd, p, s) ==
  /\ p \in PageIds /\ p < s
  /\ d1[p] = Halves(d[p], s).low /\ \A x \in PageIds : x # p => d1[x] = d[x]
  /\ d2[p] = Halves(d[p], s).low /\ d2[s] = Halves(d[p], s).high
  /\ \A x \in PageIds : x # p /\ x # s => d2[x] = d[x]
  /\ TypedPages(d1) /\ NoneDangles(d1, hd)
  /\ TypedPages(d2) /\ NoneDangles(d2, hd)
  /\ d2[p] # Unwritten /\ d2[s] # Unwritten

\* The pages when one or two of the writes of a split have been made.
LEMMA HalvesWritten ==
  ASSUME NEW d, NEW hd, NEW T, NEW lo, NEW hi, NEW lev, NEW n \in Nat, NEW r, NEW h,
         NEW p \in T, NEW s \in PageIds, n <= LastIndexPage + 1, n <= s,
         TypedPages(d), NoneDangles(d, hd), hd.root \in 0..LastIndexPage,
         TreeOK(d, r, h, n, T, lo, hi, lev), Full(d[p]),
         NEW d1, FirstWrite(d, d1, p, s), NEW d2, SecondWrite(d, d1, d2, p, s)
  PROVE  Halved(d, d1, d2, hd, p, s)
<1> DEFINE H == Halves(d[p], s)
<1>1. /\ Spans(n, h, T, lo, hi, lev) /\ Kinds(d, T, lev)
      /\ AllKids(d, T, lo, hi, lev) /\ Fits(d, T, lo, hi, lev)
  BY DEF TreeOK
<1>2. p \in PageIds /\ p < s /\ IsPage(d[p])
  BY <1>1, BTreeAssumption DEF Spans, PageIds, TypedPages
<1>3. IsPage(H.low) /\ IsPage(H.high) /\ SplitInto(d[p], H.low, H.high, H.separator)
  BY <1>1, SeparatorInside
<1>4. H.low # Unwritten /\ H.high # Unwritten
  BY <1>3, WrittenKinds DEF SplitInto
<1>5. /\ d1[p] = H.low /\ \A x \in PageIds : x # p => d1[x] = d[x]
      /\ d2[p] = H.low /\ d2[s] = H.high
      /\ \A x \in PageIds : x # p /\ x # s => d2[x] = d[x]
  BY <1>2 DEF TypedPages, PageIds, FirstWrite, SecondWrite
<1>6. TypedPages(d1) /\ TypedPages(d2)
  BY <1>3, <1>5 DEF TypedPages, FirstWrite, SecondWrite
<1>7. StillWritten(d, d1) /\ StillWritten(d, d2)
  BY <1>4, <1>5 DEF StillWritten
<1>8. H.low.kind = "internal" =>
        /\ d[p].kind = "internal"
        /\ \A b \in DOMAIN H.low.children :
             b \in DOMAIN d[p].children /\ d[p].children[b] = H.low.children[b]
  BY <1>3 DEF SplitInto
<1>9. H.high.kind = "internal" =>
        /\ d[p].kind = "internal"
        /\ \A b \in DOMAIN H.high.children :
             \E a \in DOMAIN d[p].children : d[p].children[a] = H.high.children[b]
  BY <1>3 DEF SplitInto
<1> HIDE DEF H
<1>10. NoneDangles(d1, hd)
  <2>1. ASSUME NEW x \in PageIds, d1[x].kind = "internal", NEW b \in DOMAIN d1[x].children
        PROVE  \E y \in PageIds : /\ d[y].kind = "internal"
                                  /\ \E a \in DOMAIN d[y].children :
                                       d[y].children[a] = d1[x].children[b]
    <3>1. CASE x = p
      BY <3>1, <2>1, <1>2, <1>5, <1>8
    <3>2. CASE x # p
      BY <3>2, <2>1, <1>5
    <3> QED
      BY <3>1, <3>2
  <2>2. KnownChildren(d, d1)
    BY <2>1 DEF KnownChildren
  <2> QED
    BY <2>2, <1>6, <1>7, NoneDanglesKept, Zenon
<1>11. NoneDangles(d2, hd)
  <2>1. ASSUME NEW x \in PageIds, d2[x].kind = "internal", NEW b \in DOMAIN d2[x].children
        PROVE  \E y \in PageIds : /\ d[y].kind = "internal"
                                  /\ \E a \in DOMAIN d[y].children :
                                       d[y].children[a] = d2[x].children[b]
    <3>1. CASE x = p
      BY <3>1, <2>1, <1>2, <1>5, <1>8
    <3>2. CASE x = s
      BY <3>2, <2>1, <1>2, <1>5, <1>9
    <3>3. CASE x # p /\ x # s
      BY <3>3, <2>1, <1>5
    <3> QED
      BY <3>1, <3>2, <3>3
  <2>2. KnownChildren(d, d2)
    BY <2>1 DEF KnownChildren
  <2> QED
    BY <2>2, <1>6, <1>7, NoneDanglesKept, Zenon
<1> QED
  BY <1>2, <1>4, <1>5, <1>6, <1>10, <1>11 DEF H, Halved

\* The leaves in [a, b) are left to the chain.
SameLeaves(d, d2, n) == \A x \in 1..(n - 1) : d[x].kind = "leaf" => d2[x] = d[x]
LeavesCut(T, T2, lo, hi, lev, hi2, a, b) ==
  /\ a \in Nat /\ b \in Nat /\ a <= b /\ b <= Top
  /\ \A q \in T2 : lev[q] = 0 => /\ hi[q] <= a \/ b <= lo[q]
                                 /\ hi2[q] = IF hi[q] = a THEN b ELSE hi[q]
  /\ \A q \in T : lev[q] = 0 /\ q \notin T2 => a <= lo[q] /\ hi[q] <= b
StillSound(d2, r2, h2, n, ev, con, T2, lo, lev, C, rk) ==
  \E lo3, hi3 :
    /\ \A q \in T2 : lo3[q] = lo[q]
    /\ TreeOK(d2, r2, h2, n, T2, lo3, hi3, lev)
    /\ ChainSound(d2, n, ev, con, T2, lo3, hi3, lev, C, rk)

LEMMA CutSound ==
  ASSUME NEW d, NEW d2, NEW T, NEW T2, NEW lo, NEW hi, NEW lev, NEW hi2, NEW C, NEW rk,
         NEW a, NEW b,
         NEW n \in Nat, n <= LastIndexPage + 1, NEW r, NEW h, NEW r2, NEW h2, NEW ev, NEW con,
         TypedPages(d), TreeOK(d, r, h, n, T, lo, hi, lev), T2 \subseteq T,
         ChainSound(d, n, ev, con, T, lo, hi, lev, C, rk),
         TreeOK(d2, r2, h2, n, T2, lo, hi2, lev),
         SameLeaves(d, d2, n), LeavesCut(T, T2, lo, hi, lev, hi2, a, b)
  PROVE  StillSound(d2, r2, h2, n, ev \cup {"chained"}, con, T2, lo, lev, C, rk)
<1> DEFINE In(q) == a <= lo[q] /\ hi[q] <= b
           lo3 == [q \in T \cup C |-> IF q \in T2 THEN lo[q] ELSE IF In(q) THEN b ELSE lo[q]]
           hi3 == [q \in T \cup C |-> IF q \in T2 THEN hi2[q] ELSE IF In(q) THEN b ELSE hi[q]]
<1>1. \A q \in T2 : lo3[q] = lo[q] /\ hi3[q] = hi2[q]
  OBVIOUS
<1>2. \A q \in C : q \notin T2 => /\ lo3[q] = IF In(q) THEN b ELSE lo[q]
                                  /\ hi3[q] = IF In(q) THEN b ELSE hi[q]
  OBVIOUS
<1> HIDE DEF lo3, hi3
<1>3. TreeOK(d2, r2, h2, n, T2, lo3, hi3, lev)
  BY <1>1, TreeSame, Zenon
<1>4. ASSUME "torn" \notin ev
      PROVE  /\ ChainOK(d2, n, T2, lo3, hi3, lev, C, rk)
             /\ "undeleted" \notin ev => ContentOK(d2, T2, lo3, hi3, lev, C, rk, con)
  <2>1. /\ ChainOK(d, n, T, lo, hi, lev, C, rk)
        /\ "undeleted" \notin ev => ContentOK(d, T, lo, hi, lev, C, rk, con)
    BY <1>4 DEF ChainSound
  <2>2. /\ C \subseteq 1..(n - 1)
        /\ \A x \in T : lev[x] = 0 <=> x \in C
        /\ \A x \in C : d[x].kind = "leaf" /\ (x \notin T => lo[x] = hi[x])
    BY <2>1 DEF ChainOK, ChainPages
  <2>3. \A x \in C : d2[x] = d[x] /\ DOMAIN d[x].entries \subseteq Nat
    <3> SUFFICES ASSUME NEW x \in C PROVE d2[x] = d[x] /\ DOMAIN d[x].entries \subseteq Nat
      OBVIOUS
    <3>1. x \in PageIds /\ d2[x] = d[x]
      BY <2>2, BTreeAssumption DEF PageIds, SameLeaves
    <3>2. DOMAIN d[x].entries \subseteq Keys
      BY <3>1, <2>2, LeafShape DEF TypedPages
    <3> QED
      BY <3>1, <3>2, TopType
  <2>4. ASSUME NEW q \in C, q \in T2
        PROVE  /\ hi[q] <= a \/ b <= lo[q]
               /\ lo3[q] = lo[q]
               /\ hi3[q] = IF hi[q] = a THEN b ELSE hi[q]
    BY <2>2, <2>4, <1>1 DEF LeavesCut
  <2>5. ASSUME NEW q \in C, q \notin T2
        PROVE  \/ a <= lo[q] /\ hi[q] <= b /\ lo3[q] = b /\ hi3[q] = b
               \/ lo[q] = hi[q] /\ ~(a <= lo[q] /\ hi[q] <= b) /\ lo3[q] = lo[q] /\ hi3[q] = hi[q]
    <3>1. CASE In(q)
      BY <3>1, <2>5, <1>2
    <3>2. CASE ~In(q)
      <4>1. lo[q] = hi[q]
        BY <3>2, <2>2, <2>5 DEF LeavesCut
      <4> QED
        BY <4>1, <3>2, <2>5, <1>2
    <3> QED
      BY <3>1, <3>2
  <2>6. CutChain(T2, lo, hi, lo3, hi3, C, a, b)
    BY <2>4, <2>5 DEF CutChain, LeavesCut
  <2>7. Spans(n, h, T, lo, hi, lev) /\ Cover(T, lo, hi, lev)
    BY DEF TreeOK
  <2>8. ChainOK(d2, n, T2, lo3, hi3, lev, C, rk)
    BY <2>1, <2>3, <2>6, <2>7, CutChainOK, ZenonT(60)
  <2>9. "undeleted" \notin ev => ContentOK(d2, T2, lo3, hi3, lev, C, rk, con)
    BY <2>1, <2>3, <2>6, <2>7, CutContent, ZenonT(60)
  <2> QED
    BY <2>8, <2>9
<1>5. ChainSound(d2, n, ev \cup {"chained"}, con, T2, lo3, hi3, lev, C, rk)
  BY <1>4 DEF ChainSound, CrashDamage
<1> QED
  BY <1>1, <1>3, <1>5 DEF StillSound

\* A crash after the first write of a split: the upper half is lost.
LEMMA TornSound ==
  ASSUME NEW d, NEW d2, NEW hd, NEW T, NEW lo, NEW hi, NEW lev, NEW C, NEW rk,
         NEW n \in Nat, NEW r, NEW h, NEW ev, NEW con,
         NEW p \in T, NEW s \in PageIds, n <= LastIndexPage + 1, n <= s,
         hd.root \in 0..LastIndexPage,
         Sound(d, r, h, hd, n, ev, con, T, lo, hi, lev, C, rk), Full(d[p]),
         FirstWrite(d, d2, p, s)
  PROVE  \E T2, hi2 :
           Sound(d2, r, h, hd, n, ev \cup {"torn"}, con, T2, lo, hi2, lev, C, rk)
<1> DEFINE sep == Halves(d[p], s).separator
<1>1. /\ TypedPages(d) /\ NoneDangles(d, hd) /\ TreeOK(d, r, h, n, T, lo, hi, lev)
      /\ HeaderOK(hd, T, lo, lev)
  BY DEF Sound
<1>2. /\ Spans(n, h, T, lo, hi, lev) /\ Kinds(d, T, lev)
      /\ AllKids(d, T, lo, hi, lev) /\ Fits(d, T, lo, hi, lev)
  BY <1>1 DEF TreeOK
<1>3. /\ p \in PageIds /\ d2[p] = Halves(d[p], s).low
      /\ \A x \in PageIds : x # p => d2[x] = d[x]
      /\ TypedPages(d2) /\ NoneDangles(d2, hd)
  <2> DEFINE e == [d2 EXCEPT ![s] = Halves(d[p], s).high]
  <2>1. SecondWrite(d, d2, e, p, s)
    BY DEF SecondWrite
  <2> HIDE DEF e
  <2>2. Halved(d, d2, e, hd, p, s)
    BY <1>1, <2>1, HalvesWritten, Zenon
  <2> QED
    BY <2>2 DEF Halved
<1>4. T \subseteq PageIds
  BY <1>2, BTreeAssumption DEF Spans, PageIds
<1>5. /\ sep \in Nat /\ lo[p] < sep /\ sep < hi[p]
      /\ SplitInto(d[p], d2[p], Halves(d[p], s).high, sep)
  BY <1>1, <1>2, <1>3, SeparatorInside
<1>6. lo[p] \in Nat /\ hi[p] \in Nat /\ lev[p] \in Nat
  BY <1>2 DEF Spans
<1> HIDE DEF sep
<1>7. HalfSound(d2, r, ev \cup {"torn"}, T, lev)
  BY DEF HalfSound, CrashDamage
<1>8. CASE lev[p] = 0
  <2>1. d2[p].kind = "leaf" /\ DOMAIN d2[p].entries \subseteq DOMAIN d[p].entries
    BY <1>2, <1>5, <1>8 DEF Kinds, SplitInto
  <2>2. \A k \in DOMAIN d2[p].entries : lo[p] <= k /\ k < hi[p]
    BY <2>1, <1>2, <1>8 DEF Fits
  <2>3. TreeOK(d2, r, h, n, T, lo, hi, lev)
    BY <1>1, <1>3, <1>4, <1>8, <2>1, <2>2, LeafRewriteOK
  <2>4. Sound(d2, r, h, hd, n, ev \cup {"torn"}, con, T, lo, hi, lev, C, rk)
    BY <1>1, <1>3, <1>7, <2>3 DEF Sound, ChainSound
  <2> QED
    BY <2>4
<1>9. CASE lev[p] # 0
  <2> DEFINE T2 == Kept(T, lo, hi, lev, sep, hi[p], lev[p] - 1)
             hi2 == [q \in T |-> IF lev[q] <= lev[p] - 1 /\ hi[q] = sep THEN hi[p] ELSE hi[q]]
  <2>1. T2 \subseteq T
    BY DEF Kept
  <2>2. \A q \in T2 : hi2[q] = IF lev[q] <= lev[p] - 1 /\ hi[q] = sep THEN hi[p] ELSE hi[q]
    BY <2>1
  <2>3. /\ d2[p].kind = "internal" /\ sep \in DOMAIN d[p].children
        /\ DOMAIN d2[p].children = {x \in DOMAIN d[p].children : x < sep}
        /\ \A x \in DOMAIN d2[p].children : d2[p].children[x] = d[p].children[x]
    BY <1>2, <1>5, <1>9 DEF Kinds, SplitInto
  <2>4. \A q \in T : q # p => d2[q] = d[q]
    BY <1>3, <1>4
  <2> HIDE DEF hi2
  <2>5. TreeOK(d2, r, h, n, T2, lo, hi2, lev)
    BY <1>1, <1>5, <1>9, <2>2, <2>3, <2>4, HalfSplitOK, ZenonT(60)
  <2>6. HeaderOK(hd, T2, lo, lev)
    BY <1>1, <1>5, <1>6 DEF HeaderOK, Kept
  <2>7. HalfSound(d2, r, ev \cup {"torn"}, T2, lev)
    BY DEF HalfSound, CrashDamage
  <2>8. Sound(d2, r, h, hd, n, ev \cup {"torn"}, con, T2, lo, hi2, lev, C, rk)
    BY <1>3, <2>5, <2>6, <2>7 DEF Sound, ChainSound
  <2> QED
    BY <2>8
<1> QED
  BY <1>8, <1>9

\* A crash after the second write of a split: the parent does not know of the
\* upper half.
LEMMA ChainedSound ==
  ASSUME NEW d, NEW d1, NEW d2, NEW hd, NEW T, NEW lo, NEW hi, NEW lev, NEW C, NEW rk,
         NEW n \in Nat, NEW n2 \in Nat, NEW r, NEW h, NEW ev, NEW con,
         NEW p \in T, NEW s \in PageIds, n <= LastIndexPage + 1, n <= s, s < n2,
         hd.root \in 0..LastIndexPage,
         Sound(d, r, h, hd, n, ev, con, T, lo, hi, lev, C, rk), Full(d[p]),
         FirstWrite(d, d1, p, s), SecondWrite(d, d1, d2, p, s)
  PROVE  \E T2, lo2, hi2, C2, rk2 :
           Sound(d2, r, h, hd, n2, ev \cup {"chained"}, con, T2, lo2, hi2, lev, C2, rk2)
<1> DEFINE sep == Halves(d[p], s).separator
           ev2 == ev \cup {"chained"}
<1>1. /\ TypedPages(d) /\ NoneDangles(d, hd) /\ TreeOK(d, r, h, n, T, lo, hi, lev)
      /\ HeaderOK(hd, T, lo, lev) /\ ChainSound(d, n, ev, con, T, lo, hi, lev, C, rk)
  BY DEF Sound
<1>2. /\ Spans(n, h, T, lo, hi, lev) /\ Kinds(d, T, lev)
      /\ AllKids(d, T, lo, hi, lev) /\ Fits(d, T, lo, hi, lev)
  BY <1>1 DEF TreeOK
<1>3. Halved(d, d1, d2, hd, p, s)
  BY <1>1, HalvesWritten, Zenon
<1>4. /\ p \in PageIds /\ p < s /\ d2[p] = Halves(d[p], s).low /\ d2[s] = Halves(d[p], s).high
      /\ \A x \in PageIds : x # p /\ x # s => d2[x] = d[x]
      /\ TypedPages(d2) /\ NoneDangles(d2, hd)
  BY <1>3 DEF Halved
<1>5. /\ T \subseteq 1..(n - 1) /\ 1..(n - 1) \subseteq PageIds
      /\ \A x \in 1..(n - 1) : x # s
      /\ s \in Nat /\ s > 0 /\ n <= n2
  BY <1>2, BTreeAssumption DEF Spans, PageIds
<1>6. /\ sep \in Nat /\ lo[p] < sep /\ sep < hi[p]
      /\ SplitInto(d[p], d2[p], d2[s], sep)
  BY <1>1, <1>2, <1>4, SeparatorInside
<1>7. lo[p] \in Nat /\ hi[p] \in Nat /\ hi[p] <= Top /\ lev[p] \in Nat
  BY <1>2 DEF Spans
<1>8. \A x \in 1..(n - 1) : x # p => d2[x] = d[x]
  BY <1>4, <1>5
<1> HIDE DEF sep
<1>9. \A S : HalfSound(d2, r, ev2, S, lev)
  BY DEF HalfSound, CrashDamage
<1> HIDE DEF ev2
<1>10. CASE lev[p] = 0
  <2> DEFINE lo2 == [x \in T \cup C \cup {s} |-> IF x = s THEN hi[p] ELSE lo[x]]
             hi2 == [x \in T \cup C \cup {s} |-> IF x = s THEN hi[p] ELSE hi[x]]
             C2 == C \cup {s}
             rk2 == [x \in C2 |-> IF x = s THEN rk[p]
                                  ELSE IF rk[p] <= rk[x] THEN rk[x] + 1 ELSE rk[x]]
  <2>1. d2[p].kind = "leaf" /\ DOMAIN d2[p].entries \subseteq DOMAIN d[p].entries
    BY <1>2, <1>6, <1>10 DEF Kinds, SplitInto
  <2>2. \A k \in DOMAIN d2[p].entries : lo[p] <= k /\ k < hi[p]
    BY <2>1, <1>2, <1>10 DEF Fits
  <2>3. \A q \in T : q # p => d2[q] = d[q]
    BY <1>5, <1>8
  <2>4. TreeOK(d2, r, h, n, T, lo, hi, lev)
    BY <1>1, <1>10, <2>1, <2>2, <2>3, LeafRewriteOK
  <2>5. /\ \A x \in T : lo2[x] = lo[x] /\ hi2[x] = hi[x]
        /\ \A x \in C : x # s => lo2[x] = lo[x] /\ hi2[x] = hi[x]
        /\ lo2[s] = hi[p] /\ hi2[s] = hi[p]
    BY <1>5
  <2>6. /\ \A x \in C : x # s => rk2[x] = IF rk[p] <= rk[x] THEN rk[x] + 1 ELSE rk[x]
        /\ rk2[s] = rk[p]
    OBVIOUS
  <2> HIDE DEF lo2, hi2, rk2, C2
  <2>7. TreeOK(d2, r, h, n, T, lo2, hi2, lev)
    BY <2>4, <2>5, TreeSame, Zenon
  <2>8. TreeOK(d2, r, h, n2, T, lo2, hi2, lev)
    BY <2>7, <1>5, TreeGrows, Zenon
  <2>9. HeaderOK(hd, T, lo2, lev)
    BY <1>1, <2>5 DEF HeaderOK
  <2>10. ASSUME "torn" \notin ev
         PROVE  /\ ChainOK(d2, n2, T, lo2, hi2, lev, C2, rk2)
                /\ "undeleted" \notin ev => ContentOK(d2, T, lo2, hi2, lev, C2, rk2, con)
    <3>1. /\ ChainOK(d, n, T, lo, hi, lev, C, rk)
          /\ "undeleted" \notin ev => ContentOK(d, T, lo, hi, lev, C, rk, con)
      BY <1>1, <2>10 DEF ChainSound
    <3>2. /\ C \subseteq 1..(n - 1)
          /\ \A x \in T : lev[x] = 0 <=> x \in C
          /\ \A x \in C : d[x].kind = "leaf"
      BY <3>1 DEF ChainOK, ChainPages
    <3>3. s \notin C /\ s \notin T /\ p \in C /\ d[p].kind = "leaf"
      BY <1>5, <1>10, <3>2
    <3>4. \A x \in C : DOMAIN d[x].entries \subseteq Nat
      <4> SUFFICES ASSUME NEW x \in C PROVE DOMAIN d[x].entries \subseteq Nat
        OBVIOUS
      <4>1. x \in PageIds
        BY <1>5, <3>2
      <4>2. DOMAIN d[x].entries \subseteq Keys
        BY <4>1, <3>2, <1>1, LeafShape DEF TypedPages
      <4> QED
        BY <4>2, TopType
    <3>5. IsPage(d[p])
      BY <1>1, <1>4 DEF TypedPages
    <3>6. /\ d2[p].kind = "leaf" /\ d2[s].kind = "leaf"
          /\ DOMAIN d2[p].entries = {k \in DOMAIN d[p].entries : k < sep}
          /\ DOMAIN d2[s].entries = {k \in DOMAIN d[p].entries : sep <= k}
          /\ \A k \in DOMAIN d2[p].entries : d2[p].entries[k] = d[p].entries[k]
          /\ \A k \in DOMAIN d2[s].entries : d2[s].entries[k] = d[p].entries[k]
          /\ d2[p].next = s /\ d2[s].next = d[p].next
      BY <1>4, <3>3, <3>5, LeafHalvesFacts DEF sep
    <3>7. /\ \A x \in C : lo2[x] = lo[x] /\ hi2[x] = hi[x]
          /\ \A x \in C : rk2[x] = IF rk[p] <= rk[x] THEN rk[x] + 1 ELSE rk[x]
          /\ \A x \in C : x # p => d2[x] = d[x]
      BY <2>5, <2>6, <3>2, <3>3, <1>8
    <3>8. ChainSplit(d, d2, T, lo, hi, lo2, hi2, C, rk, rk2, p, s, sep, hi[p])
      BY <1>6, <1>7, <2>5, <2>6, <3>3, <3>6, <3>7, SMTT(60) DEF ChainSplit
    <3>9. \A x \in T : lev[x] = 0 <=> x \in C \cup {s}
      BY <3>2, <3>3
    <3>10. ChainOK(d2, n2, T, lo2, hi2, lev, C2, rk2)
      <4>1. \A x \in C : x \in T => x \in T
        OBVIOUS
      <4> QED
        BY <1>5, <3>1, <3>4, <3>8, <3>9, <4>1, ChainSplitOK, ZenonT(60) DEF C2
    <3>11. "undeleted" \notin ev => ContentOK(d2, T, lo2, hi2, lev, C2, rk2, con)
      <4>1. \A x \in C : x \in T => x \in T
        OBVIOUS
      <4> QED
        BY <3>1, <3>8, <3>9, <4>1, SplitContent, ZenonT(60) DEF C2
    <3> QED
      BY <3>10, <3>11
  <2>11. ChainSound(d2, n2, ev2, con, T, lo2, hi2, lev, C2, rk2)
    BY <2>10 DEF ChainSound, CrashDamage, ev2
  <2>12. Sound(d2, r, h, hd, n2, ev2, con, T, lo2, hi2, lev, C2, rk2)
    BY <1>4, <1>9, <2>8, <2>9, <2>11 DEF Sound
  <2> QED
    BY <2>12 DEF ev2
<1>11. CASE lev[p] # 0
  <2> DEFINE T2 == Kept(T, lo, hi, lev, sep, hi[p], lev[p] - 1)
             hi2 == [q \in T |-> IF lev[q] <= lev[p] - 1 /\ hi[q] = sep THEN hi[p] ELSE hi[q]]
  <2>1. T2 \subseteq T
    BY DEF Kept
  <2>2. \A q \in T2 : hi2[q] = IF lev[q] <= lev[p] - 1 /\ hi[q] = sep THEN hi[p] ELSE hi[q]
    BY <2>1
  <2>3. /\ d2[p].kind = "internal" /\ sep \in DOMAIN d[p].children
        /\ DOMAIN d2[p].children = {x \in DOMAIN d[p].children : x < sep}
        /\ \A x \in DOMAIN d2[p].children : d2[p].children[x] = d[p].children[x]
    BY <1>2, <1>6, <1>11 DEF Kinds, SplitInto
  <2>4. \A q \in T : q # p => d2[q] = d[q]
    BY <1>5, <1>8
  <2> HIDE DEF hi2
  <2>5. /\ TreeOK(d2, r, h, n, T2, lo, hi2, lev)
        /\ Aside(T, lo, hi, lev, sep, hi[p], lev[p] - 1)
    <3>1. TreeOK(d2, r, h, n, T2, lo, hi2, lev)
      BY <1>1, <1>6, <1>11, <2>2, <2>3, <2>4, HalfSplitOK, ZenonT(60)
    <3>2. Aside(T, lo, hi, lev, sep, hi[p], lev[p] - 1)
      BY <1>1, <1>6, <1>11, <2>3, AsideOK
    <3> QED
      BY <3>1, <3>2
  <2>6. SameLeaves(d, d2, n)
    BY <1>2, <1>8, <1>11 DEF Kinds, SameLeaves
  <2>7. \A q \in T2 : lev[q] = 0 => /\ hi[q] <= sep \/ hi[p] <= lo[q]
                                    /\ hi2[q] = IF hi[q] = sep THEN hi[p] ELSE hi[q]
    BY <1>7, <1>11, <2>1, <2>2, <2>5 DEF Kept, Aside
  <2>8. \A q \in T : lev[q] = 0 /\ q \notin T2 => sep <= lo[q] /\ hi[q] <= hi[p]
    BY <1>7, <1>11 DEF Kept
  <2>9. HeaderOK(hd, T2, lo, lev)
    BY <1>1, <1>6, <1>7 DEF HeaderOK, Kept
  <2>10. LeavesCut(T, T2, lo, hi, lev, hi2, sep, hi[p])
    BY <1>6, <1>7, <2>7, <2>8 DEF LeavesCut
  <2> HIDE DEF T2
  <2>111. StillSound(d2, r, h, n, ev \cup {"chained"}, con, T2, lo, lev, C, rk)
    BY <1>1, <2>1, <2>5, <2>6, <2>10, CutSound, ZenonT(60)
  <2>11. PICK lo3, hi3 : /\ \A q \in T2 : lo3[q] = lo[q]
                         /\ TreeOK(d2, r, h, n, T2, lo3, hi3, lev)
                         /\ ChainSound(d2, n, ev2, con, T2, lo3, hi3, lev, C, rk)
    BY <2>111 DEF ev2, StillSound
  <2>12. HeaderOK(hd, T2, lo3, lev)
    BY <2>9, <2>11 DEF HeaderOK
  <2>13. Sound(d2, r, h, hd, n, ev2, con, T2, lo3, hi3, lev, C, rk)
    BY <1>4, <1>9, <2>11, <2>12 DEF Sound
  <2>14. Sound(d2, r, h, hd, n2, ev2, con, T2, lo3, hi3, lev, C, rk)
    BY <1>5, <2>13, SoundGrows, Zenon
  <2> QED
    BY <2>14 DEF ev2
<1> QED
  BY <1>10, <1>11

\* A crash after which the header names another root than the last one.
LEMMA RestrictSound ==
  ASSUME NEW d, NEW hd, NEW T, NEW lo, NEW hi, NEW lev, NEW C, NEW rk,
         NEW n \in Nat, NEW r, NEW h, NEW ev, NEW con, n <= LastIndexPage + 1,
         hd.root # 0, hd.height \in Nat,
         Sound(d, r, h, hd, n, ev, con, T, lo, hi, lev, C, rk)
  PROVE  \E T2, lo2, hi2 :
           Sound(d, hd.root, hd.height, hd, n, ev \cup {"chained"}, con,
                 T2, lo2, hi2, lev, C, rk)
<1> DEFINE R == hd.root
           ev2 == ev \cup {"chained"}
           T2 == Below(T, lo, hi, lev, R)
           hi2 == [q \in T |-> IF hi[q] = hi[R] THEN Top ELSE hi[q]]
<1>1. /\ TypedPages(d) /\ NoneDangles(d, hd) /\ TreeOK(d, r, h, n, T, lo, hi, lev)
      /\ HeaderOK(hd, T, lo, lev) /\ ChainSound(d, n, ev, con, T, lo, hi, lev, C, rk)
  BY DEF Sound
<1>2. R \in T /\ lo[R] = 0 /\ lev[R] = hd.height - 1
  BY <1>1 DEF HeaderOK
<1>3. \A q \in T : /\ lo[q] \in Nat /\ hi[q] \in Nat /\ lo[q] < hi[q] /\ hi[q] <= Top
                   /\ lev[q] \in Nat
  BY <1>1 DEF TreeOK, Spans
<1>4. T2 \subseteq T
  BY DEF Below
<1>5. \A q \in T2 : hi2[q] = IF hi[q] = hi[R] THEN Top ELSE hi[q]
  BY <1>4
<1>6. lev[R] + 1 = hd.height
  BY <1>2
<1> HIDE DEF hi2
<1>7. /\ TreeOK(d, R, hd.height, n, T2, lo, hi2, lev)
      /\ Apart(T, lo, hi, lev, hi[R])
  <2> HIDE DEF R
  <2>1. TreeOK(d, R, lev[R] + 1, n, T2, lo, hi2, lev)
        /\ Apart(T, lo, hi, lev, hi[R])
    BY <1>1, <1>2, <1>5, RestrictOK, ZenonT(60)
  <2> HIDE DEF T2
  <2> QED
    BY <2>1, <1>6
<1>8. Top \in Nat
  BY TopType
<1>9. \A q \in T2 : lev[q] = 0 => /\ hi[q] <= hi[R] \/ Top <= lo[q]
                                  /\ hi2[q] = IF hi[q] = hi[R] THEN Top ELSE hi[q]
  BY <1>2, <1>3, <1>4, <1>5, <1>7, <1>8 DEF Below, Apart
<1>10. \A q \in T : lev[q] = 0 /\ q \notin T2 => hi[R] <= lo[q] /\ hi[q] <= Top
  BY <1>2, <1>3, <1>8 DEF Below
<1>11. HeaderOK(hd, T2, lo, lev)
  BY <1>1, <1>2, <1>3 DEF HeaderOK, Below
<1>12. LeavesCut(T, T2, lo, hi, lev, hi2, hi[R], Top)
  BY <1>2, <1>3, <1>8, <1>9, <1>10 DEF LeavesCut
<1>13. SameLeaves(d, d, n)
  BY DEF SameLeaves
<1> HIDE DEF T2, R
<1>14. StillSound(d, R, hd.height, n, ev \cup {"chained"}, con, T2, lo, lev, C, rk)
  BY <1>1, <1>4, <1>7, <1>12, <1>13, CutSound, ZenonT(60)
<1>141. PICK lo3, hi3 : /\ \A q \in T2 : lo3[q] = lo[q]
                        /\ TreeOK(d, R, hd.height, n, T2, lo3, hi3, lev)
                        /\ ChainSound(d, n, ev2, con, T2, lo3, hi3, lev, C, rk)
  BY <1>14 DEF ev2, StillSound
<1>15. HeaderOK(hd, T2, lo3, lev)
  BY <1>11, <1>141 DEF HeaderOK
<1>16. HalfSound(d, R, ev2, T2, lev)
  BY DEF HalfSound, CrashDamage, ev2
<1>17. Sound(d, R, hd.height, hd, n, ev2, con, T2, lo3, hi3, lev, C, rk)
  BY <1>1, <1>141, <1>15, <1>16 DEF Sound
<1> QED
  BY <1>17 DEF R, ev2

-----------------------------------------------------------------------------
(* Splits *)

ThirdWrite(d2, d3, q, page) == d3 = [d2 EXCEPT ![q] = page]

\* The last write of a split changes page q, which is p's parent or a new page.
FamilyOf(d, p, s, q, page) ==
  /\ IsPage(page) /\ page.kind = "internal"
  /\ \A b \in DOMAIN page.children :
       \/ page.children[b] \in {p, s}
       \/ /\ d[q].kind = "internal"
          /\ \E a \in DOMAIN d[q].children : d[q].children[a] = page.children[b]
SplitWritten(d, d3, hd, p, s, q, page) ==
  /\ d3[p] = Halves(d[p], s).low /\ d3[s] = Halves(d[p], s).high /\ d3[q] = page
  /\ \A x \in PageIds : x # p /\ x # s /\ x # q => d3[x] = d[x]
  /\ TypedPages(d3) /\ NoneDangles(d3, hd)

LEMMA ThirdWriteOK ==
  ASSUME NEW d, NEW d1, NEW d2, NEW d3, NEW hd, NEW p, NEW s \in PageIds, NEW q \in PageIds,
         NEW page, q # p, q # s, hd.root \in 0..LastIndexPage,
         Halved(d, d1, d2, hd, p, s), ThirdWrite(d2, d3, q, page),
         FamilyOf(d, p, s, q, page)
  PROVE  SplitWritten(d, d3, hd, p, s, q, page)
<1>1. /\ p \in PageIds /\ p < s /\ d2[p] = Halves(d[p], s).low /\ d2[s] = Halves(d[p], s).high
      /\ \A x \in PageIds : x # p /\ x # s => d2[x] = d[x]
      /\ TypedPages(d2) /\ NoneDangles(d2, hd)
  BY DEF Halved
<1>2. d3[q] = page /\ \A x \in PageIds : x # q => d3[x] = d2[x]
  BY <1>1 DEF ThirdWrite, TypedPages
<1>3. TypedPages(d3)
  BY <1>1, <1>2 DEF TypedPages, ThirdWrite, FamilyOf
<1>4. page # Unwritten
  BY WrittenKinds DEF FamilyOf
<1>5. StillWritten(d2, d3)
  BY <1>2, <1>4 DEF StillWritten
<1>6. d3[p] # Unwritten /\ d3[s] # Unwritten
  <2>1. IsPage(d3[p]) /\ IsPage(d3[s])
    BY <1>1, <1>3 DEF TypedPages
  <2>2. d3[p] = d2[p] /\ d3[s] = d2[s]
    BY <1>1, <1>2
  <2>3. d2[p] # Unwritten /\ d2[s] # Unwritten
    BY <1>1 DEF Halved
  <2> QED
    BY <2>2, <2>3
<1>7. KnownChildren(d2, d3)
  <2> SUFFICES ASSUME NEW x \in PageIds, d3[x].kind = "internal", NEW b \in DOMAIN d3[x].children
               PROVE  \/ d3[d3[x].children[b]] # Unwritten
                      \/ \E y \in PageIds : /\ d2[y].kind = "internal"
                                            /\ \E a \in DOMAIN d2[y].children :
                                                 d2[y].children[a] = d3[x].children[b]
    BY DEF KnownChildren
  <2>1. CASE x # q
    BY <2>1, <1>2
  <2>2. CASE x = q
    <3>1. d2[q] = d[q]
      BY <1>1
    <3> QED
      BY <3>1, <2>2, <1>2, <1>6 DEF FamilyOf
  <2> QED
    BY <2>1, <2>2
<1>8. NoneDangles(d3, hd)
  BY <1>1, <1>3, <1>5, <1>7, NoneDanglesKept, Zenon
<1> QED
  BY <1>1, <1>2, <1>3, <1>8 DEF SplitWritten

\* The separator of a page of the tree, and the halves on either side of it.
SeparatorIn(d, lo, hi, lev, p, s) ==
  LET H == Halves(d[p], s)
  IN /\ H.separator \in Nat /\ H.separator \in Keys /\ H.separator > 0
     /\ lo[p] < H.separator /\ H.separator < hi[p]
     /\ SplitInto(d[p], H.low, H.high, H.separator)
     /\ IsPage(H.low) /\ IsPage(H.high) /\ ~Full(H.low) /\ ~Full(H.high)
     /\ Size(H.low) >= IF lev[p] = 0 THEN Cap \div 2 ELSE (Cap - 1) \div 2
     /\ Size(H.high) >= IF lev[p] = 0 THEN Cap \div 2 ELSE (Cap - 1) \div 2

LEMMA SeparatorFacts ==
  ASSUME NEW d, TypedPages(d), NEW n \in Nat, n <= LastIndexPage + 1, NEW h, NEW r, NEW T,
         NEW lo, NEW hi, NEW lev, TreeOK(d, r, h, n, T, lo, hi, lev),
         NEW p \in T, Full(d[p]), NEW s \in PageIds
  PROVE  SeparatorIn(d, lo, hi, lev, p, s)
<1>1. /\ Spans(n, h, T, lo, hi, lev) /\ Kinds(d, T, lev)
      /\ AllKids(d, T, lo, hi, lev) /\ Fits(d, T, lo, hi, lev)
  BY DEF TreeOK
<1> QED
  BY <1>1, SeparatorInside DEF SeparatorIn

LEMMA ChildSplitTree ==
  ASSUME NEW d, NEW d2, NEW T, NEW lo, NEW hi, NEW lev, NEW lo2, NEW hi2, NEW lev2,
         NEW p, NEW s \in Nat, NEW sep, NEW n \in Nat, NEW n2 \in Nat, NEW h, NEW r,
         TypedPages(d), n <= LastIndexPage + 1, n <= s, s > 0, s < n2,
         TreeOK(d, r, h, n, T, lo, hi, lev),
         NEW q \in T, lev[q] # 0, HasChild(d, lev, q, p), Adopts(d, d2, q, s, sep),
         SplitStep(d, d2, T, {q}, lo, hi, lev, lo2, hi2, lev2, p, s, sep)
  PROVE  TreeOK(d2, r, h, n2, T \cup {s}, lo2, hi2, lev2)
<1>1. PICK b0 \in DOMAIN d[q].children : d[q].children[b0] = p
  BY DEF HasChild
<1>2. sep \in Nat /\ p \in T /\ lo[p] < sep /\ sep < hi[p]
  BY DEF SplitStep
<1>3. sep \notin DOMAIN d[q].children =>
        SplitStep(d, d2, T, {q}, lo, hi, lev, lo2, hi2, lev2, p, s, sep)
  OBVIOUS
<1> QED
  BY <1>1, <1>2, <1>3, ChildSplitOK, Zenon

\* Page p, which key k leads to from page q, is full and q is not.
FullBelow(d, q, k, p) ==
  d[q].kind = "internal" /\ ~Full(d[q]) /\ p = ChildOf(d[q], k) /\ Full(d[p])
SeparatorOf(d, p, s, sep) == sep = Halves(d[p], s).separator
HalfOf(k, sep, p, s, at) == at = (IF k >= sep THEN s ELSE p)

\* A page has been split below a parent with room.
LEMMA ChildSplitStands ==
  ASSUME NEW d, NEW d1, NEW d2, NEW d3, NEW hd, NEW T, NEW lo, NEW hi, NEW lev, NEW C, NEW rk,
         NEW n \in Nat, NEW n2 \in Nat, NEW r, NEW h, NEW ev, NEW con,
         NEW q \in T, NEW k \in Keys, lo[q] <= k, k < hi[q],
         NEW p, FullBelow(d, q, k, p),
         NEW s \in PageIds, n <= LastIndexPage + 1, n <= s, s < n2,
         hd.root \in 0..LastIndexPage,
         Sound(d, r, h, hd, n, ev, con, T, lo, hi, lev, C, rk),
         FirstWrite(d, d1, p, s), SecondWrite(d, d1, d2, p, s),
         NEW sep, SeparatorOf(d, p, s, sep),
         ThirdWrite(d2, d3, q, Adopting(d[q], sep, s)),
         NEW at, HalfOf(k, sep, p, s, at)
  PROVE  Stands(d3, r, h, hd, n2, ev, con, at, k)
<1> at = IF k >= sep THEN s ELSE p
  BY DEF HalfOf
<1> d[q].kind = "internal" /\ ~Full(d[q]) /\ p = ChildOf(d[q], k) /\ Full(d[p])
  BY DEF FullBelow
<1> sep = Halves(d[p], s).separator
  BY DEF SeparatorOf
<1> DEFINE page == Adopting(d[q], sep, s)
           D == DOMAIN d[q].children
           T2 == T \cup {s}
           lo2 == [x \in T \cup C \cup {s} |-> IF x = s THEN sep ELSE lo[x]]
           hi2 == [x \in T \cup C \cup {s} |-> IF x = s THEN hi[p]
                                               ELSE IF x = p THEN sep ELSE hi[x]]
           lev2 == [x \in T \cup {s} |-> IF x = s THEN lev[p] ELSE lev[x]]
<1>1. /\ TypedPages(d) /\ NoneDangles(d, hd) /\ TreeOK(d, r, h, n, T, lo, hi, lev)
      /\ HeaderOK(hd, T, lo, lev) /\ ChainSound(d, n, ev, con, T, lo, hi, lev, C, rk)
      /\ HalfSound(d, r, ev, T, lev)
  BY DEF Sound
<1>2. /\ Spans(n, h, T, lo, hi, lev) /\ Kinds(d, T, lev)
      /\ AllKids(d, T, lo, hi, lev) /\ Fits(d, T, lo, hi, lev)
  BY <1>1 DEF TreeOK
<1>3. /\ T \subseteq 1..(n - 1) /\ 1..(n - 1) \subseteq PageIds
      /\ s \notin T /\ s \in Nat /\ s > 0 /\ n <= n2 /\ \A x \in 1..(n - 1) : x # s
  BY <1>2, BTreeAssumption DEF Spans, PageIds
<1>4. q \in PageIds /\ IsPage(d[q]) /\ lev[q] # 0
  BY <1>1, <1>2, <1>3 DEF TypedPages, Kinds
<1>5. /\ p \in T /\ lev[p] = lev[q] - 1 /\ lo[p] <= k /\ k < hi[p]
      /\ HasChild(d, lev, q, p)
  BY <1>1, <1>2, <1>4, ChildStep
<1>6. PICK b0 \in D : d[q].children[b0] = p
  BY <1>5 DEF HasChild
<1>7. \A x \in T : /\ lo[x] \in Nat /\ hi[x] \in Nat /\ hi[x] <= Top /\ lev[x] \in Nat
  BY <1>2 DEF Spans
<1>8. p # q /\ p # s /\ q # s /\ p \in PageIds
  BY <1>3, <1>5, <1>7
<1>9. Halved(d, d1, d2, hd, p, s)
  BY <1>1, <1>5, HalvesWritten, Zenon
<1>10. /\ sep \in Nat /\ sep \in Keys /\ sep > 0 /\ lo[p] < sep /\ sep < hi[p]
       /\ SplitInto(d[p], Halves(d[p], s).low, Halves(d[p], s).high, sep)
       /\ ~Full(Halves(d[p], s).low) /\ ~Full(Halves(d[p], s).high)
       /\ Size(Halves(d[p], s).low) >= IF lev[p] = 0 THEN Cap \div 2 ELSE (Cap - 1) \div 2
       /\ Size(Halves(d[p], s).high) >= IF lev[p] = 0 THEN Cap \div 2 ELSE (Cap - 1) \div 2
  <2>1. SeparatorIn(d, lo, hi, lev, p, s)
    BY <1>1, <1>5, SeparatorFacts, Zenon
  <2> QED
    BY <2>1 DEF SeparatorIn
<1>11. /\ IsPage(page) /\ page.kind = "internal" /\ Size(page) >= Size(d[q])
       /\ DOMAIN page.children = D \cup {sep}
       /\ \A b \in D \cup {sep} : page.children[b] = IF b = sep THEN s ELSE d[q].children[b]
  BY <1>4, <1>10, AdoptingFacts
<1>14. FamilyOf(d, p, s, q, page)
  <2> HIDE DEF page
  <2> QED
    BY <1>11 DEF FamilyOf
<1>15. ThirdWrite(d2, d3, q, page)
  OBVIOUS
<1> HIDE DEF page
<1>13. SplitWritten(d, d3, hd, p, s, q, page)
  BY <1>4, <1>8, <1>9, <1>14, <1>15, ThirdWriteOK, Zenon
<1>16. /\ d3[p] = Halves(d[p], s).low /\ d3[s] = Halves(d[p], s).high /\ d3[q] = page
       /\ \A x \in PageIds : x # p /\ x # s /\ x # q => d3[x] = d[x]
       /\ TypedPages(d3) /\ NoneDangles(d3, hd)
  BY <1>13 DEF SplitWritten
<1>17. \A x \in T : x # p /\ x # q => d3[x] = d[x]
  BY <1>3, <1>16
<1>18. sep \notin D
  <2>1. Kids(d, T, lo, hi, lev, q)
    BY <1>2, <1>4 DEF AllKids
  <2>2. /\ lo[p] = (IF b0 = 0 THEN lo[q] ELSE b0)
        /\ \A b2 \in D : b0 < b2 => hi[p] <= b2
    BY <2>1, <1>6 DEF Kids
  <2>3. b0 \in Nat
    BY <1>1, <1>2, <1>4, <1>6, InnerPage
  <2> QED
    BY <2>2, <2>3, <1>5, <1>7, <1>10
<1>19. /\ \A x \in T : lo2[x] = lo[x] /\ lev2[x] = lev[x] /\ (x # p => hi2[x] = hi[x])
       /\ hi2[p] = sep /\ lo2[s] = sep /\ hi2[s] = hi[p] /\ lev2[s] = lev[p]
       /\ \A x \in T \cup C : x # s => lo2[x] = lo[x] /\ (x # p => hi2[x] = hi[x])
  BY <1>3, <1>5, <1>8
<1> HIDE DEF lo2, hi2, lev2, D
<1>20. SplitStep(d, d3, T, {q}, lo, hi, lev, lo2, hi2, lev2, p, s, sep)
  <2>1. \A x \in T : x # p /\ x \notin {q} => d3[x] = d[x]
    BY <1>17
  <2>2. \A x \in {q} : /\ d3[x].kind = "internal" /\ lev[x] # 0
                       /\ \A b \in DOMAIN d[x].children :
                            b \in DOMAIN d3[x].children /\ d3[x].children[b] = d[x].children[b]
    BY <1>4, <1>11, <1>16, <1>18 DEF D
  <2>3. SplitInto(d[p], d3[p], d3[s], sep)
    BY <1>10, <1>16
  <2> QED
    BY <2>1, <2>2, <2>3, <1>3, <1>5, <1>8, <1>10, <1>19 DEF SplitStep
<1>21. TreeOK(d3, r, h, n2, T2, lo2, hi2, lev2)
  <2>1. Adopts(d, d3, q, s, sep)
    BY <1>11, <1>16 DEF Adopts, D
  <2> QED
    BY <2>1, <1>1, <1>3, <1>4, <1>5, <1>20, ChildSplitTree, Zenon
<1>22. HeaderOK(hd, T2, lo2, lev2)
  BY <1>1, <1>19 DEF HeaderOK
<1>23. HalfSound(d3, r, ev, T2, lev2)
  <2> SUFFICES ASSUME HalfOK(d, r, T, lev), NEW x \in T2, x # r
               PROVE  Size(d3[x]) >= IF lev2[x] = 0 THEN Cap \div 2 ELSE (Cap - 1) \div 2
    BY <1>1 DEF HalfSound, HalfOK
  <2>1. CASE x = p \/ x = s
    BY <2>1, <1>5, <1>10, <1>16, <1>19
  <2>2. CASE x = q
    <3>1. Size(d[q]) >= IF lev[q] = 0 THEN Cap \div 2 ELSE (Cap - 1) \div 2
      BY <2>2 DEF HalfOK
    <3>2. Size(d[q]) \in Nat /\ Size(page) \in Nat /\ Cap \in Nat
      BY <1>4, <1>11, InternalShape, BTreeAssumption
    <3>3. (Cap - 1) \div 2 \in Int
      BY <3>2
    <3> QED
      BY <3>1, <3>2, <3>3, <2>2, <1>4, <1>11, <1>16, <1>19
  <2>3. CASE x # p /\ x # s /\ x # q
    BY <2>3, <1>17, <1>19 DEF HalfOK
  <2> QED
    BY <2>1, <2>2, <2>3
<1>24. PICK C2, rk2 : ChainSound(d3, n2, ev, con, T2, lo2, hi2, lev2, C2, rk2)
  <2>1. HalvesOn(d, d3, n, p, s)
    BY <1>2, <1>3, <1>4, <1>16 DEF HalvesOn, Kinds
  <2>2. SpansSplit(T, T2, C, lo, hi, lev, lo2, hi2, lev2, n, p, s, Halves(d[p], s).separator)
    BY <1>19 DEF SpansSplit
  <2> HIDE DEF T2
  <2>3. SomeChain(d3, n2, ev, con, T2, lo2, hi2, lev2)
    BY <1>1, <1>5, <2>1, <2>2, SplitChainSound, Zenon
  <2> QED
    BY <2>3 DEF SomeChain
<1>25. Sound(d3, r, h, hd, n2, ev, con, T2, lo2, hi2, lev2, C2, rk2)
  BY <1>16, <1>21, <1>22, <1>23, <1>24 DEF Sound
<1>26. Reached(d3, T2, lo2, hi2, IF k >= sep THEN s ELSE p, k)
  <2>1. k \in Nat
    BY TopType
  <2> QED
    BY <2>1, <1>5, <1>7, <1>8, <1>10, <1>16, <1>19 DEF Reached
<1> QED
  BY <1>25, <1>26, ItStands, Zenon

\* The root has been split below a new root q.
LEMMA RootSplitStands ==
  ASSUME NEW d, NEW d1, NEW d2, NEW d3, NEW hd, NEW T, NEW lo, NEW hi, NEW lev, NEW C, NEW rk,
         NEW n \in Nat, NEW n2 \in Nat, NEW p, NEW h, NEW ev, NEW con, NEW k \in Keys,
         Full(d[p]), NEW s \in PageIds, NEW q \in PageIds, s # q,
         n <= LastIndexPage + 1, n <= s, s < n2, n <= q, q < n2,
         hd.root \in 0..LastIndexPage,
         Sound(d, p, h, hd, n, ev, con, T, lo, hi, lev, C, rk),
         FirstWrite(d, d1, p, s), SecondWrite(d, d1, d2, p, s),
         NEW sep, sep = Halves(d[p], s).separator,
         ThirdWrite(d2, d3, q, RootOver(p, sep, s))
  PROVE  Stands(d3, q, h + 1, hd, n2, ev, con, q, k)
<1> DEFINE page == RootOver(p, sep, s)
           T2 == T \cup {s, q}
           lo2 == [x \in T \cup C \cup {s, q} |-> IF x = s THEN sep ELSE IF x = q THEN 0 ELSE lo[x]]
           hi2 == [x \in T \cup C \cup {s, q} |->
                     IF x = s THEN hi[p] ELSE IF x = p THEN sep ELSE IF x = q THEN Top ELSE hi[x]]
           lev2 == [x \in T \cup {s, q} |->
                      IF x = s THEN lev[p] ELSE IF x = q THEN h ELSE lev[x]]
<1>1. /\ TypedPages(d) /\ NoneDangles(d, hd) /\ TreeOK(d, p, h, n, T, lo, hi, lev)
      /\ HeaderOK(hd, T, lo, lev) /\ ChainSound(d, n, ev, con, T, lo, hi, lev, C, rk)
      /\ HalfSound(d, p, ev, T, lev)
  BY DEF Sound
<1>2. /\ Spans(n, h, T, lo, hi, lev) /\ Kinds(d, T, lev) /\ Rooted(p, n, h, T, lo, hi, lev)
  BY <1>1 DEF TreeOK
<1>3. /\ T \subseteq 1..(n - 1) /\ 1..(n - 1) \subseteq PageIds
      /\ s \notin T /\ s \in Nat /\ s > 0 /\ n <= n2 /\ \A x \in 1..(n - 1) : x # s /\ x # q
      /\ q \notin T /\ q \in Nat /\ q > 0
  BY <1>2, BTreeAssumption DEF Spans, PageIds
<1>4. p \in T /\ lo[p] = 0 /\ hi[p] = Top /\ lev[p] = h - 1 /\ h \in Nat /\ h # 0
  BY <1>2 DEF Rooted
<1>5. p # q /\ p # s /\ p \in PageIds /\ IsPage(d[p])
  BY <1>1, <1>3, <1>4 DEF TypedPages
<1>6. \A x \in T : /\ lo[x] \in Nat /\ hi[x] \in Nat /\ hi[x] <= Top /\ lev[x] \in Nat
  BY <1>2 DEF Spans
<1>7. Halved(d, d1, d2, hd, p, s)
  BY <1>1, <1>4, HalvesWritten, Zenon
<1>8. /\ sep \in Nat /\ sep \in Keys /\ sep > 0 /\ lo[p] < sep /\ sep < hi[p]
      /\ SplitInto(d[p], Halves(d[p], s).low, Halves(d[p], s).high, sep)
      /\ Size(Halves(d[p], s).low) >= IF lev[p] = 0 THEN Cap \div 2 ELSE (Cap - 1) \div 2
      /\ Size(Halves(d[p], s).high) >= IF lev[p] = 0 THEN Cap \div 2 ELSE (Cap - 1) \div 2
  <2>1. SeparatorIn(d, lo, hi, lev, p, s)
    BY <1>1, <1>4, SeparatorFacts, Zenon
  <2> QED
    BY <2>1 DEF SeparatorIn
<1>9. /\ IsPage(page) /\ page.kind = "internal" /\ ~Full(page)
      /\ DOMAIN page.children = {0, sep} /\ page.children[0] = p /\ page.children[sep] = s
  BY <1>5, <1>8, RootOverFacts
<1>10. ThirdWrite(d2, d3, q, page)
  OBVIOUS
<1> HIDE DEF page
<1>11. FamilyOf(d, p, s, q, page)
  BY <1>9 DEF FamilyOf
<1>12. SplitWritten(d, d3, hd, p, s, q, page)
  BY <1>5, <1>7, <1>10, <1>11, ThirdWriteOK, Zenon
<1>13. /\ d3[p] = Halves(d[p], s).low /\ d3[s] = Halves(d[p], s).high /\ d3[q] = page
       /\ \A x \in PageIds : x # p /\ x # s /\ x # q => d3[x] = d[x]
       /\ TypedPages(d3) /\ NoneDangles(d3, hd)
  BY <1>12 DEF SplitWritten
<1>14. \A x \in T : x # p => d3[x] = d[x]
  BY <1>3, <1>13
<1>15. /\ \A x \in T : lo2[x] = lo[x] /\ lev2[x] = lev[x] /\ (x # p => hi2[x] = hi[x])
       /\ hi2[p] = sep /\ lo2[s] = sep /\ hi2[s] = hi[p] /\ lev2[s] = lev[p]
       /\ lo2[q] = 0 /\ hi2[q] = Top /\ lev2[q] = h
  BY <1>3, <1>4, <1>5
<1> HIDE DEF lo2, hi2, lev2
<1>16. SplitStep(d, d3, T, {}, lo, hi, lev, lo2, hi2, lev2, p, s, sep)
  <2>1. SplitInto(d[p], d3[p], d3[s], sep)
    BY <1>8, <1>13
  <2> QED
    BY <2>1, <1>3, <1>4, <1>5, <1>8, <1>14, <1>15 DEF SplitStep
<1>17. TreeOK(d3, q, h + 1, n2, T2, lo2, hi2, lev2)
  <2>1. /\ d3[q].kind = "internal" /\ DOMAIN d3[q].children = {0, sep}
        /\ d3[q].children[0] = p /\ d3[q].children[sep] = s
    BY <1>9, <1>13
  <2> QED
    BY <2>1, <1>1, <1>3, <1>15, <1>16, RootSplitOK, ZenonT(60)
<1>18. HeaderOK(hd, T2, lo2, lev2)
  BY <1>1, <1>15 DEF HeaderOK
<1>19. HalfSound(d3, q, ev, T2, lev2)
  <2> SUFFICES ASSUME HalfOK(d, p, T, lev), NEW x \in T2, x # q
               PROVE  Size(d3[x]) >= IF lev2[x] = 0 THEN Cap \div 2 ELSE (Cap - 1) \div 2
    BY <1>1 DEF HalfSound, HalfOK
  <2>1. CASE x = p \/ x = s
    BY <2>1, <1>4, <1>8, <1>13, <1>15
  <2>2. CASE x # p /\ x # s
    BY <2>2, <1>14, <1>15 DEF HalfOK
  <2> QED
    BY <2>1, <2>2
<1>20. PICK C2, rk2 : ChainSound(d3, n2, ev, con, T2, lo2, hi2, lev2, C2, rk2)
  <2>1. HalvesOn(d, d3, n, p, s)
    BY <1>3, <1>13 DEF HalvesOn
  <2>2. CASE q \notin C
    <3>1. \A x \in T \cup C : x # s => lo2[x] = lo[x] /\ (x # p => hi2[x] = hi[x])
      BY <2>2, <1>3 DEF lo2, hi2
    <3>2. SpansSplit(T, T2, C, lo, hi, lev, lo2, hi2, lev2, n, p, s, Halves(d[p], s).separator)
      BY <1>4, <1>15, <3>1 DEF SpansSplit
    <3> HIDE DEF T2
    <3>3. SomeChain(d3, n2, ev, con, T2, lo2, hi2, lev2)
      BY <1>1, <1>4, <2>1, <3>2, SplitChainSound, Zenon
    <3> QED
      BY <3>3 DEF SomeChain
  <2>3. CASE q \in C
    <3>1. "torn" \in ev
      BY <2>3, <1>1, <1>3 DEF ChainSound, ChainOK, ChainPages
    <3> QED
      BY <3>1 DEF ChainSound
  <2> QED
    BY <2>2, <2>3
<1>21. Sound(d3, q, h + 1, hd, n2, ev, con, T2, lo2, hi2, lev2, C2, rk2)
  BY <1>13, <1>17, <1>18, <1>19, <1>20 DEF Sound
<1>22. Reached(d3, T2, lo2, hi2, q, k)
  <2>1. k \in Nat /\ k < Top
    BY TopType
  <2> QED
    BY <2>1, <1>9, <1>13, <1>15 DEF Reached
<1> QED
  BY <1>21, <1>22, ItStands, Zenon

-----------------------------------------------------------------------------
(* Inserts and deletes in a leaf *)

\* Pages that keep their kind and children dangle no more than before.
LEMMA LeafChangedTyped ==
  ASSUME NEW d, NEW d2, NEW hd, TypedPages(d), NoneDangles(d, hd),
         hd.root \in 0..LastIndexPage,
         NEW p \in PageIds, NEW page, IsPage(page), page.kind = "leaf",
         d2 = [d EXCEPT ![p] = page]
  PROVE  TypedPages(d2) /\ NoneDangles(d2, hd)
<1>1. d2[p] = page /\ \A x \in PageIds : x # p => d2[x] = d[x]
  BY DEF TypedPages
<1>2. TypedPages(d2)
  BY <1>1 DEF TypedPages
<1>3. page # Unwritten
  BY WrittenKinds
<1>4. StillWritten(d, d2)
  BY <1>1, <1>3 DEF StillWritten
<1>5. KnownChildren(d, d2)
  BY <1>1 DEF KnownChildren
<1> QED
  BY <1>2, <1>4, <1>5, NoneDanglesKept, Zenon

\* A key added to a leaf, or its value replaced.
EntryPut(page, page2, k, v) ==
  /\ IsPage(page2) /\ page2.kind = "leaf" /\ page2.next = page.next
  /\ DOMAIN page2.entries = DOMAIN page.entries \cup {k}
  /\ page2.entries[k] = v
  /\ \A x \in DOMAIN page.entries : x # k => page2.entries[x] = page.entries[x]
  /\ Size(page2) >= Size(page) /\ Size(page) \in Nat /\ Size(page2) \in Nat
PutEntry(page, k, v) ==
  [page EXCEPT !.entries = [x \in DOMAIN page.entries \cup {k} |->
                              IF x = k THEN v ELSE page.entries[x]]]

LEMMA InsertedPage ==
  ASSUME NEW page, IsPage(page), page.kind = "leaf", ~Full(page), NEW k \in Keys, NEW v \in Values,
         NEW page2, page2 = PutEntry(page, k, v)
  PROVE  EntryPut(page, page2, k, v)
<1> DEFINE K == DOMAIN page.entries \cup {k}
           e == [x \in K |-> IF x = k THEN v ELSE page.entries[x]]
<1>1. /\ page = Leaf(page.entries, page.next)
      /\ page.entries \in [DOMAIN page.entries -> Values]
      /\ DOMAIN page.entries \subseteq Keys /\ IsFiniteSet(DOMAIN page.entries)
      /\ page.next \in 0..LastIndexPage
      /\ Size(page) = Cardinality(DOMAIN page.entries) /\ Size(page) \in Nat
  BY LeafShape
<1>2. K \subseteq Keys
  BY <1>1
<1>3. e \in [K -> Values]
  <2>1. \A x \in K : (IF x = k THEN v ELSE page.entries[x]) \in Values
    BY <1>1
  <2> QED
    BY <2>1
<1>4. page2 = Leaf(e, page.next)
  BY <1>1 DEF Leaf, PutEntry
<1>5. Cardinality(K) \in Nat /\ Cardinality(K) <= Cardinality(DOMAIN page.entries) + 1
      /\ Cardinality(K) >= Cardinality(DOMAIN page.entries)
  <2>1. Cardinality(K) = IF k \in DOMAIN page.entries THEN Cardinality(DOMAIN page.entries)
                         ELSE Cardinality(DOMAIN page.entries) + 1
    BY <1>1, FS_AddElement
  <2> QED
    BY <2>1, <1>1
<1>6. Cardinality(K) <= Cap
  BY <1>1, <1>5, BTreeAssumption DEF Full
<1>7. e[k] = v /\ \A x \in DOMAIN page.entries : x # k => e[x] = page.entries[x]
  OBVIOUS
<1>8. DOMAIN e = K
  OBVIOUS
<1>9. page2.entries = e /\ page2.next = page.next
  BY <1>4 DEF Leaf
<1> HIDE DEF e, K
<1>10. IsPage(page2) /\ page2.kind = "leaf" /\ Size(page2) = Cardinality(K)
  BY <1>1, <1>2, <1>3, <1>4, <1>6, LeafIsPage
<1> QED
  BY <1>1, <1>5, <1>7, <1>8, <1>9, <1>10 DEF K, EntryPut

\* A key removed from a leaf.
EntryRemoved(page, page2, k) ==
  /\ IsPage(page2) /\ page2.kind = "leaf" /\ page2.next = page.next
  /\ DOMAIN page2.entries = DOMAIN page.entries \ {k}
  /\ \A x \in DOMAIN page2.entries : page2.entries[x] = page.entries[x]
  /\ k \notin DOMAIN page.entries => Size(page2) = Size(page)
RemoveEntry(page, k) ==
  [page EXCEPT !.entries = Restrict(page.entries, DOMAIN page.entries \ {k})]

LEMMA DeletedPage ==
  ASSUME NEW page, IsPage(page), page.kind = "leaf", NEW k,
         NEW page2, page2 = RemoveEntry(page, k)
  PROVE  EntryRemoved(page, page2, k)
<1> DEFINE K == DOMAIN page.entries \ {k}
           e == Restrict(page.entries, K)
<1>1. /\ page = Leaf(page.entries, page.next)
      /\ page.entries \in [DOMAIN page.entries -> Values]
      /\ DOMAIN page.entries \subseteq Keys /\ IsFiniteSet(DOMAIN page.entries)
      /\ page.next \in 0..LastIndexPage
      /\ Size(page) = Cardinality(DOMAIN page.entries) /\ Size(page) \in Nat /\ Size(page) <= Cap
  BY LeafShape
<1>2. K \subseteq Keys /\ K \subseteq DOMAIN page.entries
  BY <1>1
<1>3. e \in [K -> Values] /\ DOMAIN e = K /\ \A x \in K : e[x] = page.entries[x]
  BY <1>1 DEF Restrict
<1>4. page2 = Leaf(e, page.next)
  BY <1>1 DEF Leaf, RemoveEntry
<1>5. Cardinality(K) <= Cap
  <2>1. Cardinality(K) <= Cardinality(DOMAIN page.entries) /\ IsFiniteSet(K)
    BY <1>1, <1>2, FS_Subset
  <2>2. Cardinality(K) \in Nat
    BY <2>1, FS_CardinalityType
  <2> QED
    BY <2>1, <2>2, <1>1, BTreeAssumption
<1>6. k \notin DOMAIN page.entries => K = DOMAIN page.entries
  OBVIOUS
<1>7. page2.entries = e /\ page2.next = page.next
  BY <1>4 DEF Leaf
<1> HIDE DEF e, K
<1>8. IsPage(page2) /\ page2.kind = "leaf" /\ Size(page2) = Cardinality(K)
  BY <1>1, <1>2, <1>3, <1>4, <1>5, LeafIsPage
<1> QED
  BY <1>1, <1>3, <1>6, <1>7, <1>8 DEF K, EntryRemoved

\* The key is put into the leaf that is responsible for it.
LEMMA InsertSound ==
  ASSUME NEW d, NEW d2, NEW hd, NEW T, NEW lo, NEW hi, NEW lev, NEW C, NEW rk,
         NEW n \in Nat, NEW r, NEW h, NEW ev, NEW con, con \in [Keys -> Values \cup {None}],
         n <= LastIndexPage + 1, hd.root \in 0..LastIndexPage,
         Sound(d, r, h, hd, n, ev, con, T, lo, hi, lev, C, rk),
         NEW p \in T, d[p].kind = "leaf", ~Full(d[p]),
         NEW k \in Keys, lo[p] <= k, k < hi[p], NEW v \in Values,
         d2 = [d EXCEPT ![p] = PutEntry(d[p], k, v)]
  PROVE  Sound(d2, r, h, hd, n, ev, [con EXCEPT ![k] = v], T, lo, hi, lev, C, rk)
<1> DEFINE page == PutEntry(d[p], k, v)
           con2 == [con EXCEPT ![k] = v]
<1>1. /\ TypedPages(d) /\ NoneDangles(d, hd) /\ TreeOK(d, r, h, n, T, lo, hi, lev)
      /\ HeaderOK(hd, T, lo, lev) /\ ChainSound(d, n, ev, con, T, lo, hi, lev, C, rk)
      /\ HalfSound(d, r, ev, T, lev)
  BY DEF Sound
<1>2. /\ Spans(n, h, T, lo, hi, lev) /\ Kinds(d, T, lev) /\ Nested(T, lo, hi, lev)
      /\ Fits(d, T, lo, hi, lev)
  BY <1>1 DEF TreeOK
<1>3. T \subseteq 1..(n - 1) /\ 1..(n - 1) \subseteq PageIds
  BY <1>2, BTreeAssumption DEF Spans, PageIds
<1>4. p \in PageIds /\ IsPage(d[p]) /\ lev[p] = 0
  BY <1>1, <1>2, <1>3 DEF TypedPages, Kinds
<1>5. d2 = [d EXCEPT ![p] = page]
  OBVIOUS
<1>6. /\ IsPage(page) /\ page.kind = "leaf" /\ page.next = d[p].next
      /\ DOMAIN page.entries = DOMAIN d[p].entries \cup {k}
      /\ page.entries[k] = v
      /\ \A x \in DOMAIN d[p].entries : x # k => page.entries[x] = d[p].entries[x]
      /\ Size(page) >= Size(d[p]) /\ Size(d[p]) \in Nat /\ Size(page) \in Nat
  <2>1. EntryPut(d[p], page, k, v)
    BY <1>4, InsertedPage, Zenon
  <2> HIDE DEF page
  <2> QED
    BY <2>1 DEF EntryPut
<1> HIDE DEF page
<1>7. d2[p] = page /\ \A x \in PageIds : x # p => d2[x] = d[x]
  BY <1>4, <1>5, <1>1 DEF TypedPages
<1>8. TypedPages(d2) /\ NoneDangles(d2, hd)
  BY <1>1, <1>4, <1>5, <1>6, LeafChangedTyped, Zenon
<1>9. \A x \in DOMAIN d2[p].entries : lo[p] <= x /\ x < hi[p]
  BY <1>2, <1>4, <1>6, <1>7 DEF Fits
<1>10. \A q \in T : q # p => d2[q] = d[q]
  BY <1>3, <1>7
<1>11. d2[p].kind = "leaf" /\ d2[p].next = d[p].next
  BY <1>6, <1>7
<1>12. TreeOK(d2, r, h, n, T, lo, hi, lev)
  BY <1>1, <1>4, <1>9, <1>10, <1>11, LeafRewriteOK
<1>13. HalfSound(d2, r, ev, T, lev)
  <2> SUFFICES ASSUME HalfOK(d, r, T, lev), NEW x \in T, x # r
               PROVE  Size(d2[x]) >= IF lev[x] = 0 THEN Cap \div 2 ELSE (Cap - 1) \div 2
    BY <1>1 DEF HalfSound, HalfOK
  <2>1. CASE x = p
    <3>1. Size(d[p]) >= Cap \div 2 /\ Cap \div 2 \in Int
      BY <2>1, <1>4, BTreeAssumption DEF HalfOK
    <3> QED
      BY <3>1, <2>1, <1>4, <1>6, <1>7
  <2>2. CASE x # p
    BY <2>2, <1>10 DEF HalfOK
  <2> QED
    BY <2>1, <2>2
<1>14. ChainSound(d2, n, ev, con2, T, lo, hi, lev, C, rk)
  <2> SUFFICES ASSUME "torn" \notin ev
               PROVE  /\ ChainOK(d2, n, T, lo, hi, lev, C, rk)
                      /\ "undeleted" \notin ev => ContentOK(d2, T, lo, hi, lev, C, rk, con2)
                      /\ ev \cap CrashDamage = {} => C \subseteq T
    BY DEF ChainSound
  <2>1. /\ ChainOK(d, n, T, lo, hi, lev, C, rk)
        /\ "undeleted" \notin ev => ContentOK(d, T, lo, hi, lev, C, rk, con)
        /\ ev \cap CrashDamage = {} => C \subseteq T
    BY <1>1 DEF ChainSound
  <2>2. C \subseteq 1..(n - 1)
    BY <2>1 DEF ChainOK, ChainPages
  <2>3. SameBut(d, d2, C, p)
    BY <2>2, <1>3, <1>7 DEF SameBut
  <2>4. ChainOK(d2, n, T, lo, hi, lev, C, rk)
    <3>1. \A x \in DOMAIN d2[p].entries : x < hi[p]
      BY <1>9
    <3> QED
      BY <2>1, <2>3, <3>1, <1>11, ChainRewriteOK, Zenon
  <2>5. ASSUME "undeleted" \notin ev PROVE ContentOK(d2, T, lo, hi, lev, C, rk, con2)
    <3>1. KeyPut(d, d2, p, k, v)
      BY <1>6, <1>7 DEF KeyPut
    <3> QED
      BY <2>1, <2>3, <2>5, <3>1, <1>2, <1>4, InsertContent, ZenonT(60)
  <2> QED
    BY <2>1, <2>4, <2>5
<1> QED
  BY <1>1, <1>8, <1>12, <1>13, <1>14 DEF Sound

\* The key is removed from the leaf the separators lead to.
LEMMA DeleteSound ==
  ASSUME NEW d2, NEW hd, NEW T, NEW lo, NEW hi, NEW lev, NEW C, NEW rk,
         NEW n \in Nat, NEW ev2,
         content \in [Keys -> Values \cup {None}], nextPage \in Nat, root \in 0..LastIndexPage,
         n <= nextPage, n <= LastIndexPage + 1, hd.root \in 0..LastIndexPage,
         Sound(disk, root, height, hd, n, events, content, T, lo, hi, lev, C, rk),
         NEW k \in Keys, NEW p, p = FindLeaf(k),
         d2 = [disk EXCEPT ![p] = RemoveEntry(disk[p], k)],
         ev2 = events \cup If(k \in KeysOf(p), "deleted")
                      \cup If(FoundFrom(disk[p].next, k) # None, "undeleted")
  PROVE  /\ Sound(d2, root, height, hd, n, ev2, [content EXCEPT ![k] = None], T, lo, hi, lev, C, rk)
         /\ "undeleted" \in ev2 /\ "undeleted" \notin events => events \cap CrashDamage # {}
<1> DEFINE page == RemoveEntry(disk[p], k)
           con2 == [content EXCEPT ![k] = None]
           next == disk[p].next
<1>1. /\ TypedPages(disk) /\ NoneDangles(disk, hd) /\ TreeOK(disk, root, height, n, T, lo, hi, lev)
      /\ HeaderOK(hd, T, lo, lev) /\ ChainSound(disk, n, events, content, T, lo, hi, lev, C, rk)
      /\ HalfSound(disk, root, events, T, lev)
  BY DEF Sound
<1>2. /\ Spans(n, height, T, lo, hi, lev) /\ Kinds(disk, T, lev) /\ Nested(T, lo, hi, lev)
      /\ Fits(disk, T, lo, hi, lev)
  BY <1>1 DEF TreeOK
<1>3. T \subseteq 1..(n - 1) /\ 1..(n - 1) \subseteq PageIds
  BY <1>2, BTreeAssumption DEF Spans, PageIds
<1>4. p \in T /\ lev[p] = 0 /\ lo[p] <= k /\ k < hi[p]
  BY <1>1, FindLeafOK
<1>5. p \in PageIds /\ IsPage(disk[p]) /\ disk[p].kind = "leaf"
  BY <1>1, <1>2, <1>3, <1>4 DEF TypedPages, Kinds
<1>6. /\ events \subseteq ev2
      /\ k \in DOMAIN disk[p].entries => "deleted" \in ev2
      /\ FoundFrom(next, k) # None => "undeleted" \in ev2
      /\ ev2 \subseteq events \cup {"deleted", "undeleted"}
      /\ "undeleted" \in ev2 /\ "undeleted" \notin events => FoundFrom(next, k) # None
  BY DEF If, KeysOf
<1>7. "torn" \in ev2 <=> "torn" \in events
  BY <1>6
<1>8. ev2 \cap CrashDamage = events \cap CrashDamage
  BY <1>6 DEF CrashDamage
<1>9. /\ IsPage(page) /\ page.kind = "leaf" /\ page.next = disk[p].next
      /\ DOMAIN page.entries = DOMAIN disk[p].entries \ {k}
      /\ \A x \in DOMAIN page.entries : page.entries[x] = disk[p].entries[x]
      /\ k \notin DOMAIN disk[p].entries => Size(page) = Size(disk[p])
  <2>1. EntryRemoved(disk[p], page, k)
    BY <1>5, DeletedPage, Zenon
  <2> HIDE DEF page
  <2> QED
    BY <2>1 DEF EntryRemoved
<1>10. d2 = [disk EXCEPT ![p] = page]
  OBVIOUS
<1> HIDE DEF page
<1>11. d2[p] = page /\ \A x \in PageIds : x # p => d2[x] = disk[x]
  BY <1>5, <1>10, <1>1 DEF TypedPages
<1>12. TypedPages(d2) /\ NoneDangles(d2, hd)
  BY <1>1, <1>5, <1>9, <1>10, LeafChangedTyped, Zenon
<1>13. \A x \in DOMAIN d2[p].entries : lo[p] <= x /\ x < hi[p]
  BY <1>2, <1>4, <1>9, <1>11 DEF Fits
<1>14. \A q \in T : q # p => d2[q] = disk[q]
  BY <1>3, <1>11
<1>15. d2[p].kind = "leaf" /\ d2[p].next = disk[p].next
  BY <1>9, <1>11
<1>16. TreeOK(d2, root, height, n, T, lo, hi, lev)
  <2>1. TreeOK(disk, root, height, n, T, lo, hi, lev) /\ p \in T /\ lev[p] = 0
    BY <1>1, <1>4
  <2>2. d2[p].kind = "leaf"
    BY <1>15
  <2>3. \A x \in DOMAIN d2[p].entries : lo[p] <= x /\ x < hi[p]
    BY <1>13
  <2> QED
    BY <2>1, <2>2, <2>3, <1>14, LeafRewriteOK, ZenonT(60)
<1>17. HalfSound(d2, root, ev2, T, lev)
  <2> SUFFICES ASSUME ev2 \cap (CrashDamage \cup {"deleted"}) = {}, NEW x \in T, x # root
               PROVE  Size(d2[x]) >= IF lev[x] = 0 THEN Cap \div 2 ELSE (Cap - 1) \div 2
    BY DEF HalfSound, HalfOK
  <2>1. HalfOK(disk, root, T, lev) /\ k \notin DOMAIN disk[p].entries
    BY <1>1, <1>6 DEF HalfSound
  <2>2. Size(d2[x]) = Size(disk[x])
    BY <2>1, <1>9, <1>11, <1>14
  <2> QED
    BY <2>1, <2>2 DEF HalfOK
<1>18. ASSUME "torn" \notin events
       PROVE  /\ ChainOK(disk, n, T, lo, hi, lev, C, rk)
              /\ "undeleted" \notin events => ContentOK(disk, T, lo, hi, lev, C, rk, content)
              /\ events \cap CrashDamage = {} => C \subseteq T
              /\ C \subseteq 1..(n - 1) /\ p \in C
              /\ \/ next = 0 /\ \A q \in C : rk[p] <= rk[q]
                 \/ /\ next \in C /\ rk[next] < rk[p]
                    /\ \A q \in C : rk[q] < rk[p] => rk[q] <= rk[next]
              /\ \A q \in C : rk[q] \in Nat /\ (rk[q] < rk[p] => hi[p] <= lo[q])
              /\ \A q \in C : q \in T => lev[q] = 0
  <2>1. /\ ChainOK(disk, n, T, lo, hi, lev, C, rk)
        /\ "undeleted" \notin events => ContentOK(disk, T, lo, hi, lev, C, rk, content)
        /\ events \cap CrashDamage = {} => C \subseteq T
    BY <1>1, <1>18 DEF ChainSound
  <2>2. /\ C \subseteq 1..(n - 1) /\ p \in C
        /\ \A q \in C : rk[q] \in Nat
        /\ \A q \in C : q \in T => lev[q] = 0
    BY <2>1, <1>4 DEF ChainOK, ChainPages
  <2>3. \A q \in C : rk[q] < rk[p] => hi[p] <= lo[q]
    BY <2>1, <2>2 DEF ChainOK, ChainOrder
  <2>4. \/ next = 0 /\ \A q \in C : rk[p] <= rk[q]
        \/ /\ next \in C /\ rk[next] < rk[p]
           /\ \A q \in C : rk[q] < rk[p] => rk[q] <= rk[next]
    BY <2>1, <2>2 DEF ChainOK, ChainLinks
  <2> HIDE DEF next
  <2> QED
    BY <2>1, <2>2, <2>3, <2>4
<1>19. ASSUME "torn" \notin events, next \in C
       PROVE  Gives(disk, C, rk, next, k, FoundFrom(next, k))
  <2> HIDE DEF next
  <2> QED
    BY <1>1, <1>18, <1>19, FoundFromOK, Zenon
<1> HIDE DEF next, con2
<1>20. ASSUME "torn" \notin events, FoundFrom(next, k) = None
       PROVE  \A q \in C : rk[q] < rk[p] => ~Holds(disk, q, k)
  <2>1. CASE next = 0 /\ \A q \in C : rk[p] <= rk[q]
    BY <2>1, <1>18, <1>20
  <2>2. CASE /\ next \in C /\ rk[next] < rk[p]
             /\ \A q \in C : rk[q] < rk[p] => rk[q] <= rk[next]
    <3>1. Gives(disk, C, rk, next, k, FoundFrom(next, k))
      BY <2>2, <1>19, <1>20
    <3>2. \A q \in C : rk[q] <= rk[next] => ~Holds(disk, q, k)
      BY <3>1, <1>20 DEF Gives
    <3> QED
      BY <2>2, <3>2
  <2> QED
    BY <2>1, <2>2, <1>18, <1>20
<1>21. ASSUME events \cap CrashDamage = {} PROVE FoundFrom(next, k) = None
  <2>1. "torn" \notin events
    BY <1>21 DEF CrashDamage
  <2>2. CASE next = 0
    <3>1. FoundFrom(0, k) = None
      BY <1>1, FoundFromNothing
    <3> QED
      BY <2>2, <3>1
  <2>3. CASE /\ next \in C /\ rk[next] < rk[p]
    <3>1. Gives(disk, C, rk, next, k, FoundFrom(next, k))
      BY <2>1, <2>3, <1>19
    <3>2. \A q \in C : rk[q] <= rk[next] => ~Holds(disk, q, k)
      <4> SUFFICES ASSUME NEW q \in C, rk[q] <= rk[next], Holds(disk, q, k) PROVE FALSE
        OBVIOUS
      <4>1. rk[q] < rk[p] /\ p \in C /\ q \in T /\ lev[q] = 0 /\ hi[p] <= lo[q]
        BY <2>1, <2>3, <1>18, <1>21
      <4>2. lo[q] <= k
        BY <4>1, <1>2 DEF Fits, Holds
      <4>3. lo[q] \in Nat /\ hi[p] \in Nat /\ k \in Nat
        BY <4>1, <1>2, <1>4, TopType DEF Spans
      <4> QED
        BY <4>1, <4>2, <4>3, <1>4
    <3> QED
      BY <3>1, <3>2 DEF Gives
  <2> QED
    BY <2>1, <2>2, <2>3, <1>18
<1>22. ChainSound(d2, n, ev2, con2, T, lo, hi, lev, C, rk)
  <2> SUFFICES ASSUME "torn" \notin events
               PROVE  /\ ChainOK(d2, n, T, lo, hi, lev, C, rk)
                      /\ "undeleted" \notin ev2 => ContentOK(d2, T, lo, hi, lev, C, rk, con2)
                      /\ events \cap CrashDamage = {} => C \subseteq T
    BY <1>7, <1>8 DEF ChainSound
  <2>1. /\ ChainOK(disk, n, T, lo, hi, lev, C, rk)
        /\ "undeleted" \notin events => ContentOK(disk, T, lo, hi, lev, C, rk, content)
        /\ events \cap CrashDamage = {} => C \subseteq T
        /\ C \subseteq 1..(n - 1)
    BY <1>18
  <2>2. SameBut(disk, d2, C, p)
    BY <2>1, <1>3, <1>11 DEF SameBut
  <2>3. ChainOK(d2, n, T, lo, hi, lev, C, rk)
    <3>1. \A x \in DOMAIN d2[p].entries : x < hi[p]
      BY <1>13
    <3> QED
      BY <2>1, <2>2, <3>1, <1>15, ChainRewriteOK, Zenon
  <2>4. ASSUME "undeleted" \notin ev2 PROVE ContentOK(d2, T, lo, hi, lev, C, rk, con2)
    <3>1. KeyRemoved(disk, d2, p, k)
      BY <1>9, <1>11 DEF KeyRemoved
    <3>2. \A q \in C : rk[q] < rk[p] => ~Holds(disk, q, k)
      BY <2>4, <1>6, <1>20
    <3>3. ContentOK(disk, T, lo, hi, lev, C, rk, content)
      BY <2>1, <2>4, <1>6
    <3> QED
      BY <2>1, <2>2, <3>1, <3>2, <3>3, <1>2, <1>4, DeleteContent, ZenonT(60) DEF con2
  <2> QED
    BY <2>1, <2>3, <2>4
<1>23. Sound(d2, root, height, hd, n, ev2, con2, T, lo, hi, lev, C, rk)
  BY <1>1, <1>12, <1>16, <1>17, <1>22 DEF Sound
<1> QED
  BY <1>6, <1>21, <1>23 DEF con2

-----------------------------------------------------------------------------
(* The inductive invariant *)

TreeTypes ==
  /\ root \in 0..LastIndexPage /\ height \in Nat
  /\ hdr.root \in 0..LastIndexPage /\ hdr.height \in Nat
  /\ root = 0 => height = 0
  /\ hdr.root = 0 => hdr.height = 0
  /\ nextPage \in 1..(LastIndexPage + 1)
  /\ content \in [Keys -> Values \cup {None}]
  /\ events \subseteq Events
  /\ op.newRoot \in 0..LastIndexPage
  /\ op = NoOp \/ (op.key \in Keys /\ op.value \in Values /\ op.at \in PageIds)

\* Nothing was ever synced, and nothing is inserted.
Empty ==
  /\ hdr.root = 0
  /\ op = NoOp
  /\ writes = <<>>
  /\ TypedPages(disk)
  /\ NoneDangles(disk, hdr)
  /\ \A k \in Keys : content[k] = None

\* No write is under way; an insert stands at a page that has room for it.
Quiet ==
  /\ writes = <<>>
  /\ Stands(disk, root, height, hdr, nextPage, events, content, op.at, op.key)

\* Page p of disk d was found full below page q, and sibling s handed out.
SplitsChild(d, n, p, s, q, page) ==
  /\ Stands(d, root, height, hdr, n, events, content, q, op.key)
  /\ d[q].kind = "internal" /\ p = ChildOf(d[q], op.key)
  /\ page = Adopting(d[q], Halves(d[p], s).separator, s)
  /\ op.at = (IF op.key >= Halves(d[p], s).separator THEN s ELSE p)
  /\ op.newRoot = 0

\* Root p of disk d was found full, and sibling s and a new root q handed out.
SplitsRoot(d, n, p, s, q, page) ==
  /\ Stands(d, root, height, hdr, n, events, content, 0, op.key)
  /\ p = root
  /\ page = RootOver(p, Halves(d[p], s).separator, s)
  /\ n <= q /\ q < nextPage /\ q # s
  /\ op.at = q /\ op.newRoot = q

SplitFrom(d, n, p, s, q, page) ==
  /\ n \in Nat /\ n <= LastIndexPage + 1
  /\ s \in PageIds /\ q \in PageIds /\ n <= s /\ s < nextPage
  /\ Full(d[p])
  /\ op # NoOp
  /\ SplitsChild(d, n, p, s, q, page) \/ SplitsRoot(d, n, p, s, q, page)

\* How far the writes are.
NoneWritten(d, p, s, q, page) ==
  disk = d /\ writes = <<<<p, Halves(d[p], s).low>>, <<s, Halves(d[p], s).high>>, <<q, page>>>>
OneWritten(d, p, s, q, page) ==
  FirstWrite(d, disk, p, s) /\ writes = <<<<s, Halves(d[p], s).high>>, <<q, page>>>>
TwoWritten(d, p, s, q, page) ==
  /\ \E d1 : FirstWrite(d, d1, p, s) /\ SecondWrite(d, d1, disk, p, s)
  /\ writes = <<<<q, page>>>>

Splitting ==
  \E d, n, p, s, q, page :
    /\ SplitFrom(d, n, p, s, q, page)
    /\ \/ NoneWritten(d, p, s, q, page)
       \/ OneWritten(d, p, s, q, page)
       \/ TwoWritten(d, p, s, q, page)

Excused == "undeleted" \in events => events \cap CrashDamage # {}

TreeInv ==
  /\ TreeTypes
  /\ root = 0 => Empty
  /\ root # 0 => Quiet \/ Splitting
  /\ Excused

LEMMA TreeInitInv == TreeInit => TreeInv
<1> SUFFICES ASSUME TreeInit PROVE TreeInv
  OBVIOUS
<1>1. /\ root = 0 /\ height = 0 /\ hdr = [root |-> 0, height |-> 0] /\ nextPage = 1 /\ op = NoOp
      /\ writes = <<>> /\ content = [k \in Keys |-> None] /\ events = {}
      /\ disk = [p \in PageIds |-> Unwritten]
  BY DEF TreeInit
<1>2. TreeTypes
  BY <1>1, BTreeAssumption DEF TreeTypes, NoOp
<1>3. TypedPages(disk)
  BY <1>1 DEF TypedPages, IsPage
<1>4. NoneDangles(disk, hdr)
  BY <1>1 DEF NoneDangles, Unwritten
<1>5. Empty
  BY <1>1, <1>3, <1>4 DEF Empty
<1> QED
  BY <1>1, <1>2, <1>5 DEF TreeInv, Excused

-----------------------------------------------------------------------------
(* The first key *)

LEMMA FirstLeafSound ==
  ASSUME NEW d, NEW d2, NEW hd, TypedPages(d), NoneDangles(d, hd), hd.root = 0,
         NEW p \in PageIds, NEW k \in Keys, NEW v \in Values, NEW ev, NEW con,
         con \in [Keys -> Values \cup {None}], \A x \in Keys : con[x] = None,
         d2 = [d EXCEPT ![p] = Leaf([x \in {k} |-> v], 0)]
  PROVE  Stands(d2, p, 1, hd, p + 1, ev, [con EXCEPT ![k] = v], 0, k)
<1> DEFINE page == Leaf([x \in {k} |-> v], 0)
           con2 == [con EXCEPT ![k] = v]
           T == {p}
           lo == [x \in T |-> 0]
           hi == [x \in T |-> Top]
           lev == [x \in T |-> 0]
           rk == [x \in T |-> 1]
<1>1. IsPage(page) /\ page.kind = "leaf" /\ page.next = 0
      /\ DOMAIN page.entries = {k} /\ page.entries[k] = v
  <2>1. Cardinality({k}) = 1
    BY FS_Singleton
  <2>2. 0 \in 0..LastIndexPage /\ 1 <= Cap
    BY BTreeAssumption
  <2>3. IsPage(page)
    BY <2>1, <2>2, LeafIsPage
  <2> QED
    BY <2>3 DEF Leaf
<1>2. d2 = [d EXCEPT ![p] = page]
  OBVIOUS
<1> HIDE DEF page
<1>3. d2[p] = page
  BY <1>2 DEF TypedPages
<1>4. hd.root \in 0..LastIndexPage
  BY BTreeAssumption
<1>5. TypedPages(d2) /\ NoneDangles(d2, hd)
  BY <1>1, <1>2, <1>4, LeafChangedTyped, Zenon
<1>6. p \in Nat /\ p > 0 /\ p \in 1..p /\ Top \in Nat /\ Top > 0
      /\ \A x \in Keys : x \in Nat /\ 0 <= x /\ x < Top
  BY BTreeAssumption DEF PageIds, Top, Keys
<1>7. /\ lo[p] = 0 /\ hi[p] = Top /\ lev[p] = 0 /\ rk[p] = 1
      /\ \A x \in T : x = p
      /\ p \in T
  OBVIOUS
<1> HIDE DEF T, lo, hi, lev, rk
<1>8. Rooted(p, p + 1, 1, T, lo, hi, lev)
  BY <1>6, <1>7 DEF Rooted
<1>9. Spans(p + 1, 1, T, lo, hi, lev)
  BY <1>6, <1>7 DEF Spans
<1>10. Kinds(d2, T, lev) /\ AllKids(d2, T, lo, hi, lev) /\ Parented(d2, p, T, lev)
  BY <1>1, <1>3, <1>7 DEF Kinds, AllKids, Parented
<1>11. Nested(T, lo, hi, lev)
  BY <1>7 DEF Nested
<1>12. Cover(T, lo, hi, lev)
  BY <1>6, <1>7 DEF Cover
<1>13. Fits(d2, T, lo, hi, lev)
  BY <1>1, <1>3, <1>6, <1>7 DEF Fits
<1>14. TreeOK(d2, p, 1, p + 1, T, lo, hi, lev)
  BY <1>8, <1>9, <1>10, <1>11, <1>12, <1>13 DEF TreeOK
<1>15. ChainPages(d2, p + 1, T, lo, hi, lev, T, rk)
  BY <1>1, <1>3, <1>6, <1>7 DEF ChainPages
<1>16. ChainOrder(lo, hi, T, rk)
  BY <1>7 DEF ChainOrder
<1>17. ChainLinks(d2, T, rk)
  BY <1>1, <1>3, <1>7 DEF ChainLinks
<1>18. ContentOK(d2, T, lo, hi, lev, T, rk, con2)
  <2> SUFFICES ASSUME NEW x \in Keys
               PROVE  Gives(d2, T, rk, p, x, con2[x])
    BY <1>7 DEF ContentOK
  <2>1. v # None
    BY BTreeAssumption
  <2>2. CASE x = k
    BY <1>1, <1>3, <1>7, <2>1, <2>2 DEF Gives, Holds
  <2>3. CASE x # k
    BY <1>1, <1>3, <1>7, <2>3 DEF Gives, Holds
  <2> QED
    BY <2>2, <2>3
<1> HIDE DEF con2
<1>19. ChainSound(d2, p + 1, ev, con2, T, lo, hi, lev, T, rk)
  BY <1>15, <1>16, <1>17, <1>18 DEF ChainSound, ChainOK
<1>20. HalfSound(d2, p, ev, T, lev)
  BY <1>7 DEF HalfSound, HalfOK
<1>21. HeaderOK(hd, T, lo, lev)
  BY DEF HeaderOK
<1>22. Sound(d2, p, 1, hd, p + 1, ev, con2, T, lo, hi, lev, T, rk)
  BY <1>5, <1>14, <1>19, <1>20, <1>21 DEF Sound
<1>23. Reached(d2, T, lo, hi, 0, k)
  BY DEF Reached
<1> QED
  BY <1>22, <1>23, ItStands, Zenon DEF con2

LEMMA FirstInsertInv ==
  ASSUME TreeInv, NEW k \in Keys, NEW v \in Values, InsertIntoEmptyTree(k, v)
  PROVE  TreeInv'
<1>1. /\ MayUpdate /\ root = 0 /\ nextPage <= LastIndexPage /\ nextPage' = nextPage + 1
      /\ disk' = [disk EXCEPT ![nextPage] = Leaf([x \in {k} |-> v], 0)]
      /\ root' = nextPage /\ height' = 1 /\ content' = [content EXCEPT ![k] = v]
      /\ hdr' = hdr /\ op' = op /\ writes' = writes /\ events' = events
  BY DEF InsertIntoEmptyTree
<1>2. TreeTypes /\ Empty /\ Excused
  BY <1>1 DEF TreeInv
<1>3. /\ hdr.root = 0 /\ hdr.height = 0 /\ op = NoOp /\ writes = <<>>
      /\ TypedPages(disk) /\ NoneDangles(disk, hdr) /\ \A x \in Keys : content[x] = None
      /\ nextPage \in 1..(LastIndexPage + 1) /\ content \in [Keys -> Values \cup {None}]
  BY <1>2 DEF TreeTypes, Empty
<1>4. nextPage \in PageIds /\ nextPage \in Nat /\ nextPage # 0
  BY <1>1, <1>3, BTreeAssumption DEF PageIds
<1>5. TreeTypes'
  BY <1>1, <1>2, <1>3, <1>4, BTreeAssumption DEF TreeTypes, PageIds, NoOp
<1>6. Stands(disk', nextPage, 1, hdr, nextPage + 1, events, content', 0, k)
  BY <1>1, <1>3, <1>4, FirstLeafSound, Zenon
<1>7. Stands(disk', nextPage, 1, hdr, nextPage + 1, events, content', 0, 0)
  BY <1>6 DEF Stands, Reached
<1>8. op.at = 0 /\ op.key = 0
  BY <1>3 DEF NoOp
<1>9. Quiet'
  BY <1>1, <1>3, <1>7, <1>8 DEF Quiet
<1> QED
  BY <1>1, <1>2, <1>4, <1>5, <1>9 DEF TreeInv, Excused

-----------------------------------------------------------------------------
(* Descents and splits *)

\* Disk d has a sound tree from which the header, the events and the content
\* have not changed, and page p is in it.
KnownPage(d, n, p) ==
  \E T, lo, hi, lev, C, rk :
    /\ Sound(d, root, height, hdr, n, events, content, T, lo, hi, lev, C, rk)
    /\ p \in T

\* What the insert found below the page it stands at.
LEMMA ChildKnown ==
  ASSUME NEW d, NEW r, NEW h, NEW hd, NEW n \in Nat, NEW ev, NEW con, n <= LastIndexPage + 1,
         NEW T, NEW lo, NEW hi, NEW lev, NEW C, NEW rk,
         Sound(d, r, h, hd, n, ev, con, T, lo, hi, lev, C, rk),
         NEW q \in T, NEW k \in Keys, lo[q] <= k, k < hi[q], d[q].kind = "internal"
  PROVE  /\ ChildOf(d[q], k) \in T
         /\ lo[ChildOf(d[q], k)] <= k /\ k < hi[ChildOf(d[q], k)]
<1>1. /\ TypedPages(d) /\ Spans(n, h, T, lo, hi, lev) /\ Kinds(d, T, lev)
      /\ AllKids(d, T, lo, hi, lev)
  BY DEF Sound, TreeOK
<1>2. lev[q] # 0
  BY <1>1 DEF Kinds
<1> QED
  BY <1>1, <1>2, ChildStep

LEMMA InTree ==
  ASSUME NEW d, NEW r, NEW h, NEW hd, NEW n \in Nat, NEW ev, NEW con, n <= LastIndexPage + 1,
         NEW T, NEW lo, NEW hi, NEW lev, NEW C, NEW rk,
         Sound(d, r, h, hd, n, ev, con, T, lo, hi, lev, C, rk)
  PROVE  /\ T \subseteq PageIds /\ T \subseteq 1..(n - 1) /\ r \in T
         /\ \A p \in T : IsPage(d[p]) /\ (d[p].kind = "leaf" \/ d[p].kind = "internal")
<1>1. /\ TypedPages(d) /\ Spans(n, h, T, lo, hi, lev) /\ Kinds(d, T, lev)
      /\ Rooted(r, n, h, T, lo, hi, lev)
  BY DEF Sound, TreeOK
<1>2. T \subseteq 1..(n - 1) /\ r \in T
  BY <1>1 DEF Spans, Rooted
<1>3. T \subseteq PageIds
  BY <1>2, BTreeAssumption DEF PageIds
<1> QED
  BY <1>1, <1>2, <1>3 DEF TypedPages, Kinds

LEMMA SplitKnown ==
  ASSUME TreeTypes, NEW d, NEW n, NEW p, NEW s, NEW q, NEW page,
         SplitFrom(d, n, p, s, q, page)
  PROVE  /\ KnownPage(d, n, p) /\ p \in PageIds
         /\ IsPage(Halves(d[p], s).low) /\ IsPage(Halves(d[p], s).high) /\ IsPage(page)
<1> DEFINE sep == Halves(d[p], s).separator
<1>1. /\ n \in Nat /\ n <= LastIndexPage + 1 /\ s \in PageIds /\ q \in PageIds
      /\ Full(d[p]) /\ op # NoOp /\ q # 0
  BY DEF SplitFrom, PageIds
<1>2. op.key \in Keys /\ hdr.root \in 0..LastIndexPage
  BY <1>1 DEF TreeTypes
<1>3. ASSUME NEW T, NEW lo, NEW hi, NEW lev, NEW C, NEW rk,
             Sound(d, root, height, hdr, n, events, content, T, lo, hi, lev, C, rk), p \in T
      PROVE  /\ KnownPage(d, n, p) /\ p \in PageIds
             /\ IsPage(Halves(d[p], s).low) /\ IsPage(Halves(d[p], s).high)
             /\ sep \in Keys /\ sep > 0
  <2>1. KnownPage(d, n, p)
    BY <1>3, Zenon DEF KnownPage
  <2>2. p \in PageIds
    BY <1>1, <1>3, InTree, Zenon
  <2>3. TypedPages(d) /\ TreeOK(d, root, height, n, T, lo, hi, lev)
    BY <1>3 DEF Sound
  <2>4. SeparatorIn(d, lo, hi, lev, p, s)
    BY <1>1, <1>3, <2>3, SeparatorFacts, Zenon
  <2> QED
    BY <2>1, <2>2, <2>4 DEF SeparatorIn
<1>4. CASE SplitsChild(d, n, p, s, q, page)
  <2>1. /\ Stands(d, root, height, hdr, n, events, content, q, op.key)
        /\ d[q].kind = "internal" /\ p = ChildOf(d[q], op.key)
        /\ page = Adopting(d[q], sep, s)
    BY <1>4 DEF SplitsChild
  <2>2. PICK T, lo, hi, lev, C, rk :
          /\ Sound(d, root, height, hdr, n, events, content, T, lo, hi, lev, C, rk)
          /\ Reached(d, T, lo, hi, q, op.key)
    BY <2>1 DEF Stands
  <2>3. q \in T /\ lo[q] <= op.key /\ op.key < hi[q] /\ ~Full(d[q])
    BY <1>1, <2>2 DEF Reached
  <2>4. p \in T
    BY <1>1, <1>2, <2>1, <2>2, <2>3, ChildKnown, Zenon
  <2>5. IsPage(d[q])
    BY <1>1, <2>2, <2>3, InTree, Zenon
  <2>6. sep \in Keys
    BY <1>3, <2>2, <2>4
  <2> HIDE DEF sep
  <2>7. IsPage(page)
    BY <1>1, <2>1, <2>3, <2>5, <2>6, AdoptingFacts
  <2> QED
    BY <1>3, <2>2, <2>4, <2>7
<1>5. CASE SplitsRoot(d, n, p, s, q, page)
  <2>1. /\ Stands(d, root, height, hdr, n, events, content, 0, op.key)
        /\ p = root /\ page = RootOver(p, sep, s)
    BY <1>5 DEF SplitsRoot
  <2>2. PICK T, lo, hi, lev, C, rk :
          Sound(d, root, height, hdr, n, events, content, T, lo, hi, lev, C, rk)
    BY <2>1 DEF Stands
  <2>3. p \in T
    BY <1>1, <2>1, <2>2, InTree, Zenon
  <2>4. sep \in Keys /\ sep > 0 /\ p \in PageIds
    BY <1>3, <2>2, <2>3
  <2> HIDE DEF sep
  <2>5. IsPage(page)
    BY <1>1, <2>1, <2>4, RootOverFacts
  <2> QED
    BY <1>3, <2>2, <2>3, <2>5
<1> QED
  BY <1>4, <1>5 DEF SplitFrom

\* Which part of the invariant holds.
LEMMA WhichPart ==
  ASSUME TreeInv
  PROVE  /\ TreeTypes /\ Excused
         /\ op # NoOp => root # 0
         /\ root # 0 /\ (op = NoOp \/ writes = <<>>) => Quiet
         /\ writes # <<>> => Splitting
<1>1. TreeTypes /\ Excused /\ (root = 0 => Empty) /\ (root # 0 => Quiet \/ Splitting)
  BY DEF TreeInv
<1>2. Splitting => writes # <<>> /\ op # NoOp
  BY DEF Splitting, SplitFrom, NoneWritten, OneWritten, TwoWritten
<1>3. Quiet => writes = <<>>
  BY DEF Quiet
<1>4. Empty => writes = <<>> /\ op = NoOp
  BY DEF Empty
<1> QED
  BY <1>1, <1>2, <1>3, <1>4

LEMMA SplitRootInv ==
  ASSUME TreeInv, NEW k \in Keys, NEW v \in Values, SplitRoot(k, v)
  PROVE  TreeInv'
<1> PICK d, n, p, s, q, page :
      /\ d = disk /\ n = nextPage /\ p = root /\ s = nextPage + 1 /\ q = nextPage
      /\ page = RootOver(root, Halves(disk[root], nextPage + 1).separator, nextPage + 1)
  OBVIOUS
<1>1. /\ op = NoOp /\ root # 0 /\ Full(d[p]) /\ s <= LastIndexPage
      /\ nextPage' = nextPage + 2
      /\ writes' = <<<<p, Halves(d[p], s).low>>, <<s, Halves(d[p], s).high>>, <<q, page>>>>
      /\ op' = [key |-> k, value |-> v, at |-> q, newRoot |-> q]
      /\ disk' = disk /\ root' = root /\ height' = height /\ hdr' = hdr
      /\ content' = content /\ events' = events
  BY DEF SplitRoot, MayUpdate, Idle, Working
<1>2. TreeTypes /\ Excused /\ Quiet
  BY <1>1, WhichPart
<1>3. nextPage \in Nat /\ nextPage >= 1 /\ LastIndexPage \in Nat
  BY <1>2, BTreeAssumption DEF TreeTypes
<1>4. s \in PageIds /\ q \in PageIds /\ n \in Nat /\ n <= LastIndexPage + 1
  BY <1>1, <1>3 DEF PageIds
<1>5. TreeTypes'
  BY <1>1, <1>2, <1>3, <1>4 DEF TreeTypes, PageIds
<1>6. Stands(d, root, height, hdr, n, events, content, 0, k)
  <2>1. Stands(d, root, height, hdr, n, events, content, 0, op.key)
    BY <1>1, <1>2 DEF Quiet, NoOp
  <2> QED
    BY <2>1 DEF Stands, Reached
<1>7. op' # NoOp
  BY <1>1, <1>4 DEF NoOp, PageIds
<1>8. SplitsRoot(d, n, p, s, q, page)'
  BY <1>1, <1>3, <1>6 DEF SplitsRoot
<1>9. SplitFrom(d, n, p, s, q, page)'
  BY <1>1, <1>3, <1>4, <1>7, <1>8 DEF SplitFrom
<1>10. NoneWritten(d, p, s, q, page)'
  BY <1>1 DEF NoneWritten
<1>11. Splitting'
  BY <1>9, <1>10, Zenon DEF Splitting
<1> QED
  BY <1>1, <1>2, <1>5, <1>11 DEF TreeInv, Excused

LEMMA StartAtRootInv ==
  ASSUME TreeInv, NEW k \in Keys, NEW v \in Values, StartAtRoot(k, v)
  PROVE  TreeInv'
<1>1. /\ op = NoOp /\ root # 0 /\ ~Full(disk[root])
      /\ op' = [key |-> k, value |-> v, at |-> root, newRoot |-> 0]
      /\ disk' = disk /\ root' = root /\ height' = height /\ hdr' = hdr /\ nextPage' = nextPage
      /\ writes' = writes /\ content' = content /\ events' = events
  BY DEF StartAtRoot, MayUpdate, Idle, Working
<1>2. TreeTypes /\ Excused /\ Quiet
  BY <1>1, WhichPart
<1>3. TreeTypes'
  BY <1>1, <1>2, BTreeAssumption DEF TreeTypes, PageIds
<1>4. Stands(disk, root, height, hdr, nextPage, events, content, root, k)
  <2>1. Stands(disk, root, height, hdr, nextPage, events, content, 0, op.key)
    BY <1>1, <1>2 DEF Quiet, NoOp
  <2>2. PICK T, lo, hi, lev, C, rk :
          Sound(disk, root, height, hdr, nextPage, events, content, T, lo, hi, lev, C, rk)
    BY <2>1 DEF Stands
  <2>3. root \in T /\ lo[root] = 0 /\ hi[root] = Top
    BY <2>2 DEF Sound, TreeOK, Rooted
  <2>4. Reached(disk, T, lo, hi, root, k)
    BY <1>1, <2>3, TopType DEF Reached
  <2> QED
    BY <2>2, <2>4, ItStands, Zenon
<1>5. op'.at = root /\ op'.key = k
  BY <1>1
<1>6. Quiet'
  BY <1>1, <1>2, <1>4, <1>5 DEF Quiet
<1> QED
  BY <1>1, <1>2, <1>3, <1>6 DEF TreeInv, Excused

\* Where an insert below an internal page stands.
LEMMA StandsAtChild ==
  ASSUME TreeInv, Descending
  PROVE  /\ TreeTypes /\ Excused /\ Quiet /\ root # 0
         /\ op.key \in Keys /\ op.at \in PageIds /\ op.value \in Values
         /\ nextPage \in Nat /\ nextPage >= 1 /\ nextPage <= LastIndexPage + 1
         /\ \E T, lo, hi, lev, C, rk :
              /\ Sound(disk, root, height, hdr, nextPage, events, content, T, lo, hi, lev, C, rk)
              /\ ChildAt \in T /\ ChildAt \in PageIds
              /\ lo[ChildAt] <= op.key /\ op.key < hi[ChildAt]
<1>1. op # NoOp /\ writes = <<>> /\ disk[op.at].kind = "internal"
  BY DEF Descending, Idle, At
<1>2. TreeTypes /\ Excused /\ Quiet /\ root # 0
  BY <1>1, WhichPart
<1>3. /\ op.key \in Keys /\ op.at \in PageIds /\ op.value \in Values /\ op.at # 0
      /\ nextPage \in Nat /\ nextPage >= 1 /\ nextPage <= LastIndexPage + 1
  BY <1>1, <1>2, BTreeAssumption DEF TreeTypes, PageIds
<1>4. PICK T, lo, hi, lev, C, rk :
        /\ Sound(disk, root, height, hdr, nextPage, events, content, T, lo, hi, lev, C, rk)
        /\ Reached(disk, T, lo, hi, op.at, op.key)
  BY <1>2 DEF Quiet, Stands
<1>5. op.at \in T /\ lo[op.at] <= op.key /\ op.key < hi[op.at]
  BY <1>3, <1>4 DEF Reached
<1>6. ChildAt \in T /\ lo[ChildAt] <= op.key /\ op.key < hi[ChildAt]
  <2>1. ChildAt = ChildOf(disk[op.at], op.key)
    BY DEF ChildAt, At
  <2> QED
    BY <1>1, <1>3, <1>4, <1>5, <2>1, ChildKnown
<1>7. ChildAt \in PageIds
  BY <1>3, <1>4, <1>6, InTree, Zenon
<1> QED
  BY <1>2, <1>3, <1>4, <1>6, <1>7

LEMMA DescendInv ==
  ASSUME TreeInv, Descend
  PROVE  TreeInv'
<1> PICK c : c = ChildAt
  OBVIOUS
<1>1. /\ Descending /\ ~Full(disk[c])
      /\ op' = [key |-> op.key, value |-> op.value, at |-> c, newRoot |-> 0]
      /\ disk' = disk /\ root' = root /\ height' = height /\ hdr' = hdr /\ nextPage' = nextPage
      /\ writes' = writes /\ content' = content /\ events' = events
  BY DEF Descend, Working
<1>2. /\ TreeTypes /\ Excused /\ Quiet /\ root # 0
      /\ op.key \in Keys /\ op.at \in PageIds /\ op.value \in Values
  BY <1>1, StandsAtChild
<1>3. PICK T, lo, hi, lev, C, rk :
        /\ Sound(disk, root, height, hdr, nextPage, events, content, T, lo, hi, lev, C, rk)
        /\ c \in T /\ c \in PageIds /\ lo[c] <= op.key /\ op.key < hi[c]
  BY <1>1, StandsAtChild
<1>4. TreeTypes'
  BY <1>1, <1>2, <1>3, BTreeAssumption DEF TreeTypes
<1>5. Reached(disk, T, lo, hi, c, op.key)
  BY <1>1, <1>3 DEF Reached
<1>6. Stands(disk, root, height, hdr, nextPage, events, content, c, op.key)
  BY <1>3, <1>5, ItStands, Zenon
<1>7. op'.at = c /\ op'.key = op.key
  BY <1>1
<1>8. Quiet'
  BY <1>1, <1>2, <1>6, <1>7 DEF Quiet
<1> QED
  BY <1>1, <1>2, <1>4, <1>8 DEF TreeInv, Excused

LEMMA SplitChildInv ==
  ASSUME TreeInv, SplitChild
  PROVE  TreeInv'
<1> PICK d, n, p, s, q, page, sep, key :
      /\ d = disk /\ n = nextPage /\ p = ChildAt /\ s = nextPage /\ q = op.at
      /\ sep = Halves(d[p], s).separator
      /\ page = Adopting(d[q], sep, s) /\ key = op.key
  OBVIOUS
<1>1. /\ Descending /\ Full(d[p]) /\ s <= LastIndexPage
      /\ nextPage' = nextPage + 1
      /\ writes' = <<<<p, Halves(d[p], s).low>>, <<s, Halves(d[p], s).high>>, <<q, page>>>>
      /\ op' = [key |-> key, value |-> op.value, at |-> IF key >= sep THEN s ELSE p, newRoot |-> 0]
      /\ disk' = disk /\ root' = root /\ height' = height /\ hdr' = hdr
      /\ content' = content /\ events' = events
  BY DEF SplitChild, Working, At
<1>2. /\ TreeTypes /\ Excused /\ Quiet /\ root # 0
      /\ key \in Keys /\ q \in PageIds /\ op.value \in Values
      /\ nextPage \in Nat /\ nextPage >= 1 /\ nextPage <= LastIndexPage + 1
  BY <1>1, StandsAtChild
<1>3. p \in PageIds
  BY <1>1, StandsAtChild
<1>4. /\ s \in PageIds /\ n \in Nat /\ n <= LastIndexPage + 1 /\ n <= s /\ s < nextPage'
      /\ LastIndexPage \in Nat /\ 0 \notin PageIds
  BY <1>1, <1>2, BTreeAssumption DEF PageIds
<1>5. /\ op'.key = key /\ op'.value = op.value /\ op'.newRoot = 0
      /\ op'.at = (IF key >= sep THEN s ELSE p) /\ op'.at \in PageIds
  BY <1>1, <1>3, <1>4
<1>6. TreeTypes'
  BY <1>1, <1>2, <1>4, <1>5 DEF TreeTypes
<1>7. op' # NoOp
  BY <1>4, <1>5 DEF NoOp
<1>8. Stands(d, root, height, hdr, n, events, content, q, key)
  BY <1>2 DEF Quiet
<1>9. d[q].kind = "internal" /\ p = ChildOf(d[q], key)
  BY <1>1 DEF Descending, At, ChildAt
<1>10. SplitsChild(d, n, p, s, q, page)'
  BY <1>1, <1>5, <1>8, <1>9 DEF SplitsChild
<1>11. SplitFrom(d, n, p, s, q, page)'
  BY <1>1, <1>2, <1>4, <1>7, <1>10 DEF SplitFrom
<1>12. NoneWritten(d, p, s, q, page)'
  BY <1>1 DEF NoneWritten
<1>13. Splitting'
  BY <1>11, <1>12, Zenon DEF Splitting
<1> QED
  BY <1>1, <1>2, <1>6, <1>13 DEF TreeInv, Excused

LEMMA Heads ==
  ASSUME NEW a, NEW b, NEW c
  PROVE  /\ Head(<<a>>) = a /\ Tail(<<a>>) = <<>>
         /\ Head(<<a, b>>) = a /\ Tail(<<a, b>>) = <<b>>
         /\ Head(<<a, b, c>>) = a /\ Tail(<<a, b, c>>) = <<b, c>>
OBVIOUS

LEMMA WritePageStep ==
  ASSUME WritePage, NEW x, NEW page, Head(writes) = <<x, page>>
  PROVE  disk' = [disk EXCEPT ![x] = page] /\ writes' = Tail(writes)
<1>1. Head(writes)[1] = x /\ Head(writes)[2] = page
  OBVIOUS
<1> QED
  BY <1>1 DEF WritePage

\* After the last write the insert stands below the split.
LEMMA LastWriteInv ==
  ASSUME TreeInv, WritePage, NEW d, NEW n, NEW p, NEW s, NEW q, NEW page,
         SplitFrom(d, n, p, s, q, page), TwoWritten(d, p, s, q, page)
  PROVE  TreeInv'
<1> PICK sep, key : sep = Halves(d[p], s).separator /\ key = op.key
  OBVIOUS
<1>1. /\ n \in Nat /\ n <= LastIndexPage + 1 /\ s \in PageIds /\ q \in PageIds
      /\ n <= s /\ s < nextPage /\ Full(d[p]) /\ op # NoOp /\ q # 0
  BY DEF SplitFrom, PageIds
<1>2. writes = <<<<q, page>>>>
  BY DEF TwoWritten
<1>3. /\ disk' = [disk EXCEPT ![q] = page] /\ writes' = <<>>
      /\ op.newRoot # 0 => root' = op.newRoot /\ height' = height + 1
      /\ op.newRoot = 0 => root' = root /\ height' = height
      /\ hdr' = hdr /\ nextPage' = nextPage /\ op' = op /\ content' = content /\ events' = events
  <2>1. Head(writes) = <<q, page>> /\ Tail(writes) = <<>>
    BY <1>2, Heads
  <2>2. disk' = [disk EXCEPT ![q] = page] /\ writes' = <<>>
    BY <2>1, WritePageStep
  <2> QED
    BY <2>2 DEF WritePage
<1>4. TreeTypes /\ Excused /\ root # 0
  BY <1>1, WhichPart
<1>5. /\ key \in Keys /\ hdr.root \in 0..LastIndexPage /\ nextPage \in Nat
  BY <1>1, <1>4, BTreeAssumption DEF TreeTypes
<1>6. PICK d1 : FirstWrite(d, d1, p, s) /\ SecondWrite(d, d1, disk, p, s)
  BY DEF TwoWritten
<1>7. ThirdWrite(disk, disk', q, page)
  BY <1>3 DEF ThirdWrite
<1>8. CASE SplitsChild(d, n, p, s, q, page)
  <2>1. /\ Stands(d, root, height, hdr, n, events, content, q, key)
        /\ d[q].kind = "internal" /\ p = ChildOf(d[q], key)
        /\ page = Adopting(d[q], sep, s)
        /\ op.at = (IF key >= sep THEN s ELSE p) /\ op.newRoot = 0
    BY <1>8 DEF SplitsChild
  <2>2. PICK T, lo, hi, lev, C, rk :
          /\ Sound(d, root, height, hdr, n, events, content, T, lo, hi, lev, C, rk)
          /\ Reached(d, T, lo, hi, q, key)
    BY <2>1 DEF Stands
  <2>3. q \in T /\ lo[q] <= key /\ key < hi[q] /\ ~Full(d[q])
    BY <1>1, <2>2 DEF Reached
  <2>4. ThirdWrite(disk, disk', q, Adopting(d[q], sep, s))
    BY <1>7, <2>1
  <2>5. Stands(disk', root, height, hdr, nextPage, events, content, op.at, key)
    <3>1. FullBelow(d, q, key, p) /\ SeparatorOf(d, p, s, sep) /\ HalfOf(key, sep, p, s, op.at)
      BY <1>1, <2>1, <2>3 DEF FullBelow, SeparatorOf, HalfOf
    <3> QED
      BY <1>1, <1>5, <1>6, <2>2, <2>3, <2>4, <3>1, ChildSplitStands, ZenonT(60)
  <2>6. Stands(disk', root, height, hdr, nextPage, events, content, op.at, op.key)
    BY <2>1, <2>5
  <2>7. Quiet'
    BY <1>3, <2>1, <2>6 DEF Quiet
  <2>8. TreeTypes'
    BY <1>3, <1>4, <2>1 DEF TreeTypes
  <2> QED
    BY <1>3, <1>4, <2>1, <2>7, <2>8 DEF TreeInv, Excused
<1>9. CASE SplitsRoot(d, n, p, s, q, page)
  <2>1. /\ Stands(d, root, height, hdr, n, events, content, 0, key)
        /\ p = root /\ page = RootOver(p, sep, s)
        /\ n <= q /\ q < nextPage /\ q # s
        /\ op.at = q /\ op.newRoot = q
    BY <1>9 DEF SplitsRoot
  <2>2. PICK T, lo, hi, lev, C, rk :
          Sound(d, p, height, hdr, n, events, content, T, lo, hi, lev, C, rk)
    BY <2>1 DEF Stands
  <2>3. ThirdWrite(disk, disk', q, RootOver(p, sep, s))
    BY <1>7, <2>1
  <2>4. Stands(disk', q, height + 1, hdr, nextPage, events, content, q, key)
    BY <1>1, <1>5, <1>6, <2>1, <2>2, <2>3, RootSplitStands, ZenonT(60)
  <2>5. Quiet'
    BY <1>1, <1>3, <2>1, <2>4 DEF Quiet
  <2>6. TreeTypes'
    BY <1>1, <1>3, <1>4, <2>1, BTreeAssumption DEF TreeTypes, PageIds
  <2> QED
    BY <1>1, <1>3, <1>4, <2>1, <2>5, <2>6 DEF TreeInv, Excused
<1> QED
  BY <1>8, <1>9 DEF SplitFrom

LEMMA WritePageInv ==
  ASSUME TreeInv, WritePage
  PROVE  TreeInv'
<1>1. writes # <<>>
  BY DEF WritePage
<1>2. TreeTypes /\ Excused /\ Splitting
  BY <1>1, WhichPart
<1>3. PICK d, n, p, s, q, page :
        /\ SplitFrom(d, n, p, s, q, page)
        /\ \/ NoneWritten(d, p, s, q, page)
           \/ OneWritten(d, p, s, q, page)
           \/ TwoWritten(d, p, s, q, page)
  BY <1>2 DEF Splitting
<1>4. ASSUME writes' # <<>> PROVE TreeTypes' /\ Excused' /\ SplitFrom(d, n, p, s, q, page)'
                                  /\ root' = root
  <2>1. /\ root' = root /\ height' = height /\ hdr' = hdr /\ nextPage' = nextPage /\ op' = op
        /\ content' = content /\ events' = events
    BY <1>4 DEF WritePage
  <2> QED
    BY <1>2, <1>3, <2>1 DEF TreeTypes, Excused, SplitFrom, SplitsChild, SplitsRoot
<1>5. CASE NoneWritten(d, p, s, q, page)
  <2>1. disk = d /\ writes = <<<<p, Halves(d[p], s).low>>, <<s, Halves(d[p], s).high>>, <<q, page>>>>
    BY <1>5 DEF NoneWritten
  <2>2. /\ disk' = [d EXCEPT ![p] = Halves(d[p], s).low]
        /\ writes' = <<<<s, Halves(d[p], s).high>>, <<q, page>>>>
    BY <2>1, Heads, WritePageStep
  <2>3. writes' # <<>>
    BY <2>2
  <2>4. OneWritten(d, p, s, q, page)'
    BY <2>2 DEF OneWritten, FirstWrite
  <2>5. Splitting'
    BY <1>4, <2>3, <2>4, Zenon DEF Splitting
  <2>6. root # 0
    BY <1>3, WhichPart DEF SplitFrom
  <2> QED
    BY <1>4, <2>3, <2>5, <2>6 DEF TreeInv
<1>6. CASE OneWritten(d, p, s, q, page)
  <2>1. /\ FirstWrite(d, disk, p, s)
        /\ writes = <<<<s, Halves(d[p], s).high>>, <<q, page>>>>
    BY <1>6 DEF OneWritten
  <2>2. /\ disk' = [disk EXCEPT ![s] = Halves(d[p], s).high]
        /\ writes' = <<<<q, page>>>>
    BY <2>1, Heads, WritePageStep
  <2>3. writes' # <<>>
    BY <2>2
  <2>4. TwoWritten(d, p, s, q, page)'
    BY <2>1, <2>2 DEF TwoWritten, SecondWrite, FirstWrite
  <2>5. Splitting'
    BY <1>4, <2>3, <2>4, Zenon DEF Splitting
  <2>6. root # 0
    BY <1>3, WhichPart DEF SplitFrom
  <2> QED
    BY <1>4, <2>3, <2>5, <2>6 DEF TreeInv
<1>7. CASE TwoWritten(d, p, s, q, page)
  BY <1>3, <1>7, LastWriteInv, Zenon
<1> QED
  BY <1>3, <1>5, <1>6, <1>7

-----------------------------------------------------------------------------
(* Leaves, the header, crashes *)

LEMMA InsertIntoLeafInv ==
  ASSUME TreeInv, InsertIntoLeaf
  PROVE  TreeInv'
<1> PICK p, k, v : p = op.at /\ k = op.key /\ v = op.value
  OBVIOUS
<1>1. /\ op # NoOp /\ writes = <<>> /\ disk[p].kind = "leaf"
      /\ disk' = [disk EXCEPT ![p].entries =
                    [x \in DOMAIN disk[p].entries \cup {k} |->
                       IF x = k THEN v ELSE disk[p].entries[x]]]
      /\ content' = [content EXCEPT ![k] = v] /\ op' = NoOp
      /\ root' = root /\ height' = height /\ hdr' = hdr /\ nextPage' = nextPage
      /\ writes' = writes /\ events' = events
  BY DEF InsertIntoLeaf, Idle, At, IsLeaf, KeysOf
<1>2. TreeTypes /\ Excused /\ Quiet /\ root # 0
  BY <1>1, WhichPart
<1>3. /\ k \in Keys /\ v \in Values /\ p \in PageIds /\ p # 0
      /\ nextPage \in Nat /\ nextPage <= LastIndexPage + 1
      /\ hdr.root \in 0..LastIndexPage /\ content \in [Keys -> Values \cup {None}]
  BY <1>1, <1>2, BTreeAssumption DEF TreeTypes, PageIds
<1>4. disk' = [disk EXCEPT ![p] = PutEntry(disk[p], k, v)]
  BY <1>1 DEF PutEntry
<1>5. PICK T, lo, hi, lev, C, rk :
        /\ Sound(disk, root, height, hdr, nextPage, events, content, T, lo, hi, lev, C, rk)
        /\ Reached(disk, T, lo, hi, p, k)
  BY <1>2 DEF Quiet, Stands
<1>6. p \in T /\ lo[p] <= k /\ k < hi[p] /\ ~Full(disk[p])
  BY <1>3, <1>5 DEF Reached
<1>7. Sound(disk', root, height, hdr, nextPage, events, [content EXCEPT ![k] = v],
            T, lo, hi, lev, C, rk)
  <2>1. disk[p].kind = "leaf"
    BY <1>1
  <2> QED
    BY <1>3, <1>4, <1>5, <1>6, <2>1, InsertSound, ZenonT(60)
<1>8. Sound(disk', root, height, hdr, nextPage, events, content', T, lo, hi, lev, C, rk)
  BY <1>1, <1>7
<1>9. Reached(disk', T, lo, hi, 0, 0)
  BY DEF Reached
<1>10. Stands(disk', root, height, hdr, nextPage, events, content', 0, 0)
  BY <1>8, <1>9, ItStands, Zenon
<1>11. op'.at = 0 /\ op'.key = 0 /\ op'.newRoot = 0
  BY <1>1 DEF NoOp
<1>12. Quiet'
  BY <1>1, <1>10, <1>11 DEF Quiet
<1>13. TreeTypes'
  <2>1. content' \in [Keys -> Values \cup {None}]
    BY <1>1, <1>3
  <2> QED
    BY <1>1, <1>2, <1>11, <2>1, BTreeAssumption DEF TreeTypes
<1> QED
  BY <1>1, <1>2, <1>12, <1>13 DEF TreeInv, Excused

LEMMA DeleteInv ==
  ASSUME TreeInv, NEW k \in Keys, Delete(k)
  PROVE  TreeInv'
<1> PICK p : p = FindLeaf(k)
  OBVIOUS
<1>1. /\ op = NoOp /\ p # 0
      /\ disk' = [disk EXCEPT ![p].entries = Restrict(disk[p].entries, DOMAIN disk[p].entries \ {k})]
      /\ content' = [content EXCEPT ![k] = None]
      /\ events' = events \cup If(k \in KeysOf(p), "deleted")
                          \cup If(FoundFrom(disk[p].next, k) # None, "undeleted")
      /\ op' = op /\ root' = root /\ height' = height /\ hdr' = hdr /\ nextPage' = nextPage
      /\ writes' = writes
  BY DEF Delete, MayUpdate, Idle, KeysOf
<1>2. TreeTypes /\ Excused
  BY WhichPart
<1>3. /\ nextPage \in Nat /\ nextPage <= LastIndexPage + 1
      /\ root \in 0..LastIndexPage /\ hdr.root \in 0..LastIndexPage
      /\ content \in [Keys -> Values \cup {None}] /\ nextPage <= nextPage
  BY <1>2, BTreeAssumption DEF TreeTypes
<1>4. root # 0
  <2> SUFFICES ASSUME root = 0 PROVE FALSE
    OBVIOUS
  <2>1. TypedPages(disk)
    BY DEF TreeInv, Empty
  <2> QED
    BY <1>1, <1>3, <2>1, FindLeafInEmpty
<1>5. Quiet
  BY <1>1, <1>4, WhichPart
<1>6. PICK T, lo, hi, lev, C, rk :
        Sound(disk, root, height, hdr, nextPage, events, content, T, lo, hi, lev, C, rk)
  BY <1>5 DEF Quiet, Stands
<1>7. disk' = [disk EXCEPT ![p] = RemoveEntry(disk[p], k)]
  BY <1>1 DEF RemoveEntry
<1>8. /\ Sound(disk', root, height, hdr, nextPage, events', [content EXCEPT ![k] = None],
               T, lo, hi, lev, C, rk)
      /\ "undeleted" \in events' /\ "undeleted" \notin events => events \cap CrashDamage # {}
  BY <1>1, <1>3, <1>6, <1>7, DeleteSound, ZenonT(60)
<1>9. Sound(disk', root, height, hdr, nextPage, events', content', T, lo, hi, lev, C, rk)
  BY <1>1, <1>8
<1>10. Reached(disk', T, lo, hi, 0, 0)
  BY DEF Reached
<1>11. Stands(disk', root, height, hdr, nextPage, events', content', 0, 0)
  BY <1>9, <1>10, ItStands, Zenon
<1>12. op'.at = 0 /\ op'.key = 0
  BY <1>1 DEF NoOp
<1>13. Quiet'
  BY <1>1, <1>5, <1>11, <1>12 DEF Quiet
<1>14. Excused'
  <2>1. events \subseteq events'
    BY <1>1
  <2> QED
    BY <1>2, <1>8, <2>1 DEF Excused
<1>15. TreeTypes'
  <2>1. content' \in [Keys -> Values \cup {None}]
    BY <1>1, <1>3
  <2>2. events' \subseteq Events
    BY <1>1, <1>2 DEF TreeTypes, If, Events
  <2> QED
    BY <1>1, <1>2, <2>1, <2>2 DEF TreeTypes
<1> QED
  BY <1>1, <1>4, <1>13, <1>14, <1>15 DEF TreeInv

LEMMA SyncRootInv ==
  ASSUME TreeInv, SyncRoot
  PROVE  TreeInv'
<1>1. /\ op = NoOp /\ hdr' = [root |-> root, height |-> height]
      /\ disk' = disk /\ root' = root /\ height' = height /\ nextPage' = nextPage /\ op' = op
      /\ writes' = writes /\ content' = content /\ events' = events
  BY DEF SyncRoot, Idle
<1> PICK hd : hd = hdr'
  OBVIOUS
<1>2. hd.root = root /\ hd.height = height /\ hdr' = hd
  BY <1>1
<1>3. TreeTypes /\ Excused
  BY WhichPart
<1>4. TreeTypes'
  BY <1>1, <1>2, <1>3 DEF TreeTypes
<1>5. CASE root = 0
  <2>1. Empty
    BY <1>5 DEF TreeInv
  <2>2. NoneDangles(disk, hd)
    BY <1>2, <1>5, <2>1 DEF Empty, NoneDangles
  <2>3. Empty'
    BY <1>1, <1>2, <1>5, <2>1, <2>2 DEF Empty
  <2> QED
    BY <1>1, <1>3, <1>4, <1>5, <2>3 DEF TreeInv, Excused
<1>6. CASE root # 0
  <2>1. Quiet
    BY <1>1, <1>6, WhichPart
  <2>2. PICK T, lo, hi, lev, C, rk :
          /\ Sound(disk, root, height, hdr, nextPage, events, content, T, lo, hi, lev, C, rk)
          /\ Reached(disk, T, lo, hi, op.at, op.key)
    BY <2>1 DEF Quiet, Stands
  <2>3. nextPage \in Nat /\ nextPage <= LastIndexPage + 1
    BY <1>3, BTreeAssumption DEF TreeTypes
  <2>4. root \in T /\ lo[root] = 0 /\ lev[root] = height - 1
    BY <2>2 DEF Sound, TreeOK, Rooted
  <2>5. disk[root].kind = "leaf" \/ disk[root].kind = "internal"
    BY <2>2, <2>3, <2>4, InTree
  <2>6. NoneDangles(disk, hd)
    BY <1>2, <2>2, <2>5 DEF Sound, NoneDangles, Unwritten
  <2>7. HeaderOK(hd, T, lo, lev)
    BY <1>2, <2>4 DEF HeaderOK
  <2>8. Sound(disk, root, height, hd, nextPage, events, content, T, lo, hi, lev, C, rk)
    BY <2>2, <2>6, <2>7 DEF Sound
  <2>9. Stands(disk, root, height, hd, nextPage, events, content, op.at, op.key)
    BY <2>2, <2>8, ItStands, Zenon
  <2>10. Quiet'
    BY <1>1, <1>2, <2>1, <2>9 DEF Quiet
  <2> QED
    BY <1>1, <1>3, <1>4, <1>6, <2>10 DEF TreeInv, Excused
<1> QED
  BY <1>5, <1>6

\* What a crash makes of the split under way.
Cut == If(Len(writes) = 2, "torn") \cup If(Len(writes) = 1, "chained")

LEMMA NoLosses ==
  ASSUME Len(writes) # 1, Len(writes) # 2
  PROVE  events \cup Cut = events
BY DEF Cut, If

\* Whatever a crash leaves of a split, the last root stands over a sound tree.
LEMMA CrashSound ==
  ASSUME TreeInv, root # 0
  PROVE  \E T, lo, hi, lev, C, rk :
           Sound(disk, root, height, hdr, nextPage, events \cup Cut, content,
                 T, lo, hi, lev, C, rk)
<1>1. TreeTypes /\ (Quiet \/ Splitting)
  BY DEF TreeInv
<1>2. nextPage \in Nat /\ hdr.root \in 0..LastIndexPage
  BY <1>1, BTreeAssumption DEF TreeTypes
<1>3. CASE Quiet
  <2>1. writes = <<>>
    BY <1>3 DEF Quiet
  <2>2. events \cup Cut = events
    BY <2>1, NoLosses
  <2>3. PICK T, lo, hi, lev, C, rk :
          Sound(disk, root, height, hdr, nextPage, events, content, T, lo, hi, lev, C, rk)
    BY <1>3 DEF Quiet, Stands
  <2> QED
    BY <2>2, <2>3
<1>4. CASE Splitting
  <2>1. PICK d, n, p, s, q, page :
          /\ SplitFrom(d, n, p, s, q, page)
          /\ \/ NoneWritten(d, p, s, q, page)
             \/ OneWritten(d, p, s, q, page)
             \/ TwoWritten(d, p, s, q, page)
    BY <1>4 DEF Splitting
  <2>2. /\ n \in Nat /\ n <= LastIndexPage + 1 /\ s \in PageIds
        /\ n <= s /\ s < nextPage /\ Full(d[p]) /\ n <= nextPage
    BY <1>2, <2>1, BTreeAssumption DEF SplitFrom, PageIds
  <2>3. PICK T, lo, hi, lev, C, rk :
          /\ Sound(d, root, height, hdr, n, events, content, T, lo, hi, lev, C, rk)
          /\ p \in T
    BY <1>1, <2>1, SplitKnown DEF KnownPage
  <2>4. CASE NoneWritten(d, p, s, q, page)
    <3>1. disk = d /\ Len(writes) = 3
      BY <2>4 DEF NoneWritten
    <3>2. events \cup Cut = events
      BY <3>1, NoLosses
    <3>3. Sound(d, root, height, hdr, nextPage, events, content, T, lo, hi, lev, C, rk)
      BY <1>2, <2>2, <2>3, SoundGrows, Zenon
    <3> QED
      BY <3>1, <3>2, <3>3
  <2>5. CASE OneWritten(d, p, s, q, page)
    <3>1. FirstWrite(d, disk, p, s) /\ Len(writes) = 2
      BY <2>5 DEF OneWritten
    <3>2. Cut = {"torn"}
      BY <3>1 DEF Cut, If
    <3>3. FirstWrite(d, disk, p, s)
      BY <3>1
    <3>4. PICK T2, hi2 :
            Sound(disk, root, height, hdr, n, events \cup {"torn"}, content, T2, lo, hi2, lev, C, rk)
      BY <1>2, <2>2, <2>3, <3>3, TornSound, ZenonT(60)
    <3>5. Sound(disk, root, height, hdr, nextPage, events \cup {"torn"}, content, T2, lo, hi2, lev, C, rk)
      BY <1>2, <2>2, <3>4, SoundGrows, Zenon
    <3> QED
      BY <3>2, <3>5
  <2>6. CASE TwoWritten(d, p, s, q, page)
    <3>1. Len(writes) = 1
      BY <2>6 DEF TwoWritten
    <3>2. Cut = {"chained"}
      BY <3>1 DEF Cut, If
    <3>3. PICK d1 : FirstWrite(d, d1, p, s) /\ SecondWrite(d, d1, disk, p, s)
      BY <2>6 DEF TwoWritten
    <3>4. PICK T2, lo2, hi2, C2, rk2 :
            Sound(disk, root, height, hdr, nextPage, events \cup {"chained"}, content,
                  T2, lo2, hi2, lev, C2, rk2)
      BY <1>2, <2>2, <2>3, <3>3, ChainedSound, ZenonT(60)
    <3> QED
      BY <3>2, <3>4
  <2> QED
    BY <2>1, <2>4, <2>5, <2>6
<1> QED
  BY <1>1, <1>3, <1>4

LEMMA CrashInv ==
  ASSUME TreeInv, CrashAndReopen
  PROVE  TreeInv'
<1>1. /\ root' = hdr.root /\ height' = hdr.height /\ op' = NoOp /\ writes' = <<>>
      /\ events' = events \cup CrashEvents
      /\ content' = IF hdr.root = 0 THEN [k \in Keys |-> None] ELSE content
      /\ disk' = disk /\ hdr' = hdr /\ nextPage' = nextPage
  BY DEF CrashAndReopen
<1>2. TreeTypes /\ Excused
  BY WhichPart
<1>3. /\ hdr.root \in 0..LastIndexPage /\ hdr.height \in Nat /\ height \in Nat
      /\ nextPage \in Nat /\ nextPage <= LastIndexPage + 1
  BY <1>2, BTreeAssumption DEF TreeTypes
<1>4. /\ events' \subseteq Events /\ events \subseteq events'
      /\ "undeleted" \in events' => "undeleted" \in events
  BY <1>1, <1>2 DEF TreeTypes, CrashEvents, If, Events
<1>5. Excused'
  BY <1>2, <1>4 DEF Excused
<1>6. op'.at = 0 /\ op'.key = 0 /\ op'.newRoot = 0
  BY <1>1 DEF NoOp
<1>7. TreeTypes'
  <2>1. content' \in [Keys -> Values \cup {None}]
    BY <1>1, <1>2 DEF TreeTypes
  <2> QED
    BY <1>1, <1>2, <1>4, <1>6, <2>1, BTreeAssumption DEF TreeTypes
<1>8. CASE hdr.root = 0
  <2>1. TypedPages(disk) /\ NoneDangles(disk, hdr)
    <3>1. CASE root = 0
      BY <3>1 DEF TreeInv, Empty
    <3>2. CASE root # 0
      BY <3>2, CrashSound DEF Sound
    <3> QED
      BY <3>1, <3>2
  <2>2. Empty'
    BY <1>1, <1>8, <2>1 DEF Empty
  <2> QED
    BY <1>1, <1>5, <1>7, <1>8, <2>2 DEF TreeInv
<1>9. CASE hdr.root # 0
  <2>1. root # 0
    BY <1>9 DEF TreeInv, Empty
  <2>2. PICK T, lo, hi, lev, C, rk :
          Sound(disk, root, height, hdr, nextPage, events \cup Cut, content,
                T, lo, hi, lev, C, rk)
    BY <2>1, CrashSound
  <2>3. content' = content
    BY <1>1, <1>9
  <2>4. \E T2, lo2, hi2 :
          Sound(disk, hdr.root, hdr.height, hdr, nextPage, events', content,
                T2, lo2, hi2, lev, C, rk)
    <3>1. CASE hdr.root = root
      <4>1. HeaderOK(hdr, T, lo, lev) /\ Rooted(root, nextPage, height, T, lo, hi, lev)
        BY <2>2 DEF Sound, TreeOK
      <4>2. hdr.height = height
        BY <1>3, <1>9, <3>1, <4>1 DEF HeaderOK, Rooted
      <4>3. events' = events \cup Cut
        BY <1>1, <3>1 DEF CrashEvents, Cut, If
      <4> QED
        BY <2>2, <3>1, <4>2, <4>3
    <3>2. CASE hdr.root # root
      <4>1. events' = (events \cup Cut) \cup {"chained"}
        BY <1>1, <1>9, <3>2 DEF CrashEvents, Cut, If
      <4>2. \E T2, lo2, hi2 :
              Sound(disk, hdr.root, hdr.height, hdr, nextPage, (events \cup Cut) \cup {"chained"},
                    content, T2, lo2, hi2, lev, C, rk)
        BY <1>3, <1>9, <2>2, RestrictSound, ZenonT(60)
      <4> QED
        BY <4>1, <4>2
    <3> QED
      BY <3>1, <3>2
  <2>5. PICK T2, lo2, hi2 :
          Sound(disk, hdr.root, hdr.height, hdr, nextPage, events', content,
                T2, lo2, hi2, lev, C, rk)
    BY <2>4
  <2>6. Reached(disk, T2, lo2, hi2, 0, 0)
    BY DEF Reached
  <2>7. Stands(disk, hdr.root, hdr.height, hdr, nextPage, events', content, 0, 0)
    BY <2>5, <2>6, ItStands, Zenon
  <2>8. Quiet'
    BY <1>1, <1>6, <2>3, <2>7 DEF Quiet
  <2> QED
    BY <1>1, <1>5, <1>7, <1>9, <2>8 DEF TreeInv
<1> QED
  BY <1>8, <1>9

LEMMA TreeNextInv == TreeInv /\ [TreeNext]_treeVars => TreeInv'
<1> SUFFICES ASSUME TreeInv, [TreeNext]_treeVars PROVE TreeInv'
  OBVIOUS
<1>1. CASE UNCHANGED treeVars
  <2> USE <1>1 DEF treeVars
  <2>1. TreeTypes' = TreeTypes /\ Excused' = Excused /\ root' = root
    BY DEF TreeTypes, Excused
  <2>2. Empty' = Empty /\ Quiet' = Quiet
    BY DEF Empty, Quiet
  <2>3. \A d, n, p, s, q, page :
          /\ SplitFrom(d, n, p, s, q, page)' = SplitFrom(d, n, p, s, q, page)
          /\ NoneWritten(d, p, s, q, page)' = NoneWritten(d, p, s, q, page)
          /\ OneWritten(d, p, s, q, page)' = OneWritten(d, p, s, q, page)
          /\ TwoWritten(d, p, s, q, page)' = TwoWritten(d, p, s, q, page)
    BY DEF SplitFrom, SplitsChild, SplitsRoot, NoneWritten, OneWritten, TwoWritten
  <2>4. Splitting' = Splitting
    BY <2>3 DEF Splitting
  <2> QED
    BY <2>1, <2>2, <2>4 DEF TreeInv
<1>2. ASSUME NEW k \in Keys, NEW v \in Values, InsertIntoEmptyTree(k, v) PROVE TreeInv'
  BY <1>2, FirstInsertInv
<1>3. ASSUME NEW k \in Keys, NEW v \in Values, SplitRoot(k, v) PROVE TreeInv'
  BY <1>3, SplitRootInv
<1>4. ASSUME NEW k \in Keys, NEW v \in Values, StartAtRoot(k, v) PROVE TreeInv'
  BY <1>4, StartAtRootInv
<1>5. CASE Descend
  BY <1>5, DescendInv
<1>6. CASE SplitChild
  BY <1>6, SplitChildInv
<1>7. CASE WritePage
  BY <1>7, WritePageInv
<1>8. CASE InsertIntoLeaf
  BY <1>8, InsertIntoLeafInv
<1>9. ASSUME NEW k \in Keys, Delete(k) PROVE TreeInv'
  BY <1>9, DeleteInv
<1>10. CASE SyncRoot
  BY <1>10, SyncRootInv
<1>11. CASE CrashAndReopen
  BY <1>11, CrashInv
<1> QED
  BY <1>1, <1>2, <1>3, <1>4, <1>5, <1>6, <1>7, <1>8, <1>9, <1>10, <1>11 DEF TreeNext

-----------------------------------------------------------------------------
(* What the invariant says of the pages *)

\* How much of a split the disk shows.
Progress(d, p, s) ==
  \/ disk = d
  \/ \E d2 : FirstWrite(d, disk, p, s) /\ SecondWrite(d, disk, d2, p, s)
  \/ \E d1 : FirstWrite(d, d1, p, s) /\ SecondWrite(d, d1, disk, p, s)

LEMMA Split ==
  ASSUME TreeInv, writes # <<>>
  PROVE  /\ TreeTypes /\ op # NoOp /\ root # 0
         /\ \E d, n, p, s, q, page :
              /\ SplitFrom(d, n, p, s, q, page) /\ KnownPage(d, n, p) /\ Progress(d, p, s)
              /\ n \in Nat /\ n <= LastIndexPage + 1 /\ s \in PageIds /\ n <= s /\ Full(d[p])
              /\ p \in PageIds /\ q \in PageIds
              /\ IsPage(Halves(d[p], s).low) /\ IsPage(Halves(d[p], s).high) /\ IsPage(page)
              /\ \/ NoneWritten(d, p, s, q, page)
                 \/ OneWritten(d, p, s, q, page)
                 \/ TwoWritten(d, p, s, q, page)
<1>1. TreeTypes /\ Splitting
  BY WhichPart
<1>2. PICK d, n, p, s, q, page :
        /\ SplitFrom(d, n, p, s, q, page)
        /\ \/ NoneWritten(d, p, s, q, page)
           \/ OneWritten(d, p, s, q, page)
           \/ TwoWritten(d, p, s, q, page)
  BY <1>1 DEF Splitting
<1>3. /\ n \in Nat /\ n <= LastIndexPage + 1 /\ s \in PageIds /\ q \in PageIds /\ n <= s
      /\ Full(d[p]) /\ op # NoOp
  BY <1>2 DEF SplitFrom
<1>4. /\ KnownPage(d, n, p) /\ p \in PageIds
      /\ IsPage(Halves(d[p], s).low) /\ IsPage(Halves(d[p], s).high) /\ IsPage(page)
  BY <1>1, <1>2, SplitKnown, Zenon
<1>5. Progress(d, p, s)
  <2>1. CASE NoneWritten(d, p, s, q, page)
    BY <2>1 DEF NoneWritten, Progress
  <2>2. CASE OneWritten(d, p, s, q, page)
    <3>1. FirstWrite(d, disk, p, s)
      BY <2>2 DEF OneWritten
    <3>2. \E d2 : SecondWrite(d, disk, d2, p, s)
      BY DEF SecondWrite
    <3> QED
      BY <3>1, <3>2 DEF Progress
  <2>3. CASE TwoWritten(d, p, s, q, page)
    BY <2>3 DEF TwoWritten, Progress
  <2> QED
    BY <1>2, <2>1, <2>2, <2>3
<1>6. root # 0
  BY <1>3, WhichPart
<1> QED
  BY <1>1, <1>2, <1>3, <1>4, <1>5, <1>6

\* While a page is split, the pages are well-formed and none dangles.
LEMMA ProgressTyped ==
  ASSUME TreeTypes, NEW d, NEW n \in Nat, NEW p, NEW s \in PageIds, KnownPage(d, n, p), Progress(d, p, s),
         n <= LastIndexPage + 1, n <= s, Full(d[p])
  PROVE  TypedPages(disk) /\ NoneDangles(disk, hdr)
<1>1. PICK T, lo, hi, lev, C, rk :
        /\ Sound(d, root, height, hdr, n, events, content, T, lo, hi, lev, C, rk)
        /\ p \in T
  BY DEF KnownPage
<1>2. TypedPages(d) /\ NoneDangles(d, hdr) /\ TreeOK(d, root, height, n, T, lo, hi, lev)
  BY <1>1 DEF Sound
<1>3. hdr.root \in 0..LastIndexPage
  BY DEF TreeTypes
<1>4. ASSUME NEW d1, NEW d2, FirstWrite(d, d1, p, s), SecondWrite(d, d1, d2, p, s)
      PROVE  Halved(d, d1, d2, hdr, p, s)
  BY <1>1, <1>2, <1>3, <1>4, HalvesWritten, Zenon
<1>5. CASE disk = d
  BY <1>2, <1>5
<1>6. CASE \E d2 : FirstWrite(d, disk, p, s) /\ SecondWrite(d, disk, d2, p, s)
  <2>1. \E d2 : Halved(d, disk, d2, hdr, p, s)
    BY <1>4, <1>6
  <2> QED
    BY <2>1 DEF Halved
<1>7. CASE \E d1 : FirstWrite(d, d1, p, s) /\ SecondWrite(d, d1, disk, p, s)
  <2>1. \E d1 : Halved(d, d1, disk, hdr, p, s)
    BY <1>4, <1>7
  <2> QED
    BY <2>1 DEF Halved
<1> QED
  BY <1>5, <1>6, <1>7 DEF Progress

LEMMA AllTyped ==
  ASSUME TreeInv
  PROVE  TreeTypes /\ TypedPages(disk) /\ NoneDangles(disk, hdr)
<1>1. TreeTypes
  BY DEF TreeInv
<1>2. CASE root = 0
  BY <1>1, <1>2 DEF TreeInv, Empty
<1>3. CASE root # 0 /\ writes = <<>>
  BY <1>1, <1>3, WhichPart DEF Quiet, Stands, Sound
<1>4. CASE writes # <<>>
  <2>1. PICK d, n, p, s :
          /\ KnownPage(d, n, p) /\ Progress(d, p, s)
          /\ n \in Nat /\ n <= LastIndexPage + 1 /\ s \in PageIds /\ n <= s /\ Full(d[p])
    BY <1>4, Split
  <2> QED
    BY <1>1, <2>1, ProgressTyped, Zenon
<1> QED
  BY <1>2, <1>3, <1>4

LEMMA InvTypes == TreeInv => TreeTypeOK
<1> SUFFICES ASSUME TreeInv PROVE TreeTypeOK
  OBVIOUS
<1>1. TreeTypes /\ TypedPages(disk)
  BY AllTyped
<1>2. /\ Len(writes) <= 3
      /\ \A i \in 1..Len(writes) : writes[i][1] \in PageIds /\ IsPage(writes[i][2])
  <2>1. CASE writes = <<>>
    BY <2>1
  <2>2. CASE writes # <<>>
    <3>1. PICK d, n, p, s, q, page :
            /\ s \in PageIds /\ p \in PageIds /\ q \in PageIds
            /\ IsPage(Halves(d[p], s).low) /\ IsPage(Halves(d[p], s).high) /\ IsPage(page)
            /\ \/ NoneWritten(d, p, s, q, page)
               \/ OneWritten(d, p, s, q, page)
               \/ TwoWritten(d, p, s, q, page)
      BY <2>2, Split
    <3> DEFINE low == Halves(d[p], s).low
               high == Halves(d[p], s).high
    <3>2. \/ writes = <<<<p, low>>, <<s, high>>, <<q, page>>>>
          \/ writes = <<<<s, high>>, <<q, page>>>>
          \/ writes = <<<<q, page>>>>
      BY <3>1 DEF NoneWritten, OneWritten, TwoWritten
    <3>3. IsPage(low) /\ IsPage(high)
      BY <3>1
    <3> HIDE DEF low, high
    <3>4. CASE writes = <<<<p, low>>, <<s, high>>, <<q, page>>>>
      <4>1. Len(writes) = 3 /\ writes[1] = <<p, low>> /\ writes[2] = <<s, high>> /\ writes[3] = <<q, page>>
        BY <3>4
      <4>2. \A i \in 1..Len(writes) : i = 1 \/ i = 2 \/ i = 3
        BY <4>1
      <4> QED
        BY <3>1, <3>3, <4>1, <4>2
    <3>5. CASE writes = <<<<s, high>>, <<q, page>>>>
      <4>1. Len(writes) = 2 /\ writes[1] = <<s, high>> /\ writes[2] = <<q, page>>
        BY <3>5
      <4>2. \A i \in 1..Len(writes) : i = 1 \/ i = 2
        BY <4>1
      <4> QED
        BY <3>1, <3>3, <4>1, <4>2
    <3>6. CASE writes = <<<<q, page>>>>
      <4>1. Len(writes) = 1 /\ writes[1] = <<q, page>>
        BY <3>6
      <4>2. \A i \in 1..Len(writes) : i = 1
        BY <4>1
      <4> QED
        BY <3>1, <4>1, <4>2
    <3> QED
      BY <3>2, <3>4, <3>5, <3>6
  <2> QED
    BY <2>1, <2>2
<1> QED
  BY <1>1, <1>2 DEF TreeTypeOK, TreeTypes, TypedPages

LEMMA InvLookups == TreeInv => LookupsRight
<1> SUFFICES ASSUME TreeInv, op = NoOp, events \cap {"torn", "undeleted"} = {}, NEW k \in Keys
             PROVE  Lookup(k) = content[k]
  BY DEF LookupsRight, Idle, Without
<1>1. TypedPages(disk) /\ TreeTypes
  BY AllTyped
<1>2. /\ nextPage \in Nat /\ nextPage <= nextPage /\ nextPage <= LastIndexPage + 1
      /\ root \in 0..LastIndexPage
  BY <1>1, BTreeAssumption DEF TreeTypes
<1>3. CASE root = 0
  <2>1. FindLeaf(k) = 0 /\ FoundFrom(0, k) = None
    BY <1>1, <1>2, <1>3, FindLeafInEmpty, FoundFromNothing
  <2>2. content[k] = None
    BY <1>3 DEF TreeInv, Empty
  <2> QED
    BY <2>1, <2>2 DEF Lookup
<1>4. CASE root # 0
  <2>1. Quiet
    BY <1>4, WhichPart
  <2>2. PICK T, lo, hi, lev, C, rk :
          Sound(disk, root, height, hdr, nextPage, events, content, T, lo, hi, lev, C, rk)
    BY <2>1 DEF Quiet, Stands
  <2>3. "torn" \notin events /\ "undeleted" \notin events
    OBVIOUS
  <2>4. /\ TreeOK(disk, root, height, nextPage, T, lo, hi, lev)
        /\ ChainOK(disk, nextPage, T, lo, hi, lev, C, rk)
        /\ ContentOK(disk, T, lo, hi, lev, C, rk, content)
    BY <2>2, <2>3 DEF Sound, ChainSound
  <2> QED
    BY <1>1, <1>2, <2>4, LookupOK, ZenonT(60)
<1> QED
  BY <1>3, <1>4

LEMMA InvDangles == TreeInv => NothingDangles
<1> SUFFICES ASSUME TreeInv PROVE NothingDangles
  OBVIOUS
<1>1. NoneDangles(disk, hdr)
  BY AllTyped
<1> QED
  BY <1>1 DEF NoneDangles, NothingDangles, Range

LEMMA InvLevels == TreeInv => LevelAndChained
<1> SUFFICES ASSUME TreeInv, op = NoOp, root # 0, events \cap CrashDamage = {}
             PROVE  LET leaves == Depth[height - 1]
                    IN /\ \A n \in 0..(height - 2) : \A p \in Depth[n] : ~IsLeaf(p)
                       /\ \A p \in leaves : IsLeaf(p) /\ disk[p].next \in leaves \cup {0}
                       /\ Cardinality({p \in leaves : disk[p].next = 0}) = 1
                       /\ \A p \in leaves : disk[p].next # 0 =>
                            \A a \in KeysOf(p), b \in KeysOf(disk[p].next) : a < b
  BY DEF LevelAndChained, Idle, Without
<1>1. TypedPages(disk) /\ TreeTypes
  BY AllTyped
<1>2. nextPage \in Nat /\ nextPage <= LastIndexPage + 1
  BY <1>1, BTreeAssumption DEF TreeTypes
<1>3. PICK T, lo, hi, lev, C, rk :
        Sound(disk, root, height, hdr, nextPage, events, content, T, lo, hi, lev, C, rk)
  BY WhichPart DEF Quiet, Stands
<1>4. "torn" \notin events
  BY DEF CrashDamage
<1>5. /\ TreeOK(disk, root, height, nextPage, T, lo, hi, lev)
      /\ ChainOK(disk, nextPage, T, lo, hi, lev, C, rk) /\ C \subseteq T
  BY <1>3, <1>4 DEF Sound, ChainSound
<1> QED
  BY <1>1, <1>2, <1>5, LevelAndChainedOK

\* The lower half of a page keeps its children and is at least half full.
LEMMA HalfKept ==
  ASSUME NEW d, NEW d2, NEW h, NEW r, NEW n \in Nat, NEW T, NEW lo, NEW hi, NEW lev,
         n <= LastIndexPage + 1, TypedPages(d), TreeOK(d, r, h, n, T, lo, hi, lev),
         HalfOK(d, r, T, lev), NEW p \in T, NEW s \in PageIds, n <= s, Full(d[p]),
         d2[p] = Halves(d[p], s).low, \A x \in PageIds : x # p /\ x # s => d2[x] = d[x]
  PROVE  Kinds(d2, T, lev) /\ Leads(d2, T, lev) /\ HalfOK(d2, r, T, lev)
<1>1. /\ T \subseteq 1..(n - 1) /\ Kinds(d, T, lev) /\ AllKids(d, T, lo, hi, lev)
  BY DEF TreeOK, Spans
<1>2. SeparatorIn(d, lo, hi, lev, p, s)
  BY SeparatorFacts, Zenon
<1>3. /\ SplitInto(d[p], d2[p], Halves(d[p], s).high, Halves(d[p], s).separator)
      /\ Size(d2[p]) >= IF lev[p] = 0 THEN Cap \div 2 ELSE (Cap - 1) \div 2
  BY <1>2 DEF SeparatorIn
<1>4. \A x \in T : x # p => d2[x] = d[x]
  BY <1>1, BTreeAssumption DEF PageIds
<1>5. /\ d2[p].kind = d[p].kind
      /\ d[p].kind = "internal" => /\ DOMAIN d2[p].children \subseteq DOMAIN d[p].children
                                   /\ \A b \in DOMAIN d2[p].children : d2[p].children[b] = d[p].children[b]
  BY <1>3 DEF SplitInto
<1>6. Kinds(d2, T, lev)
  BY <1>1, <1>4, <1>5 DEF Kinds
<1>7. Leads(d2, T, lev)
  <2>1. Leads(d, T, lev)
    BY <1>1 DEF AllKids, Kids, Leads
  <2> QED
    BY <1>1, <1>4, <1>5, <2>1 DEF Leads, Kinds
<1>8. HalfOK(d2, r, T, lev)
  BY <1>3, <1>4 DEF HalfOK
<1> QED
  BY <1>6, <1>7, <1>8

LEMMA InvHalfFull == TreeInv => HalfFull
<1> SUFFICES ASSUME TreeInv, events \cap ({"deleted"} \cup CrashDamage) = {}
             PROVE  \A i \in 1..(height - 1) : \A p \in Depth[i] :
                      Size(disk[p]) >= IF IsLeaf(p) THEN Cap \div 2 ELSE (Cap - 1) \div 2
  BY DEF HalfFull, Without
<1>1. TypedPages(disk) /\ TreeTypes
  BY AllTyped
<1>2. nextPage \in Nat /\ nextPage <= LastIndexPage + 1
  BY <1>1, BTreeAssumption DEF TreeTypes
<1>3. ASSUME NEW d, NEW n \in Nat, NEW T, NEW lo, NEW hi, NEW lev, NEW C, NEW rk,
             Sound(d, root, height, hdr, n, events, content, T, lo, hi, lev, C, rk)
      PROVE  /\ TypedPages(d) /\ TreeOK(d, root, height, n, T, lo, hi, lev)
             /\ Rooted(root, n, height, T, lo, hi, lev) /\ Spans(n, height, T, lo, hi, lev)
             /\ Kinds(d, T, lev) /\ Leads(d, T, lev) /\ HalfOK(d, root, T, lev)
  <2>1. events \cap (CrashDamage \cup {"deleted"}) = {}
    OBVIOUS
  <2>2. /\ TypedPages(d) /\ TreeOK(d, root, height, n, T, lo, hi, lev)
        /\ HalfOK(d, root, T, lev)
    BY <1>3, <2>1 DEF Sound, HalfSound
  <2>3. /\ Rooted(root, n, height, T, lo, hi, lev) /\ Spans(n, height, T, lo, hi, lev)
        /\ Kinds(d, T, lev) /\ AllKids(d, T, lo, hi, lev)
    BY <2>2 DEF TreeOK
  <2>4. Leads(d, T, lev)
    BY <2>3 DEF AllKids, Kids, Leads
  <2> QED
    BY <2>2, <2>3, <2>4
<1>4. CASE root = 0
  BY <1>1, <1>4 DEF TreeTypes
<1>5. CASE root # 0 /\ writes = <<>>
  <2>1. PICK T, lo, hi, lev, C, rk :
          Sound(disk, root, height, hdr, nextPage, events, content, T, lo, hi, lev, C, rk)
    BY <1>5, WhichPart DEF Quiet, Stands
  <2>2. /\ Rooted(root, nextPage, height, T, lo, hi, lev) /\ Spans(nextPage, height, T, lo, hi, lev)
        /\ Kinds(disk, T, lev) /\ Leads(disk, T, lev) /\ HalfOK(disk, root, T, lev)
    BY <1>2, <1>3, <2>1
  <2> QED
    BY <1>1, <1>2, <2>2, HalfFullOK, ZenonT(60)
<1>6. CASE writes # <<>>
  <2>1. PICK d, n, p, s :
          /\ KnownPage(d, n, p) /\ Progress(d, p, s)
          /\ n \in Nat /\ n <= LastIndexPage + 1 /\ s \in PageIds /\ n <= s /\ Full(d[p])
    BY <1>6, Split
  <2>2. PICK T, lo, hi, lev, C, rk :
          /\ Sound(d, root, height, hdr, n, events, content, T, lo, hi, lev, C, rk)
          /\ p \in T
    BY <2>1 DEF KnownPage
  <2>3. /\ TypedPages(d) /\ TreeOK(d, root, height, n, T, lo, hi, lev)
        /\ Rooted(root, n, height, T, lo, hi, lev) /\ Spans(n, height, T, lo, hi, lev)
        /\ Kinds(d, T, lev) /\ Leads(d, T, lev) /\ HalfOK(d, root, T, lev)
    BY <1>3, <2>1, <2>2
  <2>4. Kinds(disk, T, lev) /\ Leads(disk, T, lev) /\ HalfOK(disk, root, T, lev)
    <3>1. CASE disk = d
      BY <2>3, <3>1
    <3>2. CASE disk # d
      <4>1. /\ disk[p] = Halves(d[p], s).low
            /\ \A x \in PageIds : x # p /\ x # s => disk[x] = d[x]
        <5>1. hdr.root \in 0..LastIndexPage /\ NoneDangles(d, hdr)
          BY <1>1, <2>2 DEF TreeTypes, Sound
        <5>2. ASSUME NEW d1, NEW d2, FirstWrite(d, d1, p, s), SecondWrite(d, d1, d2, p, s)
              PROVE  Halved(d, d1, d2, hdr, p, s)
          BY <2>1, <2>2, <2>3, <5>1, <5>2, HalvesWritten, Zenon
        <5>3. (\E d2 : Halved(d, disk, d2, hdr, p, s)) \/ (\E d1 : Halved(d, d1, disk, hdr, p, s))
          BY <2>1, <3>2, <5>2 DEF Progress
        <5> QED
          BY <5>3 DEF Halved
      <4> QED
        BY <2>1, <2>2, <2>3, <4>1, HalfKept
    <3> QED
      BY <3>1, <3>2
  <2> QED
    BY <1>1, <2>1, <2>3, <2>4, HalfFullOK, ZenonT(60)
<1> QED
  BY <1>4, <1>5, <1>6

-----------------------------------------------------------------------------

\* At any moment, also between the page writes of a split and after any crash,
\* the pages, the writes to come and the root, the header and the allocator's
\* next page are what IndexPage and BTreeManager take them to be.
THEOREM TreeTypesOK == TreeSpec => []TreeTypeOK
<1>1. TreeInit => TreeInv
  BY TreeInitInv
<1>2. TreeInv /\ [TreeNext]_treeVars => TreeInv'
  BY TreeNextInv
<1>3. TreeInv => TreeTypeOK
  BY InvTypes
<1> QED
  BY <1>1, <1>2, <1>3, PTL DEF TreeSpec

\* lookup returns what the completed inserts and deletes make of a key, in trees
\* of any height, with pages of any capacity, after any number of splits and of
\* crashes at every other point of a split than between its first two writes.
THEOREM LookupsAreRight == TreeSpec => []LookupsRight
<1>1. TreeInit => TreeInv
  BY TreeInitInv
<1>2. TreeInv /\ [TreeNext]_treeVars => TreeInv'
  BY TreeNextInv
<1>3. TreeInv => LookupsRight
  BY InvLookups
<1> QED
  BY <1>1, <1>2, <1>3, PTL DEF TreeSpec

\* delete, which looks at one leaf only, leaves no copy of its key further along
\* the chain, unless a crash in a split or before the header knew of a root has
\* left a leaf that only the chain leads to.
THEOREM DeletesAreComplete == TreeSpec => []DeletesEndLookups
<1>1. TreeInit => TreeInv
  BY TreeInitInv
<1>2. TreeInv /\ [TreeNext]_treeVars => TreeInv'
  BY TreeNextInv
<1>3. TreeInv => DeletesEndLookups
  BY DEF TreeInv, Excused, DeletesEndLookups, Without
<1> QED
  BY <1>1, <1>2, <1>3, PTL DEF TreeSpec

\* No crash makes a parent or the header name a page that was not written; all
\* leaves are at one depth and chained from left to right; and without deletes
\* every page but the root is at least half full, also in the middle of a split.
THEOREM TreesAreWellShaped == TreeSpec => []WellShaped
<1>1. TreeInit => TreeInv
  BY TreeInitInv
<1>2. TreeInv /\ [TreeNext]_treeVars => TreeInv'
  BY TreeNextInv
<1>3. TreeInv => WellShaped
  BY InvDangles, InvLevels, InvHalfFull DEF WellShaped
<1> QED
  BY <1>1, <1>2, <1>3, PTL DEF TreeSpec
=============================================================================
