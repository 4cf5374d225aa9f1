---------------------------- MODULE KvStore_proofs ----------------------------
(***************************************************************************)
(* Theorems about KvStore, for any keys, values, times to live and         *)
(* prefixes, any number of writes, versions and reopens, and callers of    *)
(* either kind.                                                            *)
(***************************************************************************)
EXTENDS KvStore, SequenceTheorems, WellFoundedInduction, TLAPS

\* A non-empty set of positions in a sequence has a greatest element: the order
\* from the end is well-founded.
LEMMA GreatestPosition ==
  ASSUME NEW n \in Nat, NEW T, T \subseteq 1..n, T # {}
  PROVE  \E x \in T : \A y \in T : y <= x
<1> DEFINE LT == OpToRel(<, Nat)
<1> DEFINE D == {n - i : i \in T}
<1>1. \A x, y \in Nat : y < x => <<y, x>> \in LT
  BY DEF OpToRel
<1>2. IsWellFoundedOn(LT, Nat)
  BY NatLessThanWellFounded
<1>3. \A i \in T : i \in Int /\ n - i \in Nat
  OBVIOUS
<1>4. D \subseteq Nat /\ D # {}
  BY <1>3, Zenon
<1> HIDE DEF LT
<1>5. PICK d \in D : \A e \in D : ~(<<e, d>> \in LT)
  BY <1>2, <1>4, WFMin, Zenon
<1>6. PICK x \in T : d = n - x
  BY <1>5
<1>7. \A y \in T : ~(n - y < n - x)
  BY <1>1, <1>3, <1>5, <1>6, Zenon
<1>8. \A y \in T : y <= x
  BY <1>3, <1>7
<1> QED
  BY <1>8, Zenon

\* No entry is newer than the newest write.
Bounded == \A k \in Keys : \A i \in DOMAIN entries[k] : entries[k][i].version <= version

KvInv == TypeOK /\ Bounded

-----------------------------------------------------------------------------
(* Greatest elements *)

\* A non-empty set of positions has its Max.
LEMMA MaxOfPositions ==
  ASSUME NEW n \in Nat, NEW T, T \subseteq 1..n, T # {}
  PROVE  Max(T) \in T /\ \A y \in T : y <= Max(T)
<1>1. PICK x \in T : \A y \in T : y <= x
  BY GreatestPosition
<1>2. \A y \in T : x >= y
  BY <1>1
<1>3. Max(T) \in T /\ \A y \in T : Max(T) >= y
  BY <1>2, Zenon DEF Max
<1> QED
  BY <1>3

\* A set of positions that holds the last one has it as its Max.
LEMMA MaxIsLast ==
  ASSUME NEW n \in Nat, NEW T, T \subseteq 1..n, n \in T
  PROVE  Max(T) = n
<1> DEFINE m == Max(T)
<1>1. m \in T /\ n <= m
  BY MaxOfPositions, Zenon
<1> HIDE DEF m
<1>2. m = n
  BY <1>1
<1> QED
  BY <1>2 DEF m

-----------------------------------------------------------------------------
(* What a snapshot sees *)

\* The versions a snapshot sees are positions of the history.
LEMMA SeenPositions ==
  ASSUME NEW h \in Seq(Entry), NEW s \in Nat
  PROVE  /\ VisibleAt(h, s) \subseteq 1..Len(h)
         /\ VisibleAt(h, s) # {} => Max(VisibleAt(h, s)) \in VisibleAt(h, s)
<1>1. VisibleAt(h, s) \subseteq 1..Len(h)
  BY DEF VisibleAt
<1> QED
  BY <1>1, MaxOfPositions

\* A snapshot no older than the newest version reads that version.
LEMMA SeesNewest ==
  ASSUME NEW h \in Seq(Entry), h # <<>>, NEW s \in Nat,
         s = 0 \/ Newest(h).version <= s
  PROVE  VisibleAt(h, s) # {} /\ Max(VisibleAt(h, s)) = Len(h)
<1>1. Len(h) \in Nat /\ Len(h) \in 1..Len(h)
  OBVIOUS
<1>2. Len(h) \in VisibleAt(h, s)
  BY <1>1 DEF VisibleAt, Newest
<1> QED
  BY <1>1, <1>2, SeenPositions, MaxIsLast

\* A version newer than the snapshot does not change what it sees.
LEMMA BlindToNewer ==
  ASSUME NEW h \in Seq(Entry), NEW e \in Entry, NEW s \in Nat, s # 0,
         s < e.version
  PROVE  VisibleAt(Append(h, e), s) = VisibleAt(h, s)
<1>1. Append(h, e)[Len(h) + 1] = e /\ Len(Append(h, e)) = Len(h) + 1
  OBVIOUS
<1>2. \A i \in 1..Len(h) : Append(h, e)[i] = h[i]
  OBVIOUS
<1>3. e.version \in Nat
  BY KvStoreAssumption DEF Entry
<1>4. DOMAIN Append(h, e) = 1..(Len(h) + 1) /\ DOMAIN h = 1..Len(h)
  OBVIOUS
<1>5. \A i \in 1..(Len(h) + 1) :
        Append(h, e)[i].version <= s <=> i \in 1..Len(h) /\ h[i].version <= s
  <2> SUFFICES ASSUME NEW i \in 1..(Len(h) + 1)
               PROVE  Append(h, e)[i].version <= s <=> i \in 1..Len(h) /\ h[i].version <= s
    OBVIOUS
  <2>1. CASE i = Len(h) + 1
    BY <1>1, <1>3, <2>1
  <2>2. CASE i \in 1..Len(h)
    BY <1>2, <2>2
  <2> QED
    BY <2>1, <2>2
<1> QED
  BY <1>4, <1>5 DEF VisibleAt

-----------------------------------------------------------------------------
(* Type correctness *)

\* The parts of an entry.
LEMMA EntryTypes ==
  ASSUME NEW e \in Entry
  PROVE  /\ e.version \in Nat
         /\ e.updated \in Nat
         /\ e.ttl \in Nat \cup {NoTtl}
<1>1. /\ e.version \in 0..MaxVersion
      /\ e.updated \in 0..MaxClock
      /\ e.ttl \in Ttls \cup {NoTtl}
  BY DEF Entry
<1>2. e.version \in Nat
  BY <1>1, KvStoreAssumption
<1>3. e.updated \in Nat
  BY <1>1, KvStoreAssumption
<1>4. e.ttl \in Nat \cup {NoTtl}
  BY <1>1, KvStoreAssumption
<1> QED
  BY <1>2, <1>3, <1>4

LEMMA ClockIsNat ==
  ASSUME KvInv
  PROVE  now \in Nat
BY KvStoreAssumption DEF KvInv, TypeOK

\* The histories of new entries: a write, with a version no lower than any before.
LEMMA PushType ==
  ASSUME KvInv, NEW k \in Keys, NEW e \in Entry, version <= e.version, Push(k, e)
  PROVE  /\ entries' \in [Keys -> Seq(Entry)]
         /\ entries'[k] = Append(entries[k], e)
         /\ \A j \in Keys \ {k} : entries'[j] = entries[j]
         /\ \A j \in Keys : InOrder(entries'[j])
         /\ \A j \in Keys : \A i \in DOMAIN entries'[j] : entries'[j][i].version <= e.version
<1>1. /\ entries \in [Keys -> Seq(Entry)]
      /\ \A j \in Keys : InOrder(entries[j])
      /\ \A j \in Keys : \A i \in DOMAIN entries[j] : entries[j][i].version <= version
      /\ version \in Nat
  BY KvStoreAssumption DEF KvInv, TypeOK, Bounded, Snapshots
<1>2. entries' = [entries EXCEPT ![k] = Append(entries[k], e)]
  BY <1>1 DEF Push
<1>3. Append(entries[k], e) \in Seq(Entry)
  BY <1>1
<1>4. /\ entries' \in [Keys -> Seq(Entry)]
      /\ entries'[k] = Append(entries[k], e)
      /\ \A j \in Keys \ {k} : entries'[j] = entries[j]
  BY <1>1, <1>2, <1>3
<1> DEFINE h == entries[k]
<1>5. h \in Seq(Entry) /\ InOrder(h) /\ \A i \in DOMAIN h : h[i].version <= version
  BY <1>1
<1> HIDE DEF h
<1>6. /\ DOMAIN Append(h, e) = 1..(Len(h) + 1)
      /\ DOMAIN h = 1..Len(h)
      /\ Append(h, e)[Len(h) + 1] = e
      /\ \A i \in 1..Len(h) : Append(h, e)[i] = h[i]
      /\ Len(h) \in Nat
  BY <1>5
<1>7. \A i \in DOMAIN h : h[i].version \in Nat
  <2>1. \A i \in 1..Len(h) : h[i] \in Entry
    BY <1>5, <1>6
  <2> QED
    BY <1>6, <2>1, EntryTypes
<1>8. e.version \in Nat
  BY EntryTypes
<1>9. \A i \in DOMAIN Append(h, e) : Append(h, e)[i].version <= e.version
  <2> SUFFICES ASSUME NEW i \in 1..(Len(h) + 1)
               PROVE  Append(h, e)[i].version <= e.version
    BY <1>6
  <2>1. CASE i = Len(h) + 1
    BY <2>1, <1>6, <1>8
  <2>2. CASE i \in 1..Len(h)
    <3>1. h[i].version <= version /\ h[i].version \in Nat
      BY <1>5, <1>6, <1>7, <2>2
    <3> QED
      BY <3>1, <2>2, <1>6, <1>8, <1>1
  <2> QED
    BY <1>6, <2>1, <2>2
<1>10. InOrder(Append(h, e))
  <2> SUFFICES ASSUME NEW i \in 1..(Len(h) + 1), NEW j \in 1..(Len(h) + 1), i <= j
               PROVE  Append(h, e)[i].version <= Append(h, e)[j].version
    BY <1>6 DEF InOrder
  <2>1. CASE j = Len(h) + 1
    BY <2>1, <1>6, <1>9
  <2>2. CASE j \in 1..Len(h)
    <3>1. i \in 1..Len(h)
      BY <2>2, <1>6
    <3>2. h[i].version <= h[j].version
      BY <3>1, <2>2, <1>5, <1>6 DEF InOrder
    <3> QED
      BY <3>1, <3>2, <2>2, <1>6
  <2> QED
    BY <1>6, <2>1, <2>2
<1>11. \A j \in Keys : InOrder(entries'[j])
  BY <1>1, <1>4, <1>10 DEF h
<1>12. \A j \in Keys : \A i \in DOMAIN entries'[j] : entries'[j][i].version <= e.version
  <2> SUFFICES ASSUME NEW j \in Keys, NEW i \in DOMAIN entries'[j]
               PROVE  entries'[j][i].version <= e.version
    OBVIOUS
  <2>1. CASE j = k
    BY <2>1, <1>4, <1>9 DEF h
  <2>2. CASE j # k
    <3>1. i \in DOMAIN entries[j] /\ entries'[j][i] = entries[j][i] /\ entries[j] \in Seq(Entry)
      BY <2>2, <1>4, <1>1
    <3>2. entries[j][i].version <= version /\ entries[j][i].version \in Nat
      <4>1. entries[j][i] \in Entry
        BY <3>1
      <4> QED
        BY <3>1, <4>1, <1>1, EntryTypes
    <3> QED
      BY <3>1, <3>2, <1>1, <1>8
  <2> QED
    BY <2>1, <2>2
<1> QED
  BY <1>4, <1>11, <1>12

\* set and delete write an entry of the present moment, no older than the last.
LEMMA WrittenEntries ==
  ASSUME KvInv,
         \/ \E k \in Keys, v \in Vals \cup {Null}, ttl \in Ttls, ver \in NextVersions :
              Set(k, v, ttl, ver)
         \/ \E k \in Keys, ver \in NextVersions : Delete(k, ver)
  PROVE  \E k \in Keys, e \in Entry :
           /\ version <= e.version
           /\ e.updated = now
           /\ Write(k, e)
<1>1. /\ entries \in [Keys -> Seq(Entry)]
      /\ now \in 0..MaxClock
      /\ version \in 0..MaxVersion
      /\ MaxVersion \in Nat
  BY KvStoreAssumption DEF KvInv, TypeOK, Snapshots
<1>2. \A ver \in NextVersions : ver \in 0..MaxVersion /\ version <= ver
  BY <1>1, KvStoreAssumption DEF NextVersions
<1>3. ASSUME NEW k \in Keys, NEW v \in Vals \cup {Null}, NEW ttl \in Ttls,
             NEW ver \in NextVersions, Set(k, v, ttl, ver)
      PROVE  \E e \in Entry : version <= e.version /\ e.updated = now /\ Write(k, e)
  <2> DEFINE created == IF entries[k] = <<>> THEN now ELSE Newest(entries[k]).created
             e == [value |-> v, ttl |-> ttl, version |-> ver, updated |-> now,
                   created |-> created]
  <2>1. created \in 0..MaxClock
    <3>1. CASE entries[k] = <<>>
      BY <3>1, <1>1
    <3>2. CASE entries[k] # <<>>
      <4>1. Newest(entries[k]) \in Entry
        BY <3>2, <1>1 DEF Newest
      <4> QED
        BY <3>2, <4>1 DEF Entry
    <3> QED
      BY <3>1, <3>2
  <2>2. Write(k, e)
    BY <1>3 DEF Set
  <2> HIDE DEF created
  <2>3. e \in Entry /\ version <= e.version /\ e.updated = now
    BY <1>1, <1>2, <2>1 DEF Entry
  <2> QED
    BY <2>2, <2>3
<1>4. ASSUME NEW k \in Keys, NEW ver \in NextVersions, Delete(k, ver)
      PROVE  \E e \in Entry : version <= e.version /\ e.updated = now /\ Write(k, e)
  <2> DEFINE e == [value |-> Null, ttl |-> NoTtl, version |-> ver, updated |-> now,
                   created |-> now]
  <2>1. Write(k, e)
    BY <1>4 DEF Delete
  <2>2. e \in Entry /\ version <= e.version /\ e.updated = now
    BY <1>1, <1>2 DEF Entry
  <2> QED
    BY <2>1, <2>2
<1> QED
  BY <1>3, <1>4

\* What a checkpoint saves of a key: nothing, or its newest version.
LEMMA SavedHistory ==
  ASSUME KvInv, NEW k \in Keys
  PROVE  \/ Saved(entries[k]) = <<>>
         \/ /\ entries[k] # <<>>
            /\ Newest(entries[k]) \in Entry
            /\ Saved(entries[k]) = <<Newest(entries[k])>>
<1>1. entries[k] \in Seq(Entry)
  BY DEF KvInv, TypeOK
<1>2. entries[k] # <<>> => Newest(entries[k]) \in Entry
  BY <1>1 DEF Newest
<1> QED
  BY <1>2 DEF Saved

\* Entries as a checkpoint and as the log restore them.
LEMMA RestoredEntries ==
  ASSUME KvInv, NEW e \in Entry
  PROVE  /\ Restored(e) \in Entry /\ Restamped(e) \in Entry
         /\ Restored(e).version = e.version /\ Restamped(e).version = e.version
         /\ Restored(e).value = e.value /\ Restamped(e).value = e.value
         /\ Restamped(e).updated = now /\ Restored(e).updated = now
         /\ Restamped(e).ttl = e.ttl
         /\ Restored(e).ttl = IF e.ttl = 0 THEN NoTtl ELSE e.ttl
BY DEF Restored, Restamped, Entry, KvInv, TypeOK

\* The history of a key after a reopen from the checkpoint.
LEMMA AfterCheckpoint ==
  ASSUME KvInv, ReopenFromCheckpoint, NEW k \in Keys
  PROVE  \/ entries'[k] = <<>>
         \/ /\ entries[k] # <<>>
            /\ Newest(entries[k]) \in Entry
            /\ Saved(entries[k]) = <<Newest(entries[k])>>
            /\ entries'[k] = <<Restored(Newest(entries[k]))>>
<1>1. entries'[k] = EachOf(Saved(entries[k]), Restored)
  BY DEF ReopenFromCheckpoint
<1>2. CASE Saved(entries[k]) = <<>>
  BY <1>1, <1>2 DEF EachOf
<1>3. CASE Saved(entries[k]) # <<>>
  <2> DEFINE e == Newest(entries[k])
  <2>1. /\ entries[k] # <<>>
        /\ e \in Entry
        /\ Saved(entries[k]) = <<e>>
    BY <1>3, SavedHistory
  <2>2. entries'[k] = [i \in DOMAIN <<e>> |-> Restored(<<e>>[i])]
    BY <1>1, <2>1 DEF EachOf
  <2> HIDE DEF e
  <2>3. entries'[k] = <<Restored(e)>>
    BY <2>2
  <2> QED
    BY <2>1, <2>3 DEF e
<1> QED
  BY <1>2, <1>3

\* The history of a key after a reopen from the log.
LEMMA AfterReplay ==
  ASSUME KvInv, ReopenFromLog, NEW k \in Keys
  PROVE  /\ entries'[k] \in Seq(Entry)
         /\ Len(entries'[k]) = Len(entries[k])
         /\ \A i \in 1..Len(entries[k]) : entries'[k][i] = Restamped(entries[k][i])
<1> DEFINE h == entries[k]
<1>1. h \in Seq(Entry)
  BY DEF KvInv, TypeOK
<1>2. entries'[k] = [i \in 1..Len(h) |-> Restamped(h[i])]
  BY <1>1 DEF ReopenFromLog, EachOf
<1> HIDE DEF h
<1>3. \A i \in 1..Len(h) : Restamped(h[i]) \in Entry
  BY <1>1, RestoredEntries
<1>4. Len(h) \in Nat
  BY <1>1
<1>5. /\ entries'[k] \in Seq(Entry)
      /\ Len(entries'[k]) = Len(h)
      /\ \A i \in 1..Len(h) : entries'[k][i] = Restamped(h[i])
  BY <1>2, <1>3, <1>4
<1> QED
  BY <1>5 DEF h

\* The invariant holds at first.
LEMMA InvInit == Init => KvInv
<1> SUFFICES ASSUME Init PROVE KvInv
  OBVIOUS
<1>1. \A k \in Keys : entries[k] = <<>>
  BY DEF Init
<1>2. entries \in [Keys -> Seq(Entry)]
  BY DEF Init
<1>3. \A k \in Keys : InOrder(entries[k])
  BY <1>1 DEF InOrder
<1>4. version \in Snapshots /\ now \in 0..MaxClock
  BY KvStoreAssumption DEF Init, Snapshots
<1>5. wholeLog \in BOOLEAN /\ writes \in 0..MaxWrites /\ reopens \in 0..MaxReopens
  BY KvStoreAssumption DEF Init
<1>6. Bounded
  BY <1>1 DEF Bounded
<1> QED
  BY <1>2, <1>3, <1>4, <1>5, <1>6 DEF KvInv, TypeOK

\* Every step preserves it.
LEMMA InvStep == KvInv /\ [Next]_vars => KvInv'
<1> SUFFICES ASSUME KvInv, [Next]_vars PROVE KvInv'
  OBVIOUS
<1>0. /\ entries \in [Keys -> Seq(Entry)]
      /\ \A k \in Keys : InOrder(entries[k])
      /\ \A k \in Keys : \A i \in DOMAIN entries[k] : entries[k][i].version <= version
      /\ now \in 0..MaxClock /\ version \in Snapshots /\ wholeLog \in BOOLEAN
      /\ writes \in 0..MaxWrites /\ reopens \in 0..MaxReopens
  BY DEF KvInv, TypeOK, Bounded
<1>1. ASSUME NEW k \in Keys, NEW e \in Entry, version <= e.version, Write(k, e)
      PROVE  KvInv'
  <2>1. Push(k, e) /\ version' = e.version /\ writes' = writes + 1 /\ writes < MaxWrites
        /\ UNCHANGED <<now, wholeLog, reopens>>
    BY <1>1 DEF Write
  <2>2. /\ entries' \in [Keys -> Seq(Entry)]
        /\ \A j \in Keys : InOrder(entries'[j])
        /\ \A j \in Keys : \A i \in DOMAIN entries'[j] : entries'[j][i].version <= version'
    BY <1>1, <2>1, PushType
  <2>3. version' \in Snapshots
    BY <2>1 DEF Entry, Snapshots
  <2>4. writes' \in 0..MaxWrites
    BY <1>0, <2>1, KvStoreAssumption
  <2> QED
    BY <1>0, <2>1, <2>2, <2>3, <2>4 DEF KvInv, TypeOK, Bounded
<1>2. CASE Tick
  <2>1. now' \in 0..MaxClock
    BY <1>0, <1>2, KvStoreAssumption DEF Tick
  <2> QED
    BY <1>0, <1>2, <2>1 DEF Tick, KvInv, TypeOK, Bounded
<1>3. CASE ReopenFromCheckpoint
  <2>1. UNCHANGED <<now, version, writes>> /\ wholeLog' = FALSE
        /\ reopens' = reopens + 1 /\ reopens < MaxReopens
    BY <1>3 DEF ReopenFromCheckpoint
  <2>2. ASSUME NEW k \in Keys
        PROVE  /\ entries'[k] \in Seq(Entry)
               /\ InOrder(entries'[k])
               /\ \A i \in DOMAIN entries'[k] : entries'[k][i].version <= version
    <3>1. CASE entries'[k] = <<>>
      BY <3>1 DEF InOrder
    <3>2. CASE entries'[k] # <<>>
      <4> DEFINE e == Newest(entries[k])
                 r == Restored(e)
      <4>1. entries[k] # <<>> /\ e \in Entry /\ entries'[k] = <<r>>
        BY <1>3, <3>2, AfterCheckpoint
      <4>2. r \in Entry /\ r.version = e.version
        BY <4>1, RestoredEntries
      <4>3. e.version <= version
        <5>1. Len(entries[k]) \in DOMAIN entries[k]
          BY <1>0, <4>1
        <5> QED
          BY <1>0, <5>1 DEF Newest
      <4>4. r.version <= r.version
        BY <4>2, KvStoreAssumption DEF Entry
      <4> HIDE DEF r, e
      <4> QED
        BY <4>1, <4>2, <4>3, <4>4 DEF InOrder
    <3> QED
      BY <3>1, <3>2
  <2>3. entries' \in [Keys -> Seq(Entry)]
    <3>1. entries' = [k \in Keys |-> entries'[k]]
      BY <1>3 DEF ReopenFromCheckpoint
    <3> QED
      BY <2>2, <3>1
  <2>4. reopens' \in 0..MaxReopens
    BY <1>0, <2>1, KvStoreAssumption
  <2> QED
    BY <1>0, <2>1, <2>2, <2>3, <2>4 DEF KvInv, TypeOK, Bounded
<1>4. CASE ReopenFromLog
  <2>1. UNCHANGED <<now, version, writes, wholeLog>>
        /\ reopens' = reopens + 1 /\ reopens < MaxReopens
    BY <1>4 DEF ReopenFromLog
  <2>2. ASSUME NEW k \in Keys
        PROVE  /\ entries'[k] \in Seq(Entry)
               /\ InOrder(entries'[k])
               /\ \A i \in DOMAIN entries'[k] : entries'[k][i].version <= version
    <3> DEFINE h == entries[k]
               g == entries'[k]
    <3>1. h \in Seq(Entry) /\ InOrder(h) /\ \A i \in DOMAIN h : h[i].version <= version
      BY <1>0
    <3>2. g \in Seq(Entry) /\ Len(g) = Len(h)
      BY <1>4, AfterReplay
    <3>3. \A i \in 1..Len(h) : g[i].version = h[i].version
      BY <1>4, <3>1, AfterReplay, RestoredEntries
    <3> HIDE DEF g, h
    <3>4. DOMAIN g = 1..Len(h) /\ DOMAIN h = 1..Len(h)
      BY <3>1, <3>2
    <3> QED
      BY <3>1, <3>2, <3>3, <3>4 DEF InOrder, g
  <2>3. entries' \in [Keys -> Seq(Entry)]
    <3>1. entries' = [k \in Keys |-> entries'[k]]
      BY <1>4 DEF ReopenFromLog
    <3> QED
      BY <2>2, <3>1
  <2>4. reopens' \in 0..MaxReopens
    BY <1>0, <2>1, KvStoreAssumption
  <2> QED
    BY <1>0, <2>1, <2>2, <2>3, <2>4 DEF KvInv, TypeOK, Bounded
<1>5. CASE UNCHANGED vars
  BY <1>0, <1>5 DEF vars, KvInv, TypeOK, Bounded
<1> QED
  BY <1>1, <1>2, <1>3, <1>4, <1>5, WrittenEntries DEF Next

LEMMA Invariance == Spec => []KvInv
<1> QED
  BY InvInit, InvStep, PTL DEF Spec

\* The histories hold entries in the order of their versions, whoever calls: the
\* binary search of get_at_snapshot finds what it looks for.
THEOREM TypeCorrect == Spec => []TypeOK
<1>1. KvInv => TypeOK
  BY DEF KvInv
<1> QED
  BY <1>1, Invariance, PTL

-----------------------------------------------------------------------------
(* What snapshots read *)

\* A read finds nothing or what it would find if nothing expired.
LEMMA ReadsUnexpiredOrNothing ==
  ASSUME NEW k \in Keys, NEW s \in Nat
  PROVE  GetAtSnapshot(k, s) \in {Null, Unexpired(k, s)}
BY DEF GetAtSnapshot, Unexpired

\* The same, before and after a step that keeps the value a snapshot sees.
LEMMA SameValueSeen ==
  ASSUME NEW k \in Keys, NEW s \in Nat,
         VisibleAt(entries'[k], s) = VisibleAt(entries[k], s),
         VisibleAt(entries[k], s) # {} =>
           entries'[k][Max(VisibleAt(entries[k], s))].value
             = entries[k][Max(VisibleAt(entries[k], s))].value
  PROVE  GetAtSnapshot(k, s)' \in {Null, Unexpired(k, s)}
BY DEF GetAtSnapshot, Unexpired

\* A write with a version above the snapshot leaves the read as it was.
LEMMA WriteKeepsEarlierReads ==
  ASSUME KvInv, NEW j \in Keys, NEW e \in Entry, version <= e.version, Write(j, e),
         NEW k \in Keys, NEW s \in Snapshots \ {0}, s < version'
  PROVE  GetAtSnapshot(k, s)' = GetAtSnapshot(k, s)
<1>1. /\ Push(j, e) /\ version' = e.version /\ now' = now
  BY DEF Write
<1>2. /\ entries'[j] = Append(entries[j], e)
      /\ k # j => entries'[k] = entries[k]
  BY <1>1, PushType
<1>3. s \in Nat
  BY KvStoreAssumption DEF Snapshots
<1>4. CASE k # j
  BY <1>1, <1>2, <1>4 DEF GetAtSnapshot, Expired, ExpiresAt
<1>5. CASE k = j
  <2> DEFINE h == entries[k]
             T == VisibleAt(h, s)
  <2>1. h \in Seq(Entry) /\ entries'[k] = Append(h, e)
    BY <1>2, <1>5 DEF KvInv, TypeOK
  <2>2. VisibleAt(Append(h, e), s) = T
    BY <1>1, <1>3, <2>1, BlindToNewer
  <2>3. T # {} => Max(T) \in 1..Len(h)
    BY <1>3, <2>1, SeenPositions
  <2> HIDE DEF T, h
  <2>4. T # {} => Append(h, e)[Max(T)] = h[Max(T)]
    BY <2>1, <2>3
  <2> QED
    BY <1>1, <2>1, <2>2, <2>4 DEF GetAtSnapshot, Expired, ExpiresAt, T, h
<1> QED
  BY <1>4, <1>5

\* A reopen from the checkpoint leaves a snapshot its value or nothing.
LEMMA CheckpointInventsNothing ==
  ASSUME KvInv, ReopenFromCheckpoint, NEW k \in Keys, NEW s \in Nat
  PROVE  GetAtSnapshot(k, s)' \in {Null, Unexpired(k, s)}
<1>1. CASE entries'[k] = <<>>
  <2>1. VisibleAt(entries'[k], s) = {}
    BY <1>1 DEF VisibleAt
  <2> QED
    BY <2>1 DEF GetAtSnapshot
<1>2. CASE entries'[k] # <<>>
  <2> DEFINE e == Newest(entries[k])
             r == Restored(e)
  <2>1. entries[k] # <<>> /\ e \in Entry /\ entries'[k] = <<r>>
    BY <1>2, AfterCheckpoint
  <2>2. r \in Entry /\ r.version = e.version /\ r.value = e.value
    BY <2>1, RestoredEntries
  <2>3. entries[k] \in Seq(Entry)
    BY DEF KvInv, TypeOK
  <2> HIDE DEF r
  <2>4. DOMAIN <<r>> = {1} /\ <<r>>[1] = r /\ <<r>> \in Seq(Entry) /\ <<r>> # <<>>
        /\ Len(<<r>>) = 1
    BY <2>2
  <2>5. CASE s = 0 \/ e.version <= s
    <3>1. /\ VisibleAt(entries[k], s) # {}
          /\ Max(VisibleAt(entries[k], s)) = Len(entries[k])
      BY <2>1, <2>3, <2>5, SeesNewest
    <3>2. Unexpired(k, s) = e.value
      BY <3>1 DEF Unexpired, Newest
    <3>3. Newest(<<r>>) = r
      BY <2>4 DEF Newest
    <3>4. VisibleAt(<<r>>, s) # {} /\ Max(VisibleAt(<<r>>, s)) = 1
      BY <2>2, <2>4, <2>5, <3>3, SeesNewest
    <3> QED
      BY <2>1, <2>2, <2>4, <3>2, <3>4 DEF GetAtSnapshot
  <2>6. CASE ~(s = 0 \/ e.version <= s)
    <3>1. VisibleAt(<<r>>, s) = {}
      BY <2>2, <2>4, <2>6 DEF VisibleAt
    <3> QED
      BY <2>1, <3>1 DEF GetAtSnapshot
  <2> QED
    BY <2>5, <2>6
<1> QED
  BY <1>1, <1>2

\* Replay keeps the versions and values of every history.
LEMMA ReplayInventsNothing ==
  ASSUME KvInv, ReopenFromLog, NEW k \in Keys, NEW s \in Nat
  PROVE  /\ VisibleAt(entries'[k], s) = VisibleAt(entries[k], s)
         /\ VisibleAt(entries[k], s) # {} =>
              entries'[k][Max(VisibleAt(entries[k], s))]
                = Restamped(entries[k][Max(VisibleAt(entries[k], s))])
<1> DEFINE h == entries[k]
           g == entries'[k]
<1>1. h \in Seq(Entry)
  BY DEF KvInv, TypeOK
<1>2. /\ g \in Seq(Entry) /\ Len(g) = Len(h)
      /\ \A i \in 1..Len(h) : g[i] = Restamped(h[i])
  BY AfterReplay
<1>3. \A i \in 1..Len(h) : g[i].version = h[i].version
  BY <1>1, <1>2, RestoredEntries
<1> HIDE DEF g, h
<1>4. DOMAIN g = DOMAIN h /\ DOMAIN h = 1..Len(h)
  BY <1>1, <1>2
<1>5. VisibleAt(g, s) = VisibleAt(h, s)
  <2>1. \A i \in DOMAIN h : g[i].version <= s <=> h[i].version <= s
    BY <1>3, <1>4
  <2> QED
    BY <1>4, <2>1 DEF VisibleAt
<1>6. VisibleAt(h, s) # {} => Max(VisibleAt(h, s)) \in 1..Len(h)
  BY <1>1, SeenPositions
<1> QED
  BY <1>2, <1>5, <1>6 DEF g, h

\* No later write changes what an earlier snapshot reads; time and a reopen can
\* make it read nothing, never another value.
THEOREM SnapshotsAreStable == Spec => EarlierSnapshotsKeepReading
<1>1. ASSUME KvInv, [Next]_vars, NEW k \in Keys, NEW s \in Snapshots \ {0}, s < version'
      PROVE  /\ GetAtSnapshot(k, s)' \in {Null, Unexpired(k, s)}
             /\ writes' # writes => GetAtSnapshot(k, s)' = GetAtSnapshot(k, s)
  <2>1. s \in Nat /\ GetAtSnapshot(k, s) \in {Null, Unexpired(k, s)}
    BY ReadsUnexpiredOrNothing, KvStoreAssumption DEF Snapshots
  <2>2. ASSUME NEW j \in Keys, NEW e \in Entry, version <= e.version, Write(j, e)
        PROVE  GetAtSnapshot(k, s)' = GetAtSnapshot(k, s)
    BY <1>1, <2>2, WriteKeepsEarlierReads
  <2>3. CASE Tick
    <3>1. entries' = entries /\ writes' = writes
      BY <2>3 DEF Tick
    <3> QED
      BY <2>1, <3>1, SameValueSeen
  <2>4. CASE ReopenFromCheckpoint
    <3>1. writes' = writes
      BY <2>4 DEF ReopenFromCheckpoint
    <3> QED
      BY <1>1, <2>1, <2>4, <3>1, CheckpointInventsNothing
  <2>5. CASE ReopenFromLog
    <3>1. writes' = writes
      BY <2>5 DEF ReopenFromLog
    <3>2. \A i \in DOMAIN entries[k] : Restamped(entries[k][i]).value = entries[k][i].value
      <4>1. \A i \in DOMAIN entries[k] : entries[k][i] \in Entry
        BY <1>1 DEF KvInv, TypeOK
      <4> QED
        BY <1>1, <4>1, RestoredEntries
    <3>3. VisibleAt(entries[k], s) # {} =>
            Max(VisibleAt(entries[k], s)) \in DOMAIN entries[k]
      <4>1. entries[k] \in Seq(Entry)
        BY <1>1 DEF KvInv, TypeOK
      <4> QED
        BY <2>1, <4>1, SeenPositions
    <3>4. GetAtSnapshot(k, s)' \in {Null, Unexpired(k, s)}
      BY <1>1, <2>1, <2>5, <3>2, <3>3, SameValueSeen, ReplayInventsNothing
    <3> QED
      BY <3>1, <3>4
  <2>6. CASE UNCHANGED vars
    <3>1. entries' = entries /\ writes' = writes
      BY <2>6 DEF vars
    <3> QED
      BY <2>1, <3>1, SameValueSeen
  <2> QED
    BY <1>1, <2>1, <2>2, <2>3, <2>4, <2>5, <2>6, WrittenEntries DEF Next
<1>2. KvInv /\ [Next]_vars =>
        [\A k \in Keys, s \in Snapshots \ {0} : s < version' =>
           /\ GetAtSnapshot(k, s)' \in {Null, Unexpired(k, s)}
           /\ writes' # writes => GetAtSnapshot(k, s)' = GetAtSnapshot(k, s)]_vars
  BY <1>1
<1> QED
  BY <1>2, Invariance, PTL DEF Spec, EarlierSnapshotsKeepReading

\* A writer reads its own write at once, at snapshot 0 and at every snapshot that
\* includes it, unless the time to live is 0.
THEOREM WritesAreRead == Spec => WritersReadTheirWrites
<1>1. ASSUME KvInv, NEW j \in Keys, NEW e \in Entry, version <= e.version,
             e.updated = now, Write(j, e),
             NEW k \in Keys, Len(entries'[k]) > Len(entries[k]),
             NEW s \in {0} \cup version'..MaxVersion
      PROVE  GetAtSnapshot(k, s)' =
               IF Newest(entries'[k]).ttl = 0 THEN Null ELSE Newest(entries'[k]).value
  <2>1. Push(j, e) /\ version' = e.version /\ now' = now
    BY <1>1 DEF Write
  <2>2. /\ entries[k] \in Seq(Entry)
        /\ entries'[j] = Append(entries[j], e)
        /\ k # j => entries'[k] = entries[k]
    BY <1>1, <2>1, PushType DEF KvInv, TypeOK
  <2>3. k = j
    <3> SUFFICES ASSUME k # j PROVE FALSE
      OBVIOUS
    <3>1. Len(entries'[k]) = Len(entries[k]) /\ Len(entries[k]) \in Nat
      BY <2>2
    <3> QED
      BY <1>1, <3>1
  <2> DEFINE g == Append(entries[k], e)
  <2>4. g \in Seq(Entry) /\ g # <<>> /\ Newest(g) = e /\ g[Len(g)] = e /\ entries'[k] = g
    BY <2>2, <2>3 DEF Newest
  <2>5. e.version \in Nat /\ s \in Nat /\ (s = 0 \/ e.version <= s)
    BY <2>1, EntryTypes, KvStoreAssumption
  <2> HIDE DEF g
  <2>6. VisibleAt(g, s) # {} /\ Max(VisibleAt(g, s)) = Len(g)
    BY <2>4, <2>5, SeesNewest
  <2>7. GetAtSnapshot(k, s)' = IF Expired(e)' THEN Null ELSE e.value
    BY <2>4, <2>6 DEF GetAtSnapshot
  <2>8. Expired(e)' <=> e.ttl = 0
    <3>1. now \in Nat /\ (e.ttl \in Nat \/ e.ttl = NoTtl) /\ NoTtl \notin Nat
      BY <1>1, EntryTypes, ClockIsNat, KvStoreAssumption
    <3>2. Expired(e)' <=> e.ttl # NoTtl /\ now >= now + e.ttl
      BY <1>1, <2>1 DEF Expired, ExpiresAt
    <3> QED
      BY <3>1, <3>2
  <2> QED
    BY <2>4, <2>7, <2>8
<1>2. ASSUME KvInv, [Next]_vars, NEW k \in Keys, Len(entries'[k]) > Len(entries[k]),
             NEW s \in {0} \cup version'..MaxVersion
      PROVE  GetAtSnapshot(k, s)' =
               IF Newest(entries'[k]).ttl = 0 THEN Null ELSE Newest(entries'[k]).value
  <2>1. entries[k] \in Seq(Entry) /\ Len(entries[k]) \in Nat
    BY <1>2 DEF KvInv, TypeOK
  <2>2. CASE Tick \/ UNCHANGED vars
    <3>1. entries'[k] = entries[k]
      BY <2>2 DEF Tick, vars
    <3> QED
      BY <1>2, <2>1, <3>1
  <2>3. CASE ReopenFromCheckpoint
    <3>1. CASE entries'[k] = <<>>
      BY <1>2, <2>1, <3>1
    <3>2. CASE entries'[k] # <<>>
      <4>1. entries[k] # <<>> /\ entries'[k] = <<Restored(Newest(entries[k]))>>
        BY <1>2, <2>3, <3>2, AfterCheckpoint
      <4>2. Len(entries'[k]) = 1 /\ Len(entries[k]) >= 1
        BY <2>1, <4>1
      <4> QED
        BY <1>2, <2>1, <4>2
    <3> QED
      BY <3>1, <3>2
  <2>4. CASE ReopenFromLog
    <3>1. Len(entries'[k]) = Len(entries[k])
      BY <1>2, <2>4, AfterReplay
    <3> QED
      BY <1>2, <2>1, <3>1
  <2> QED
    BY <1>1, <1>2, <2>2, <2>3, <2>4, WrittenEntries DEF Next
<1>3. KvInv /\ [Next]_vars =>
        [\A k \in Keys : Len(entries'[k]) > Len(entries[k]) =>
           LET e == Newest(entries'[k])
           IN  \A s \in {0} \cup version'..MaxVersion :
                 GetAtSnapshot(k, s)' = IF e.ttl = 0 THEN Null ELSE e.value]_vars
  BY <1>2
<1> QED
  BY <1>3, Invariance, PTL DEF Spec, WritersReadTheirWrites

\* A scan agrees with the gets at its snapshot on every key that was not written
\* again after the snapshot, and shows nothing else.
THEOREM ScansAgreeWithGets == Spec => []ScanAgreesWithGet
<1>1. ASSUME KvInv, NEW p \in Prefixes, NEW s \in Snapshots
      PROVE  LET newer == {k \in p : entries[k] # <<>> /\ Newest(entries[k]).version > s}
             IN  PrefixScan(p, s) = {<<k, GetAtSnapshot(k, s)>> :
                                     k \in {k \in p \ newer : GetAtSnapshot(k, s) # Null}}
  <2> DEFINE newer == {k \in p : entries[k] # <<>> /\ Newest(entries[k]).version > s}
             shown == {k \in p : /\ entries[k] # <<>>
                                 /\ Newest(entries[k]).version <= s
                                 /\ ~Expired(Newest(entries[k]))
                                 /\ Newest(entries[k]).value # Null}
             read == {k \in p \ newer : GetAtSnapshot(k, s) # Null}
  <2>1. p \subseteq Keys /\ s \in Nat
    BY KvStoreAssumption DEF Snapshots
  <2>2. ASSUME NEW k \in p, entries[k] = <<>>
        PROVE  k \notin shown /\ k \notin read
    <3>1. VisibleAt(entries[k], s) = {}
      BY <2>2 DEF VisibleAt
    <3> QED
      BY <2>2, <3>1 DEF GetAtSnapshot
  <2>3. ASSUME NEW k \in p, entries[k] # <<>>
        PROVE  /\ Newest(entries[k]).version <= s <=> k \notin newer
               /\ Newest(entries[k]).version <= s =>
                    GetAtSnapshot(k, s) = IF Expired(Newest(entries[k])) THEN Null
                                          ELSE Newest(entries[k]).value
    <3>1. entries[k] \in Seq(Entry)
      BY <1>1, <2>1 DEF KvInv, TypeOK
    <3>2. Newest(entries[k]) \in Entry /\ Newest(entries[k]) = entries[k][Len(entries[k])]
      BY <2>3, <3>1 DEF Newest
    <3>3. Newest(entries[k]).version \in Nat
      BY <3>2, KvStoreAssumption DEF Entry
    <3>4. Newest(entries[k]).version <= s <=> k \notin newer
      BY <2>1, <2>3, <3>3
    <3>5. Newest(entries[k]).version <= s =>
            VisibleAt(entries[k], s) # {} /\ Max(VisibleAt(entries[k], s)) = Len(entries[k])
      BY <2>1, <2>3, <3>1, SeesNewest
    <3> QED
      BY <3>2, <3>4, <3>5 DEF GetAtSnapshot
  <2>4. shown = read
    <3>1. \A k \in p : k \in shown <=> k \in read
      BY <2>2, <2>3
    <3> QED
      BY <3>1
  <2>5. \A k \in shown : Newest(entries[k]).value = GetAtSnapshot(k, s)
    BY <2>3
  <2>6. PrefixScan(p, s) = {<<k, Newest(entries[k]).value>> : k \in shown}
    BY DEF PrefixScan
  <2> HIDE DEF shown, read
  <2> QED
    BY <2>4, <2>5, <2>6 DEF read
<1>2. KvInv => ScanAgreesWithGet
  BY <1>1 DEF ScanAgreesWithGet
<1> QED
  BY <1>2, Invariance, PTL

-----------------------------------------------------------------------------
(* Reopening *)

\* No entry is from the future: with a time to live of 0 it has expired.
Stamped == \A k \in Keys : \A i \in DOMAIN entries[k] : entries[k][i].updated <= now

LEMMA StampedInit == Init => Stamped
BY DEF Init, Stamped

LEMMA StampedStep == KvInv /\ Stamped /\ [Next]_vars => Stamped'
<1> SUFFICES ASSUME KvInv, Stamped, [Next]_vars PROVE Stamped'
  OBVIOUS
<1>0. /\ now \in Nat
      /\ \A k \in Keys : entries[k] \in Seq(Entry)
      /\ \A k \in Keys : \A i \in DOMAIN entries[k] :
           entries[k][i].updated \in Nat /\ entries[k][i].updated <= now
  <2>1. \A k \in Keys : entries[k] \in Seq(Entry)
    BY DEF KvInv, TypeOK
  <2>2. ASSUME NEW k \in Keys, NEW i \in DOMAIN entries[k]
        PROVE  entries[k][i].updated \in Nat /\ entries[k][i].updated <= now
    <3>1. entries[k][i] \in Entry
      BY <2>1, <2>2
    <3> QED
      BY <2>2, <3>1, EntryTypes DEF Stamped
  <2> QED
    BY <2>1, <2>2, ClockIsNat
<1>1. ASSUME NEW j \in Keys, NEW e \in Entry, version <= e.version,
             e.updated = now, Write(j, e)
      PROVE  Stamped'
  <2>1. Push(j, e) /\ now' = now
    BY <1>1 DEF Write
  <2>2. /\ entries'[j] = Append(entries[j], e)
        /\ \A k \in Keys \ {j} : entries'[k] = entries[k]
    BY <1>1, <2>1, PushType
  <2> SUFFICES ASSUME NEW k \in Keys, NEW i \in DOMAIN entries'[k]
               PROVE  entries'[k][i].updated <= now
    BY <2>1 DEF Stamped
  <2>3. CASE k # j
    BY <1>0, <2>2, <2>3
  <2>4. CASE k = j
    <3> DEFINE h == entries[k]
    <3>1. h \in Seq(Entry) /\ entries'[k] = Append(h, e)
      BY <1>0, <2>2, <2>4
    <3>2. \A m \in DOMAIN h : h[m].updated <= now
      BY <1>0
    <3> HIDE DEF h
    <3>3. i \in 1..(Len(h) + 1)
      BY <3>1
    <3>4. CASE i = Len(h) + 1
      BY <1>0, <1>1, <3>1, <3>4
    <3>5. CASE i \in 1..Len(h)
      BY <3>1, <3>2, <3>5
    <3> QED
      BY <3>1, <3>3, <3>4, <3>5
  <2> QED
    BY <2>3, <2>4
<1>2. CASE Tick
  BY <1>0, <1>2 DEF Tick, Stamped
<1>3. CASE ReopenFromCheckpoint
  <2>1. now' = now
    BY <1>3 DEF ReopenFromCheckpoint
  <2>2. ASSUME NEW k \in Keys, NEW i \in DOMAIN entries'[k]
        PROVE  entries'[k][i].updated <= now
    <3> DEFINE e == Newest(entries[k])
               r == Restored(e)
    <3>1. CASE entries'[k] = <<>>
      BY <3>1, <2>2
    <3>2. CASE entries'[k] # <<>>
      <4>1. e \in Entry /\ entries'[k] = <<r>>
        BY <1>3, <3>2, AfterCheckpoint
      <4>2. r.updated = now
        BY <4>1, RestoredEntries
      <4> HIDE DEF r
      <4> QED
        BY <1>0, <2>2, <4>1, <4>2
    <3> QED
      BY <3>1, <3>2
  <2> QED
    BY <2>1, <2>2 DEF Stamped
<1>4. CASE ReopenFromLog
  <2>1. now' = now
    BY <1>4 DEF ReopenFromLog
  <2>2. ASSUME NEW k \in Keys, NEW i \in DOMAIN entries'[k]
        PROVE  entries'[k][i].updated <= now
    <3>1. i \in 1..Len(entries[k]) /\ entries[k][i] \in Entry
          /\ entries'[k][i] = Restamped(entries[k][i])
      <4>1. /\ entries'[k] \in Seq(Entry)
            /\ Len(entries'[k]) = Len(entries[k])
            /\ \A m \in 1..Len(entries[k]) : entries'[k][m] = Restamped(entries[k][m])
        BY <1>4, AfterReplay
      <4> QED
        BY <1>0, <2>2, <4>1
    <3>2. Restamped(entries[k][i]).updated = now
      BY <3>1, RestoredEntries
    <3> QED
      BY <1>0, <3>1, <3>2
  <2> QED
    BY <2>1, <2>2 DEF Stamped
<1>5. CASE UNCHANGED vars
  BY <1>5 DEF vars, Stamped
<1> QED
  BY <1>1, <1>2, <1>3, <1>4, <1>5, WrittenEntries DEF Next

\* At snapshot 0 a get reads the newest entry of a key.
LEMMA CurrentRead ==
  ASSUME KvInv, NEW k \in Keys
  PROVE  /\ entries[k] = <<>> => GetAtSnapshot(k, 0) = Null /\ Unexpired(k, 0) = Null
         /\ entries[k] # <<>> =>
              /\ Newest(entries[k]) \in Entry
              /\ Len(entries[k]) \in DOMAIN entries[k]
              /\ VisibleAt(entries[k], 0) # {}
              /\ Max(VisibleAt(entries[k], 0)) = Len(entries[k])
              /\ Unexpired(k, 0) = Newest(entries[k]).value
              /\ GetAtSnapshot(k, 0) = IF Expired(Newest(entries[k])) THEN Null
                                       ELSE Newest(entries[k]).value
<1>1. entries[k] \in Seq(Entry)
  BY DEF KvInv, TypeOK
<1>2. ASSUME entries[k] = <<>>
      PROVE  GetAtSnapshot(k, 0) = Null /\ Unexpired(k, 0) = Null
  <2>1. VisibleAt(entries[k], 0) = {}
    BY <1>2 DEF VisibleAt
  <2> QED
    BY <2>1 DEF GetAtSnapshot, Unexpired
<1>3. ASSUME entries[k] # <<>>
      PROVE  /\ Newest(entries[k]) \in Entry
             /\ Len(entries[k]) \in DOMAIN entries[k]
             /\ VisibleAt(entries[k], 0) # {}
             /\ Max(VisibleAt(entries[k], 0)) = Len(entries[k])
  BY <1>1, <1>3, SeesNewest DEF Newest
<1> QED
  BY <1>2, <1>3 DEF GetAtSnapshot, Unexpired, Newest

\* A reopen loses no value that could be read and brings back no deleted or
\* overwritten one; replay may bring back the newest value of a key after it has
\* expired.
THEOREM ReopenIsSafe == Spec => ReopenKeepsCurrentValues
<1>1. ASSUME KvInv, Stamped, ReopenFromCheckpoint, NEW k \in Keys
      PROVE  GetAtSnapshot(k, 0)' = GetAtSnapshot(k, 0)
  <2> DEFINE e == Newest(entries[k])
  <2>1. now' = now /\ entries'[k] = EachOf(Saved(entries[k]), Restored)
    BY <1>1 DEF ReopenFromCheckpoint
  <2>2. CASE entries'[k] = <<>>
    <3>1. VisibleAt(entries'[k], 0) = {}
      BY <2>2 DEF VisibleAt
    <3>2. GetAtSnapshot(k, 0)' = Null
      BY <3>1 DEF GetAtSnapshot
    <3>3. entries[k] = <<>> \/ e.value = Null \/ Expired(e)
      <4> SUFFICES ASSUME entries[k] # <<>>, e.value # Null, ~Expired(e)
                   PROVE  FALSE
        OBVIOUS
      <4>1. Saved(entries[k]) = <<e>>
        BY DEF Saved
      <4>2. DOMAIN entries'[k] = {1}
        BY <2>1, <4>1 DEF EachOf
      <4> QED
        BY <2>2, <4>2
    <3> QED
      BY <1>1, <3>2, <3>3, CurrentRead
  <2>3. CASE entries'[k] # <<>>
    <3>1. entries[k] # <<>> /\ e \in Entry /\ Saved(entries[k]) = <<e>>
          /\ entries'[k] = <<Restored(e)>>
      BY <1>1, <2>3, AfterCheckpoint
    <3>2. e.value # Null /\ ~Expired(e)
      BY <3>1 DEF Saved
    <3>3. GetAtSnapshot(k, 0) = e.value
      BY <1>1, <3>1, <3>2, CurrentRead
    <3>4. PICK r \in Entry : /\ entries'[k] = <<r>>
                             /\ r.value = e.value
                             /\ r.updated = now
                             /\ r.ttl = IF e.ttl = 0 THEN NoTtl ELSE e.ttl
      BY <1>1, <3>1, RestoredEntries
    <3>5. ~Expired(r)'
      <4>1. r.ttl \in Nat \cup {NoTtl} /\ r.ttl # 0
        BY <3>4, EntryTypes, KvStoreAssumption
      <4>2. Expired(r)' <=> r.ttl # NoTtl /\ now >= now + r.ttl
        BY <2>1, <3>4 DEF Expired, ExpiresAt
      <4> QED
        BY <1>1, <4>1, <4>2, ClockIsNat
    <3>6. <<r>> \in Seq(Entry) /\ <<r>> # <<>> /\ Len(<<r>>) = 1 /\ <<r>>[1] = r
      OBVIOUS
    <3>7. VisibleAt(<<r>>, 0) # {} /\ Max(VisibleAt(<<r>>, 0)) = 1
      BY <3>6, SeesNewest
    <3>8. GetAtSnapshot(k, 0)' = r.value
      BY <3>4, <3>5, <3>6, <3>7 DEF GetAtSnapshot
    <3> QED
      BY <3>3, <3>4, <3>8
  <2> QED
    BY <2>2, <2>3
<1>2. ASSUME KvInv, Stamped, ReopenFromLog, NEW k \in Keys
      PROVE  \/ GetAtSnapshot(k, 0)' = GetAtSnapshot(k, 0)
             \/ /\ GetAtSnapshot(k, 0) = Null
                /\ GetAtSnapshot(k, 0)' = Unexpired(k, 0)
                /\ wholeLog
  <2>1. now' = now /\ wholeLog
    BY <1>2 DEF ReopenFromLog
  <2>2. VisibleAt(entries'[k], 0) = VisibleAt(entries[k], 0)
    BY <1>2, ReplayInventsNothing
  <2>3. CASE entries[k] = <<>>
    <3>1. VisibleAt(entries[k], 0) = {}
      BY <2>3 DEF VisibleAt
    <3> QED
      BY <2>2, <3>1 DEF GetAtSnapshot
  <2>4. CASE entries[k] # <<>>
    <3>1. /\ VisibleAt(entries[k], 0) # {}
          /\ Max(VisibleAt(entries[k], 0)) = Len(entries[k])
          /\ Len(entries[k]) \in DOMAIN entries[k]
      BY <1>2, <2>4, CurrentRead
    <3>2. PICK e \in Entry : e = Newest(entries[k])
      BY <1>2, <2>4, CurrentRead
    <3>3. /\ Unexpired(k, 0) = e.value
          /\ GetAtSnapshot(k, 0) = IF Expired(e) THEN Null ELSE e.value
      BY <1>2, <2>4, <3>2, CurrentRead
    <3>4. PICK r \in Entry : /\ r = entries'[k][Len(entries[k])]
                             /\ r.value = e.value
                             /\ r.updated = now
                             /\ r.ttl = e.ttl
      BY <1>2, <3>1, <3>2, ReplayInventsNothing, RestoredEntries DEF Newest
    <3>5. e.updated <= now
      BY <1>2, <3>1, <3>2 DEF Stamped, Newest
    <3>6. GetAtSnapshot(k, 0)' = IF Expired(r)' THEN Null ELSE r.value
      BY <2>2, <3>1, <3>4 DEF GetAtSnapshot
    <3>7. Expired(r)' => Expired(e)
      <4>1. e.ttl \in Nat \cup {NoTtl} /\ now \in Nat /\ e.updated \in Nat
        BY <1>2, EntryTypes, ClockIsNat
      <4>2. Expired(r)' <=> e.ttl # NoTtl /\ now >= now + e.ttl
        BY <2>1, <3>4 DEF Expired, ExpiresAt
      <4>3. e.ttl # NoTtl /\ now >= now + e.ttl => now >= e.updated + e.ttl
        BY <3>5, <4>1
      <4> QED
        BY <4>2, <4>3 DEF Expired, ExpiresAt
    <3> QED
      BY <2>1, <3>3, <3>4, <3>6, <3>7
  <2> QED
    BY <2>3, <2>4
<1>3. ASSUME KvInv, Stamped, [Next]_vars, reopens' # reopens
      PROVE  ReopenFromCheckpoint \/ ReopenFromLog
  <2>1. \A k \in Keys, e \in Entry : ~Write(k, e)
    BY <1>3 DEF Write
  <2> QED
    BY <1>3, <2>1, WrittenEntries DEF Next, Tick, vars
<1>4. KvInv /\ Stamped /\ [Next]_vars =>
        [reopens' # reopens =>
           \A k \in Keys :
             \/ GetAtSnapshot(k, 0)' = GetAtSnapshot(k, 0)
             \/ /\ GetAtSnapshot(k, 0) = Null
                /\ GetAtSnapshot(k, 0)' = Unexpired(k, 0)
                /\ wholeLog]_vars
  BY <1>1, <1>2, <1>3
<1>5. Spec => []Stamped
  BY StampedInit, StampedStep, Invariance, PTL DEF Spec
<1> QED
  BY <1>4, <1>5, Invariance, PTL DEF Spec, ReopenKeepsCurrentValues
=============================================================================
