------------------------------ MODULE Paths_proofs ------------------------------
(***************************************************************************)
(* Theorems about paths: of an operation through the locks (BackendLocks)  *)
(* and through a graph (FlowAnalysis), for any number of threads, any sets *)
(* of operations used together and every graph.                            *)
(*                                                                         *)
(* The order of the locks is a fact about the paths of the operations.  It *)
(* is proved along the way they are put together: a path that is followed  *)
(* while H is held is calm if it leaves nothing held and each of its steps *)
(* may be taken with what is held by then; calm paths in turn are calm,    *)
(* and so is a calm path under a guard that it does not use itself.        *)
(*                                                                         *)
(* What can be reached in a graph is the least set that edges do not       *)
(* leave.  Everything said of dominators rests on one such set for each d: *)
(* the nodes that are reached past d, without its edges.                   *)
(***************************************************************************)
EXTENDS BackendLocks, FlowAnalysis, WellFoundedInduction, FiniteSetTheorems, TLAPS

Step == [act : {"read", "write", "release"}, lock : Locks]
Takes(s) == s.act # "release"

\* The locks a flush takes under the edge store's, and what comes between them.
Inner == {"alloc", "kv", "wal"}

\* What the locks already held, H, must be like for operation o to take step s.
HoldsOf(H, lock) == \E h \in H : h.lock = lock
EdgeUnderHeader(H, s) == HoldsOf(H, "header") /\ s.act = "read" /\ s.lock = "edge"
NodeUnderHeader(H, s) == HoldsOf(H, "header") /\ s.act = "write" /\ s.lock = "node"
May(o, H, s) ==
  Takes(s) =>
    /\ \/ \A h \in H : Before(h.lock, s.lock)
       \/ EdgeUnderHeader(H, s) /\ o \in Flushing
       \/ NodeUnderHeader(H, s) /\ o = "entity_ids"
    /\ HoldsOf(H, "edge") => o = "insert_edge" \/ s.lock \in Inner
    /\ HoldsOf(H, "node") => o \in Changing
    /\ \A h \in H : h.lock \in Inner => Before(h.lock, s.lock)

Uses(p) == {p[i].lock : i \in 1..Len(p)}
Calm(o, p, H) ==
  /\ p \in Seq(Step)
  /\ HeldIn(p, Len(p) + 1) = {}
  /\ \A i \in 1..Len(p) : May(o, H \cup HeldIn(p, i), p[i])

-----------------------------------------------------------------------------
(* What is held along a path *)

LEMMA HeldMember ==
  ASSUME NEW p, NEW i, NEW s
  PROVE  s \in HeldIn(p, i) <=>
           \E h \in 1..(i - 1) : /\ p[h] = s /\ s.act # "release"
                                 /\ \A k \in h..(i - 1) : p[k] # ReleaseOf(s.lock)
BY DEF HeldIn

LEMMA HeldInFirst ==
  ASSUME NEW p \in Seq(Step), NEW q \in Seq(Step), NEW i \in 1..(Len(p) + 1)
  PROVE  HeldIn(p \o q, i) = HeldIn(p, i)
<1>1. \A k \in 1..(i - 1) : (p \o q)[k] = p[k]
  OBVIOUS
<1>2. ASSUME NEW s
      PROVE  s \in HeldIn(p \o q, i) <=> s \in HeldIn(p, i)
  <2>1. \A h \in 1..(i - 1) : \A k \in h..(i - 1) : (p \o q)[k] = p[k]
    BY <1>1
  <2>2. s \in HeldIn(p \o q, i) <=>
          \E h \in 1..(i - 1) : /\ (p \o q)[h] = s /\ s.act # "release"
                                /\ \A k \in h..(i - 1) : (p \o q)[k] # ReleaseOf(s.lock)
    BY Zenon DEF HeldIn
  <2>3. s \in HeldIn(p, i) <=>
          \E h \in 1..(i - 1) : /\ p[h] = s /\ s.act # "release"
                                /\ \A k \in h..(i - 1) : p[k] # ReleaseOf(s.lock)
    BY Zenon DEF HeldIn
  <2> QED
    BY <1>1, <2>1, <2>2, <2>3, Zenon
<1> QED
  BY <1>2

LEMMA HeldInSecond ==
  ASSUME NEW p \in Seq(Step), NEW q \in Seq(Step), HeldIn(p, Len(p) + 1) = {},
         NEW j \in 1..(Len(q) + 1)
  PROVE  HeldIn(p \o q, Len(p) + j) = HeldIn(q, j)
<1> DEFINE n == Len(p)
           r == p \o q
<1>1. /\ n \in Nat
      /\ \A k \in 1..n : r[k] = p[k]
      /\ \A k \in 1..(j - 1) : r[n + k] = q[k]
  OBVIOUS
<1> HIDE DEF n, r
<1>2. ASSUME NEW s \in HeldIn(r, n + j)
      PROVE  s \in HeldIn(q, j)
  <2>1. PICK h \in 1..((n + j) - 1) : /\ r[h] = s /\ s.act # "release"
                                    /\ \A k \in h..((n + j) - 1) : r[k] # ReleaseOf(s.lock)
    BY <1>2, Zenon DEF HeldIn
  <2>2. CASE h \in 1..n
    <3>1. p[h] = s /\ \A k \in h..n : p[k] # ReleaseOf(s.lock)
      BY <1>1, <2>1, <2>2
    <3>2. s \in HeldIn(p, n + 1)
      BY <1>1, <2>1, <2>2, <3>1, HeldMember
    <3> QED
      BY <3>2 DEF n
  <2>3. CASE h \notin 1..n
    <3>1. h - n \in 1..(j - 1) /\ n + (h - n) = h
      BY <1>1, <2>1, <2>3
    <3>2. q[h - n] = s
      BY <1>1, <2>1, <3>1
    <3>3. \A k \in (h - n)..(j - 1) : q[k] # ReleaseOf(s.lock)
      <4>1. \A k \in (h - n)..(j - 1) : n + k \in h..((n + j) - 1) /\ k \in 1..(j - 1)
        BY <1>1, <3>1
      <4> QED
        BY <1>1, <2>1, <4>1
    <3> QED
      BY <2>1, <3>1, <3>2, <3>3, HeldMember
  <2> QED
    BY <2>2, <2>3
<1>3. ASSUME NEW s \in HeldIn(q, j)
      PROVE  s \in HeldIn(r, n + j)
  <2>1. PICK h \in 1..(j - 1) : /\ q[h] = s /\ s.act # "release"
                                /\ \A k \in h..(j - 1) : q[k] # ReleaseOf(s.lock)
    BY <1>3, HeldMember
  <2>2. n + h \in 1..((n + j) - 1) /\ r[n + h] = s
    BY <1>1, <2>1
  <2>3. \A k \in (n + h)..((n + j) - 1) : r[k] # ReleaseOf(s.lock)
    <3>1. \A k \in (n + h)..((n + j) - 1) : k - n \in h..(j - 1) /\ k - n \in 1..(j - 1) /\ n + (k - n) = k
      BY <1>1, <2>1
    <3> QED
      BY <1>1, <2>1, <3>1
  <2> QED
    BY <2>1, <2>2, <2>3, Zenon DEF HeldIn
<1> QED
  BY <1>2, <1>3 DEF n, r

-----------------------------------------------------------------------------
(* Putting paths together *)

LEMMA NothingCalm ==
  ASSUME NEW o, NEW H
  PROVE  Calm(o, <<>>, H) /\ Uses(<<>>) = {}
<1>1. <<>> \in Seq(Step) /\ Len(<<>>) = 0
  OBVIOUS
<1>2. HeldIn(<<>>, 1) = {}
  BY HeldMember
<1> QED
  BY <1>1, <1>2 DEF Calm, Uses

LEMMA UsesInTurn ==
  ASSUME NEW p \in Seq(Step), NEW q \in Seq(Step)
  PROVE  Uses(p \o q) = Uses(p) \cup Uses(q)
<1> DEFINE n == Len(p)
           m == Len(q)
           r == p \o q
<1>1. /\ n \in Nat /\ m \in Nat /\ Len(r) = n + m
      /\ \A k \in 1..n : r[k] = p[k]
      /\ \A k \in 1..m : r[n + k] = q[k]
  OBVIOUS
<1> HIDE DEF r
<1>2. \A i \in 1..Len(r) : i \in 1..n \/ (i - n \in 1..m /\ n + (i - n) = i)
  BY <1>1
<1>3. \A i \in 1..m : n + i \in 1..Len(r)
  BY <1>1
<1>4. \A i \in 1..n : i \in 1..Len(r)
  BY <1>1
<1>5. ASSUME NEW l \in Uses(r)
      PROVE  l \in Uses(p) \cup Uses(q)
  <2>1. PICK i \in 1..Len(r) : l = r[i].lock
    BY <1>5 DEF Uses
  <2>2. CASE i \in 1..n
    BY <1>1, <2>1, <2>2 DEF Uses
  <2>3. CASE i - n \in 1..m /\ n + (i - n) = i
    <3>1. r[i] = q[i - n]
      BY <1>1, <2>3
    <3> QED
      BY <2>1, <2>3, <3>1 DEF Uses
  <2> QED
    BY <1>2, <2>2, <2>3
<1>6. Uses(p) \subseteq Uses(r)
  BY <1>1, <1>4 DEF Uses
<1>7. Uses(q) \subseteq Uses(r)
  BY <1>1, <1>3 DEF Uses
<1> QED
  BY <1>5, <1>6, <1>7 DEF r

LEMMA InTurn ==
  ASSUME NEW o, NEW H, NEW p, NEW q, Calm(o, p, H), Calm(o, q, H)
  PROVE  Calm(o, p \o q, H)
<1> DEFINE n == Len(p)
           m == Len(q)
           r == p \o q
<1>1. /\ p \in Seq(Step) /\ q \in Seq(Step) /\ r \in Seq(Step)
      /\ n \in Nat /\ m \in Nat /\ Len(r) = n + m
      /\ \A k \in 1..n : r[k] = p[k]
      /\ \A k \in 1..m : r[n + k] = q[k]
  BY DEF Calm
<1>2. \A i \in 1..(n + 1) : HeldIn(r, i) = HeldIn(p, i)
  BY <1>1, HeldInFirst
<1>3. \A j \in 1..(m + 1) : HeldIn(r, n + j) = HeldIn(q, j)
  BY <1>1, HeldInSecond DEF Calm
<1> HIDE DEF r
<1>4. HeldIn(r, Len(r) + 1) = {}
  <2>1. n + (m + 1) = Len(r) + 1 /\ m + 1 \in 1..(m + 1)
    BY <1>1
  <2>2. HeldIn(r, n + (m + 1)) = HeldIn(q, m + 1)
    BY <1>3, <2>1
  <2> QED
    BY <2>1, <2>2 DEF Calm
<1>5. ASSUME NEW i \in 1..Len(r)
      PROVE  May(o, H \cup HeldIn(r, i), r[i])
  <2>1. CASE i \in 1..n
    <3>1. HeldIn(r, i) = HeldIn(p, i) /\ r[i] = p[i]
      BY <1>1, <1>2, <2>1
    <3> QED
      BY <2>1, <3>1 DEF Calm
  <2>2. CASE i \notin 1..n
    <3>1. i - n \in 1..m /\ i - n \in 1..(m + 1) /\ n + (i - n) = i
      BY <1>1, <2>2
    <3>2. HeldIn(r, i) = HeldIn(q, i - n) /\ r[i] = q[i - n]
      BY <1>1, <1>3, <3>1
    <3> QED
      BY <3>1, <3>2 DEF Calm
  <2> QED
    BY <2>1, <2>2
<1> QED
  BY <1>1, <1>4, <1>5 DEF Calm, r

LEMMA UnderGuard ==
  ASSUME NEW o, NEW H, NEW p, NEW g \in Step, Takes(g), g.lock \notin Uses(p),
         Calm(o, p, H \cup {g}), May(o, H, g)
  PROVE  Calm(o, <<g>> \o p \o <<ReleaseOf(g.lock)>>, H)
<1> DEFINE n == Len(p)
           drop == ReleaseOf(g.lock)
           r == <<g>> \o p \o <<drop>>
<1>1. drop \in Step /\ drop.act = "release" /\ drop.lock = g.lock
  BY DEF Step, ReleaseOf
<1>2. /\ p \in Seq(Step) /\ r \in Seq(Step) /\ n \in Nat /\ Len(r) = n + 2
      /\ r[1] = g /\ r[n + 2] = drop
      /\ \A k \in 1..n : r[k + 1] = p[k]
  BY <1>1 DEF Calm
<1>3. \A k \in 1..n : p[k] # drop
  BY <1>1 DEF Uses
<1> HIDE DEF n, drop, r
<1>4. HeldIn(r, 1) = {}
  BY HeldMember
<1>5. ASSUME NEW j \in 1..(n + 1)
      PROVE  HeldIn(r, j + 1) = {g} \cup HeldIn(p, j)
  <2>1. g \in HeldIn(r, j + 1)
    <3>1. \A k \in 1..j : r[k] # drop
      <4>1. \A k \in 2..j : r[k] = p[k - 1] /\ k - 1 \in 1..n
        <5>1. \A k \in 2..j : k - 1 \in 1..n /\ (k - 1) + 1 = k
          BY <1>2
        <5> QED
          BY <1>2, <5>1
      <4>2. r[1] # drop
        BY <1>1, <1>2 DEF Takes
      <4>3. \A k \in 1..j : k = 1 \/ k \in 2..j
        OBVIOUS
      <4> QED
        BY <1>3, <4>1, <4>2, <4>3
    <3>2. 1 \in 1..((j + 1) - 1) /\ (j + 1) - 1 = j
      BY <1>2
    <3> QED
      BY <1>2, <3>1, <3>2, HeldMember DEF drop, Takes
  <2>2. ASSUME NEW s \in HeldIn(p, j)
        PROVE  s \in HeldIn(r, j + 1)
    <3>1. PICK h \in 1..(j - 1) : /\ p[h] = s /\ s.act # "release"
                                  /\ \A k \in h..(j - 1) : p[k] # ReleaseOf(s.lock)
      BY <2>2, HeldMember
    <3>2. h + 1 \in 1..((j + 1) - 1) /\ r[h + 1] = s
      BY <1>2, <3>1
    <3>3. \A k \in (h + 1)..((j + 1) - 1) : r[k] # ReleaseOf(s.lock)
      <4>1. \A k \in (h + 1)..((j + 1) - 1) : k - 1 \in h..(j - 1) /\ k - 1 \in 1..n /\ (k - 1) + 1 = k
        BY <1>2, <3>1
      <4> QED
        BY <1>2, <3>1, <4>1
    <3> QED
      BY <3>1, <3>2, <3>3, HeldMember
  <2>3. ASSUME NEW s \in HeldIn(r, j + 1), s # g
        PROVE  s \in HeldIn(p, j)
    <3>1. PICK h \in 1..((j + 1) - 1) : /\ r[h] = s /\ s.act # "release"
                                        /\ \A k \in h..((j + 1) - 1) : r[k] # ReleaseOf(s.lock)
      BY <2>3, HeldMember
    <3>2. h - 1 \in 1..(j - 1) /\ h - 1 \in 1..n /\ (h - 1) + 1 = h
      BY <1>2, <2>3, <3>1
    <3>3. p[h - 1] = s
      BY <1>2, <3>1, <3>2
    <3>4. \A k \in (h - 1)..(j - 1) : p[k] # ReleaseOf(s.lock)
      <4>1. \A k \in (h - 1)..(j - 1) : k + 1 \in h..((j + 1) - 1) /\ k \in 1..n
        BY <1>2, <3>2
      <4> QED
        BY <1>2, <3>1, <4>1
    <3> QED
      BY <3>1, <3>2, <3>3, <3>4, HeldMember
  <2> QED
    BY <2>1, <2>2, <2>3
<1>6. HeldIn(r, Len(r) + 1) = {}
  <2> SUFFICES ASSUME NEW s \in HeldIn(r, Len(r) + 1)
               PROVE  FALSE
    OBVIOUS
  <2>1. PICK h \in 1..((n + 3) - 1) : /\ r[h] = s /\ s.act # "release"
                                      /\ \A k \in h..((n + 3) - 1) : r[k] # ReleaseOf(s.lock)
    <3>1. Len(r) + 1 = n + 3
      BY <1>2
    <3> QED
      BY <3>1, HeldMember
  <2>2. h # n + 2
    BY <1>1, <1>2, <2>1
  <2>3. h # 1
    <3>1. n + 2 \in 1..((n + 3) - 1)
      BY <1>2
    <3> QED
      BY <1>2, <2>1, <3>1 DEF drop
  <2>4. s \in HeldIn(r, (n + 1) + 1)
    <3>1. h \in 1..(((n + 1) + 1) - 1) /\ \A k \in h..(((n + 1) + 1) - 1) : k \in h..((n + 3) - 1)
      BY <1>2, <2>1, <2>2
    <3> QED
      BY <2>1, <3>1, HeldMember
  <2>5. s = g
    <3>1. HeldIn(p, n + 1) = {}
      BY DEF Calm, n
    <3>2. n + 1 \in 1..(n + 1)
      BY <1>2
    <3> QED
      BY <1>5, <2>4, <3>1, <3>2
  <2>6. \A k \in h..((n + 3) - 1) : r[k] # drop
    BY <2>1, <2>5 DEF drop
  <2>7. n + 2 \in h..((n + 3) - 1)
    BY <1>2, <2>1
  <2> QED
    BY <1>2, <2>6, <2>7
<1>7. ASSUME NEW i \in 1..Len(r)
      PROVE  May(o, H \cup HeldIn(r, i), r[i])
  <2>1. CASE i = 1
    <3>1. H \cup HeldIn(r, 1) = H
      BY <1>4
    <3> QED
      BY <1>2, <2>1, <3>1
  <2>2. CASE i = n + 2
    BY <1>1, <1>2, <2>2 DEF May, Takes
  <2>3. CASE i # 1 /\ i # n + 2
    <3>1. i - 1 \in 1..n /\ i - 1 \in 1..(n + 1) /\ (i - 1) + 1 = i
      BY <1>2, <2>3
    <3>2. H \cup HeldIn(r, i) = (H \cup {g}) \cup HeldIn(p, i - 1) /\ r[i] = p[i - 1]
      BY <1>2, <1>5, <3>1
    <3> QED
      BY <3>1, <3>2 DEF Calm, n
  <2> QED
    BY <2>1, <2>2, <2>3
<1> QED
  BY <1>2, <1>6, <1>7 DEF Calm, drop, r

LEMMA UsesUnderGuard ==
  ASSUME NEW p \in Seq(Step), NEW g \in Step
  PROVE  Uses(<<g>> \o p \o <<ReleaseOf(g.lock)>>) = Uses(p) \cup {g.lock}
<1> DEFINE drop == ReleaseOf(g.lock)
<1>1. drop \in Step /\ drop.lock = g.lock
  BY DEF Step, ReleaseOf
<1> HIDE DEF drop
<1>2. \A s \in Step : Uses(<<s>>) = {s.lock}
  BY DEF Uses
<1>3. <<g>> \in Seq(Step) /\ <<drop>> \in Seq(Step) /\ <<g>> \o p \in Seq(Step)
  BY <1>1
<1>4. Uses(<<g>> \o p) = {g.lock} \cup Uses(p)
  BY <1>2, <1>3, UsesInTurn
<1> DEFINE gp == <<g>> \o p
<1> HIDE DEF gp
<1>5. Uses(gp \o <<drop>>) = Uses(gp) \cup Uses(<<drop>>)
  BY <1>3, UsesInTurn DEF gp
<1>6. Uses(<<drop>>) = {g.lock}
  BY <1>1, <1>2
<1> QED
  BY <1>4, <1>5, <1>6 DEF drop, gp

-----------------------------------------------------------------------------
(* The paths of the operations *)

Rd(lock) == [act |-> "read", lock |-> lock]
Wr(lock) == [act |-> "write", lock |-> lock]

LEMMA OrderFacts ==
  /\ \A l \in {"edge", "header", "btree", "alloc", "kv", "wal"} : Before("node", l)
  /\ \A l \in {"header", "alloc", "wal"} : Before("edge", l)
  /\ \A l \in {"btree", "alloc", "wal"} : Before("header", l)
  /\ Before("btree", "alloc") /\ Before("btree", "wal") /\ Before("alloc", "wal")
<1>1. \A i, j \in 1..7 : i < j => Before(Order[i], Order[j])
  BY DEF Before, Order
<1>2. /\ Order[1] = "node" /\ Order[2] = "edge" /\ Order[3] = "header" /\ Order[4] = "btree"
      /\ Order[5] = "alloc" /\ Order[6] = "kv" /\ Order[7] = "wal"
  BY DEF Order
<1>3. /\ Before(Order[1], Order[2]) /\ Before(Order[1], Order[3]) /\ Before(Order[1], Order[4])
      /\ Before(Order[1], Order[5]) /\ Before(Order[1], Order[6]) /\ Before(Order[1], Order[7])
      /\ Before(Order[2], Order[3]) /\ Before(Order[2], Order[5]) /\ Before(Order[2], Order[7])
      /\ Before(Order[3], Order[4]) /\ Before(Order[3], Order[5]) /\ Before(Order[3], Order[7])
      /\ Before(Order[4], Order[5]) /\ Before(Order[4], Order[7]) /\ Before(Order[5], Order[7])
  BY <1>1
<1> QED
  BY <1>2, <1>3

\* A lock that comes after all that is held may be taken, but with the edge store
\* or the node store held only by the operations that do so.
LEMMA MayTake ==
  ASSUME NEW o, NEW H, NEW l \in Locks, \A h \in H : Before(h.lock, l),
         HoldsOf(H, "edge") => o = "insert_edge" \/ l \in Inner, HoldsOf(H, "node") => o \in Changing
  PROVE  May(o, H, Rd(l)) /\ May(o, H, Wr(l))
<1>1. Rd(l).lock = l /\ Wr(l).lock = l
  BY DEF Rd, Wr
<1> QED
  BY <1>1 DEF May

\* A calm path that is not empty and uses no locks but those in U.
CalmIn(o, p, H, U) == Calm(o, p, H) /\ Uses(p) \subseteq U /\ p # <<>>

LEMMA CalmInTurn ==
  ASSUME NEW o, NEW H, NEW U, NEW p, NEW q, CalmIn(o, p, H, U), CalmIn(o, q, H, U)
  PROVE  CalmIn(o, p \o q, H, U)
<1>0. Calm(o, p, H) /\ Calm(o, q, H)
  BY DEF CalmIn
<1>1. Calm(o, p \o q, H)
  BY <1>0, InTurn
<1>3. Uses(p \o q) = Uses(p) \cup Uses(q)
  BY <1>0, UsesInTurn DEF Calm
<1>2. p \o q # <<>>
  BY DEF CalmIn, Calm
<1> QED
  BY <1>1, <1>2, <1>3 DEF CalmIn

LEMMA GuardedPath ==
  ASSUME NEW o, NEW H, NEW U, NEW l \in U, U \subseteq Locks, NEW p,
         Uses(p) \subseteq U \ {l},
         NEW g \in {Rd(l), Wr(l)}, May(o, H, g), Calm(o, p, H \cup {g})
  PROVE  CalmIn(o, <<g>> \o p \o X(l), H, U)
<1>1. g \in Step /\ Takes(g) /\ g.lock = l /\ X(l) = <<ReleaseOf(g.lock)>>
  BY DEF Rd, Wr, Step, Takes, X
<1>2. /\ Calm(o, <<g>> \o p \o X(l), H)
      /\ Uses(<<g>> \o p \o X(l)) = Uses(p) \cup {l}
  <2>1. g.lock \notin Uses(p)
    BY <1>1
  <2>2. Calm(o, <<g>> \o p \o <<ReleaseOf(g.lock)>>, H)
    BY <1>1, <2>1, UnderGuard
  <2>4. Uses(<<g>> \o p \o <<ReleaseOf(g.lock)>>) = Uses(p) \cup {g.lock}
    BY <1>1, UsesUnderGuard DEF Calm
  <2>3. <<ReleaseOf(g.lock)>> = X(l)
    BY <1>1, Zenon
  <2> QED
    BY <1>1, <2>2, <2>3, <2>4, Zenon
<1>3. <<g>> \o p \o X(l) # <<>>
  <2>1. p \in Seq(Step) /\ X(l) \in Seq(Step) /\ <<g>> \in Seq(Step)
    BY <1>1 DEF Calm, ReleaseOf, Step
  <2> QED
    BY <2>1
<1> QED
  BY <1>2, <1>3 DEF CalmIn

LEMMA CalmUnder ==
  ASSUME NEW o, NEW H, NEW U, NEW l \in U, U \subseteq Locks, NEW p
  PROVE  /\ May(o, H, Rd(l)) /\ CalmIn(o, p, H \cup {Rd(l)}, U \ {l}) =>
              CalmIn(o, Reading(l, p), H, U)
         /\ May(o, H, Wr(l)) /\ CalmIn(o, p, H \cup {Wr(l)}, U \ {l}) =>
              CalmIn(o, Writing(l, p), H, U)
<1>1. Reading(l, p) = <<Rd(l)>> \o p \o X(l) /\ Writing(l, p) = <<Wr(l)>> \o p \o X(l)
  BY Zenon DEF Reading, Writing, R, W, Rd, Wr
<1>2. ASSUME May(o, H, Rd(l)), CalmIn(o, p, H \cup {Rd(l)}, U \ {l})
      PROVE  CalmIn(o, Reading(l, p), H, U)
  <2>1. Uses(p) \subseteq U \ {l} /\ Calm(o, p, H \cup {Rd(l)}) /\ Rd(l) \in {Rd(l), Wr(l)}
    BY <1>2 DEF CalmIn
  <2> QED
    BY <1>1, <1>2, <2>1, GuardedPath, Zenon
<1>3. ASSUME May(o, H, Wr(l)), CalmIn(o, p, H \cup {Wr(l)}, U \ {l})
      PROVE  CalmIn(o, Writing(l, p), H, U)
  <2>1. Uses(p) \subseteq U \ {l} /\ Calm(o, p, H \cup {Wr(l)}) /\ Wr(l) \in {Rd(l), Wr(l)}
    BY <1>3 DEF CalmIn
  <2> QED
    BY <1>1, <1>3, <2>1, GuardedPath, Zenon
<1> QED
  BY <1>2, <1>3

\* A guard for one statement.
LEMMA CalmStatement ==
  ASSUME NEW o, NEW H, NEW U, NEW l \in U, U \subseteq Locks
  PROVE  /\ May(o, H, Rd(l)) => CalmIn(o, Reads(l), H, U)
         /\ May(o, H, Wr(l)) => CalmIn(o, Writes(l), H, U)
<1>1. Reads(l) = <<Rd(l)>> \o <<>> \o X(l) /\ Writes(l) = <<Wr(l)>> \o <<>> \o X(l)
  BY Zenon DEF Reads, Writes, Reading, Writing, R, W, Rd, Wr
<1>2. \A K : Calm(o, <<>>, K) /\ Uses(<<>>) \subseteq U \ {l}
  BY NothingCalm
<1>3. ASSUME May(o, H, Rd(l))
      PROVE  CalmIn(o, Reads(l), H, U)
  BY <1>1, <1>2, <1>3, GuardedPath, Zenon
<1>4. ASSUME May(o, H, Wr(l))
      PROVE  CalmIn(o, Writes(l), H, U)
  BY <1>1, <1>2, <1>4, GuardedPath, Zenon
<1> QED
  BY <1>3, <1>4

LEMMA LockNames == Locks = {"header", "btree", "alloc", "wal", "edge", "kv", "node"}
BY DEF Locks

LEMMA CheckpointCalm ==
  ASSUME NEW o, NEW H, H \subseteq {Wr("node")}, H # {} => o \in Changing
  PROVE  CalmIn(o, Checkpoint, H, Locks \ {"node"})
<1> DEFINE H1 == H \cup {Rd("header")}
           H2 == H1 \cup {Rd("btree")}
           H3 == H2 \cup {Rd("alloc")}
           U0 == Locks \ {"node"}
           U1 == U0 \ {"header"}
           U2 == U1 \ {"btree"}
           U3 == U2 \ {"alloc"}
<1>1. /\ \A h \in H : h.lock = "node"
      /\ Rd("header").lock = "header" /\ Rd("btree").lock = "btree" /\ Rd("alloc").lock = "alloc"
  BY DEF Rd, Wr
<1>2. /\ U0 \subseteq Locks /\ U1 \subseteq Locks /\ U2 \subseteq Locks /\ U3 \subseteq Locks
      /\ "header" \in U0 /\ "btree" \in U1 /\ "alloc" \in U2 /\ "wal" \in U3
  BY LockNames
<1>3. May(o, H, Rd("header"))
  BY <1>1, LockNames, MayTake, OrderFacts DEF HoldsOf
<1>4. May(o, H1, Rd("btree"))
  BY <1>1, LockNames, MayTake, OrderFacts DEF HoldsOf
<1>5. May(o, H2, Rd("alloc"))
  BY <1>1, LockNames, MayTake, OrderFacts DEF HoldsOf
<1>6. May(o, H3, Wr("wal"))
  BY <1>1, LockNames, MayTake, OrderFacts DEF HoldsOf
<1> HIDE DEF H1, H2, H3, U0, U1, U2, U3
<1>7. CalmIn(o, Writes("wal"), H3, U3)
  BY <1>2, <1>6, CalmStatement
<1>8. CalmIn(o, Reading("alloc", Writes("wal")), H2, U2)
  BY <1>2, <1>5, <1>7, CalmUnder DEF H3, U3
<1>9. CalmIn(o, Reading("btree", Reading("alloc", Writes("wal"))), H1, U1)
  BY <1>2, <1>4, <1>8, CalmUnder DEF H2, U2
<1>10. CalmIn(o, Reading("header", Reading("btree", Reading("alloc", Writes("wal")))), H, U0)
  BY <1>2, <1>3, <1>9, CalmUnder DEF H1, U1
<1> QED
  BY <1>10 DEF Checkpoint, U0

LEMMA FlushEdgesCalm ==
  ASSUME NEW o, NEW H, H \subseteq {Wr("node")}, H # {} => o \in Changing
  PROVE  CalmIn(o, FlushEdges, H, Locks \ {"node"})
<1> DEFINE H1 == H \cup {Wr("edge")}
           U0 == Locks \ {"node"}
           U1 == U0 \ {"edge"}
<1>1. (\A h \in H : h.lock = "node") /\ Wr("edge").lock = "edge"
  BY DEF Wr
<1>2. U0 \subseteq Locks /\ U1 \subseteq Locks /\ "edge" \in U0 /\ {"alloc", "wal"} \subseteq U1
  BY LockNames
<1>3. May(o, H, Wr("edge"))
  BY <1>1, LockNames, MayTake, OrderFacts DEF HoldsOf
<1>4. May(o, H1, Wr("alloc")) /\ May(o, H1, Wr("wal"))
  BY <1>1, LockNames, MayTake, OrderFacts DEF HoldsOf, Inner
<1> HIDE DEF H1, U0, U1
<1>5. CalmIn(o, Writes("alloc") \o Writes("wal"), H1, U1)
  BY <1>2, <1>4, CalmStatement, CalmInTurn
<1>6. CalmIn(o, Writing("edge", Writes("alloc") \o Writes("wal")), H, U0)
  BY <1>2, <1>3, <1>5, CalmUnder DEF H1, U1
<1> QED
  BY <1>6 DEF FlushEdges, U0

LEMMA FlushCalm ==
  ASSUME NEW o \in Flushing, NEW H, H \subseteq {Wr("node")}, H # {} => o \in Changing
  PROVE  CalmIn(o, FlushToDisk, H, Locks \ {"node"})
<1> DEFINE H1 == H \cup {Wr("header")}
           U0 == Locks \ {"node"}
           U1 == U0 \ {"header"}
<1>1. (\A h \in H : h.lock = "node") /\ Wr("header").lock = "header"
  BY DEF Wr
<1>2. /\ U0 \subseteq Locks /\ U1 \subseteq Locks
      /\ {"header", "edge", "alloc", "kv", "btree", "wal"} \subseteq U0
      /\ {"edge", "alloc"} \subseteq U1
  BY LockNames
<1>3. \A l \in {"header", "edge", "alloc", "kv", "btree", "wal"} : May(o, H, Rd(l)) /\ May(o, H, Wr(l))
  BY <1>1, LockNames, MayTake, OrderFacts DEF HoldsOf
<1>4. May(o, H1, Rd("alloc"))
  BY <1>1, LockNames, MayTake, OrderFacts DEF HoldsOf
<1>5. May(o, H1, Rd("edge"))
  <2>1. HoldsOf(H1, "header") /\ ~HoldsOf(H1, "edge") /\ (HoldsOf(H1, "node") => H # {})
    BY <1>1 DEF HoldsOf
  <2>2. Rd("edge").act = "read" /\ Rd("edge").lock = "edge"
    BY DEF Rd
  <2> QED
    BY <1>1, <2>1, <2>2 DEF May, EdgeUnderHeader, Inner
<1> HIDE DEF H1, U0, U1
<1>6. \A l \in {"header", "edge", "alloc", "kv", "btree", "wal"} :
        CalmIn(o, Reads(l), H, U0) /\ CalmIn(o, Writes(l), H, U0)
  BY <1>2, <1>3, CalmStatement
<1>7. CalmIn(o, Reads("edge") \o Reads("alloc"), H1, U1)
  BY <1>2, <1>4, <1>5, CalmStatement, CalmInTurn
<1>8. CalmIn(o, Writing("header", Reads("edge") \o Reads("alloc")), H, U0)
  BY <1>2, <1>3, <1>7, CalmUnder DEF H1, U1
<1>9. CalmIn(o, Checkpoint, H, U0)
  BY CheckpointCalm DEF U0
<1> DEFINE Q1 == FlushEdges \o Writing("header", Reads("edge") \o Reads("alloc"))
           Q2 == Q1 \o SyncHeader
           Q3 == Q2 \o Reads("kv")
           Q4 == Q3 \o Checkpoint
           Q5 == Q4 \o Writes("wal")
           Q6 == Q5 \o Writes("wal")
<1>10. FlushToDisk = Q6
  BY DEF FlushToDisk
<1>11. CalmIn(o, Q1, H, U0)
  <2>1. CalmIn(o, FlushEdges, H, U0)
    BY FlushEdgesCalm DEF U0
  <2> QED
    BY <2>1, <1>8, CalmInTurn
<1> HIDE DEF Q1
<1>12. CalmIn(o, Q2, H, U0)
  BY <1>6, <1>11, CalmInTurn DEF SyncHeader
<1> HIDE DEF Q2
<1>13. CalmIn(o, Q3, H, U0)
  BY <1>6, <1>12, CalmInTurn
<1> HIDE DEF Q3
<1>14. CalmIn(o, Q4, H, U0)
  BY <1>9, <1>13, CalmInTurn
<1> HIDE DEF Q4
<1>15. CalmIn(o, Q5, H, U0)
  BY <1>6, <1>14, CalmInTurn
<1> HIDE DEF Q5
<1>16. CalmIn(o, Q6, H, U0)
  BY <1>6, <1>15, CalmInTurn
<1> QED
  BY <1>10, <1>16 DEF U0

LEMMA OperationNames ==
  Operations = {"insert_node", "insert_edge", "update_node", "delete_entity",
                "commit_batch", "entity_ids", "get_node", "neighbors", "bfs",
                "kv_set", "kv_get", "flush", "snapshot_import"}
BY DEF Operations, Program

LEMMA AloneCalm ==
  ASSUME NEW o, NEW l \in Locks
  PROVE  CalmIn(o, Reads(l), {}, Locks) /\ CalmIn(o, Writes(l), {}, Locks)
<1>1. May(o, {}, Rd(l)) /\ May(o, {}, Wr(l))
  BY MayTake DEF HoldsOf
<1> QED
  BY <1>1, CalmStatement

LEMMA InsertNodeCalm ==
  ASSUME NEW o \in Changing
  PROVE  CalmIn(o, InsertNode, {}, Locks)
<1> DEFINE H1 == {} \cup {Wr("node")}
           U1 == Locks \ {"node"}
           B == Writes("alloc") \o Writes("header")
           Q == Writes("alloc") \o Writing("node", B)
<1>1. \A l \in {"alloc", "header"} : May(o, H1, Wr(l))
  BY LockNames, MayTake, OrderFacts DEF HoldsOf, Wr
<1>2. U1 \subseteq Locks /\ {"alloc", "header"} \subseteq U1 /\ {"alloc", "node", "header"} \subseteq Locks
  BY LockNames
<1>3. May(o, {}, Wr("node"))
  BY LockNames, MayTake DEF HoldsOf
<1> HIDE DEF H1, U1
<1>4. CalmIn(o, B, H1, U1)
  BY <1>1, <1>2, CalmStatement, CalmInTurn
<1> HIDE DEF B
<1>5. CalmIn(o, Writing("node", B), {}, Locks)
  BY <1>2, <1>3, <1>4, CalmUnder DEF H1, U1
<1>6. CalmIn(o, Q, {}, Locks)
  BY <1>2, <1>5, AloneCalm, CalmInTurn
<1> HIDE DEF Q
<1>7. CalmIn(o, Q \o SyncHeader, {}, Locks)
  BY <1>2, <1>6, AloneCalm, CalmInTurn DEF SyncHeader
<1> QED
  BY <1>7 DEF InsertNode, Q, B

LEMMA InsertEdgeCalm == CalmIn("insert_edge", InsertEdge, {}, Locks)
<1> DEFINE o == "insert_edge"
           H1 == {} \cup {Wr("edge")}
           U1 == Locks \ {"edge"}
           B == Writes("alloc") \o Writes("wal") \o Writes("header")
           Q == GetNodeInternal \o GetNodeInternal
           Q1 == Q \o Writing("edge", B)
<1>1. \A l \in {"alloc", "wal", "header"} : May(o, H1, Wr(l))
  BY LockNames, MayTake, OrderFacts DEF HoldsOf, Wr
<1>2. U1 \subseteq Locks /\ {"alloc", "wal", "header"} \subseteq U1 /\ {"edge", "node", "header"} \subseteq Locks
  BY LockNames
<1>3. May(o, {}, Wr("edge"))
  BY LockNames, MayTake DEF HoldsOf
<1> HIDE DEF H1, U1, o
<1>4. CalmIn(o, B, H1, U1)
  <2>1. \A l \in {"alloc", "wal", "header"} : CalmIn(o, Writes(l), H1, U1)
    BY <1>1, <1>2, CalmStatement
  <2>2. CalmIn(o, Writes("alloc") \o Writes("wal"), H1, U1)
    BY <2>1, CalmInTurn
  <2> QED
    BY <2>1, <2>2, CalmInTurn
<1> HIDE DEF B
<1>5. CalmIn(o, Writing("edge", B), {}, Locks)
  BY <1>2, <1>3, <1>4, CalmUnder DEF H1, U1
<1>6. CalmIn(o, Q, {}, Locks)
  BY <1>2, AloneCalm, CalmInTurn DEF GetNodeInternal
<1> HIDE DEF Q
<1>7. CalmIn(o, Q1, {}, Locks)
  BY <1>5, <1>6, CalmInTurn
<1> HIDE DEF Q1
<1>8. CalmIn(o, Q1 \o SyncHeader, {}, Locks)
  BY <1>2, <1>7, AloneCalm, CalmInTurn DEF SyncHeader
<1> QED
  BY <1>8 DEF InsertEdge, Q1, Q, B, o

LEMMA UpdateNodeCalm ==
  ASSUME NEW o \in Flushing \cap Changing
  PROVE  CalmIn(o, UpdateNode, {}, Locks)
<1>1. CalmIn(o, FlushToDisk, {} \cup {Wr("node")}, Locks \ {"node"})
  <2>1. {} \cup {Wr("node")} \subseteq {Wr("node")}
    OBVIOUS
  <2> QED
    BY <2>1, FlushCalm
<1>2. May(o, {}, Wr("node")) /\ "node" \in Locks
  BY LockNames, MayTake DEF HoldsOf
<1> QED
  BY <1>1, <1>2, CalmUnder DEF UpdateNode

LEMMA DeleteEntityCalm ==
  ASSUME NEW o \in Flushing \cap Changing
  PROVE  CalmIn(o, DeleteEntity, {}, Locks)
<1> DEFINE H1 == {} \cup {Wr("node")}
           U1 == Locks \ {"node"}
           Q == Writes("header") \o SyncHeader
<1>1. CalmIn(o, FlushToDisk, H1, U1)
  <2>1. H1 \subseteq {Wr("node")}
    OBVIOUS
  <2> QED
    BY <2>1, FlushCalm
<1>2. May(o, {}, Wr("node")) /\ "node" \in Locks /\ U1 \subseteq Locks /\ "header" \in U1
  BY LockNames, MayTake DEF HoldsOf
<1>3. May(o, H1, Wr("header")) /\ May(o, H1, Rd("header"))
  BY LockNames, MayTake, OrderFacts DEF HoldsOf, Wr
<1> HIDE DEF H1, U1
<1>4. CalmIn(o, Q, H1, U1)
  BY <1>2, <1>3, CalmStatement, CalmInTurn DEF SyncHeader
<1> HIDE DEF Q
<1>5. CalmIn(o, Q \o FlushToDisk, H1, U1)
  BY <1>1, <1>4, CalmInTurn
<1>6. CalmIn(o, Writing("node", Q \o FlushToDisk), {}, Locks)
  BY <1>2, <1>5, CalmUnder DEF H1, U1
<1> QED
  BY <1>6 DEF DeleteEntity, Q

LEMMA FlushAloneCalm ==
  ASSUME NEW o \in Flushing
  PROVE  CalmIn(o, FlushToDisk, {}, Locks)
BY FlushCalm DEF CalmIn

LEMMA CommitBatchCalm ==
  ASSUME NEW o \in Flushing
  PROVE  CalmIn(o, CommitBatch, {}, Locks)
<1> DEFINE Q == Writes("node") \o Writes("node")
           Q1 == Q \o SyncHeader
<1>1. {"node", "header"} \subseteq Locks
  BY LockNames
<1>2. CalmIn(o, Q, {}, Locks)
  BY <1>1, AloneCalm, CalmInTurn
<1> HIDE DEF Q
<1>3. CalmIn(o, Q1, {}, Locks)
  BY <1>1, <1>2, AloneCalm, CalmInTurn DEF SyncHeader
<1> HIDE DEF Q1
<1>4. CalmIn(o, Q1 \o FlushToDisk, {}, Locks)
  BY <1>3, FlushAloneCalm, CalmInTurn
<1> QED
  BY <1>4 DEF CommitBatch, Q1, Q

LEMMA EntityIdsCalm == CalmIn("entity_ids", EntityIds, {}, Locks)
<1> DEFINE o == "entity_ids"
           H1 == {} \cup {Rd("header")}
           U1 == Locks \ {"header"}
<1>1. May(o, H1, Wr("node"))
  BY DEF May, NodeUnderHeader, HoldsOf, Rd, Wr, Inner
<1>2. May(o, {}, Rd("header")) /\ {"header", "node"} \subseteq Locks /\ "node" \in U1 /\ U1 \subseteq Locks
  BY LockNames, MayTake DEF HoldsOf
<1> HIDE DEF H1, U1, o
<1>3. CalmIn(o, Writes("node"), H1, U1)
  BY <1>1, <1>2, CalmStatement
<1>4. CalmIn(o, Reading("header", Writes("node")), {}, Locks)
  BY <1>2, <1>3, CalmUnder DEF H1, U1
<1> QED
  BY <1>4 DEF EntityIds, GetNodeInternal, o

LEMMA KvSetCalm ==
  ASSUME NEW o
  PROVE  CalmIn(o, KvSet, {}, Locks)
<1> DEFINE Q == Reads("wal") \o Writes("kv")
<1>1. {"wal", "kv"} \subseteq Locks
  BY LockNames
<1>2. CalmIn(o, Q, {}, Locks)
  BY <1>1, AloneCalm, CalmInTurn
<1> HIDE DEF Q
<1>3. CalmIn(o, Q \o Writes("wal"), {}, Locks)
  BY <1>1, <1>2, AloneCalm, CalmInTurn
<1> QED
  BY <1>3 DEF KvSet, Q

LEMMA SnapshotImportCalm ==
  ASSUME NEW o
  PROVE  CalmIn(o, SnapshotImport, {}, Locks)
<1> DEFINE Q1 == Reads("header") \o Writes("alloc")
           Q2 == Q1 \o Writes("btree")
           Q3 == Q2 \o Writes("node")
           Q4 == Q3 \o Writes("edge")
           Q5 == Q4 \o Writes("header")
           Q6 == Q5 \o Reads("header")
<1>1. {"header", "alloc", "btree", "node", "edge"} \subseteq Locks
  BY LockNames
<1>2. \A l \in {"header", "alloc", "btree", "node", "edge"} :
        CalmIn(o, Reads(l), {}, Locks) /\ CalmIn(o, Writes(l), {}, Locks)
  BY <1>1, AloneCalm
<1>3. CalmIn(o, Q1, {}, Locks)
  BY <1>2, CalmInTurn
<1> HIDE DEF Q1
<1>4. CalmIn(o, Q2, {}, Locks)
  BY <1>2, <1>3, CalmInTurn
<1> HIDE DEF Q2
<1>5. CalmIn(o, Q3, {}, Locks)
  BY <1>2, <1>4, CalmInTurn
<1> HIDE DEF Q3
<1>6. CalmIn(o, Q4, {}, Locks)
  BY <1>2, <1>5, CalmInTurn
<1> HIDE DEF Q4
<1>7. CalmIn(o, Q5, {}, Locks)
  BY <1>2, <1>6, CalmInTurn
<1> HIDE DEF Q5
<1>8. CalmIn(o, Q6, {}, Locks)
  BY <1>2, <1>7, CalmInTurn
<1> HIDE DEF Q6
<1>9. CalmIn(o, Q6 \o Writes("node"), {}, Locks)
  BY <1>2, <1>8, CalmInTurn
<1> QED
  BY <1>9 DEF SnapshotImport, GetNodeInternal, Q1, Q2, Q3, Q4, Q5, Q6

\* Every path: what each of its steps is taken with.
LEMMA AllCalm == \A o \in Operations : CalmIn(o, Program[o], {}, Locks)
<1>1. \A l \in Locks : \A o : CalmIn(o, Reads(l), {}, Locks) /\ CalmIn(o, Writes(l), {}, Locks)
  BY AloneCalm
<1>2. {"node", "edge", "kv"} \subseteq Locks
  BY LockNames
<1>3. /\ {"insert_node", "update_node", "delete_entity"} \subseteq Changing
      /\ {"flush", "update_node", "delete_entity", "commit_batch"} \subseteq Flushing
  BY DEF Flushing, Changing
<1>4. CalmIn("insert_node", InsertNode, {}, Locks)
  BY <1>3, InsertNodeCalm
<1>5. CalmIn("update_node", UpdateNode, {}, Locks) /\ CalmIn("delete_entity", DeleteEntity, {}, Locks)
  BY <1>3, UpdateNodeCalm, DeleteEntityCalm
<1>6. CalmIn("commit_batch", CommitBatch, {}, Locks) /\ CalmIn("flush", FlushToDisk, {}, Locks)
  BY <1>3, CommitBatchCalm, FlushAloneCalm
<1>7. /\ CalmIn("get_node", GetNodeInternal, {}, Locks) /\ CalmIn("neighbors", Neighbors, {}, Locks)
      /\ CalmIn("bfs", BfsStep, {}, Locks) /\ CalmIn("kv_get", KvGet, {}, Locks)
  BY <1>1, <1>2 DEF GetNodeInternal, Neighbors, BfsStep, KvGet
<1>8. /\ Program["insert_node"] = InsertNode /\ Program["insert_edge"] = InsertEdge
      /\ Program["update_node"] = UpdateNode /\ Program["delete_entity"] = DeleteEntity
      /\ Program["commit_batch"] = CommitBatch /\ Program["entity_ids"] = EntityIds
      /\ Program["get_node"] = GetNodeInternal /\ Program["neighbors"] = Neighbors
      /\ Program["bfs"] = BfsStep /\ Program["kv_set"] = KvSet /\ Program["kv_get"] = KvGet
      /\ Program["flush"] = FlushToDisk /\ Program["snapshot_import"] = SnapshotImport
  BY DEF Program
<1> SUFFICES ASSUME NEW o \in Operations
             PROVE  CalmIn(o, Program[o], {}, Locks)
  OBVIOUS
<1>9. CalmIn("insert_edge", Program["insert_edge"], {}, Locks)
  BY <1>8, InsertEdgeCalm
<1>10. CalmIn("entity_ids", Program["entity_ids"], {}, Locks)
  BY <1>8, EntityIdsCalm
<1>11. CalmIn("kv_set", Program["kv_set"], {}, Locks) /\ CalmIn("snapshot_import", Program["snapshot_import"], {}, Locks)
  BY <1>8, KvSetCalm, SnapshotImportCalm
<1> QED
  BY <1>4, <1>5, <1>6, <1>7, <1>8, <1>9, <1>10, <1>11, OperationNames

LEMMA HeldAreSteps ==
  ASSUME NEW p \in Seq(Step), NEW i \in 1..Len(p), NEW s \in HeldIn(p, i)
  PROVE  s \in Step /\ s.act \in {"read", "write"} /\ s.lock \in Locks
<1>1. PICK h \in 1..(i - 1) : p[h] = s /\ s.act # "release"
  BY HeldMember
<1>2. p[h] \in Step
  BY <1>1
<1> QED
  BY <1>1, <1>2 DEF Step

\* A thread inside a call is at a step of a calm path.
LEMMA AtStep ==
  ASSUME TypeOK, NEW t \in Threads, Busy(t)
  PROVE  /\ call[t] \in mix /\ call[t] \in Operations
         /\ pc[t] \in 1..Len(Steps(t)) /\ Steps(t) \in Seq(Step) /\ Next1(t) \in Step
         /\ May(call[t], HeldBefore[call[t]][pc[t]], Next1(t))
         /\ \A s \in HeldBefore[call[t]][pc[t]] : s \in Step /\ s.act \in {"read", "write"}
<1>1. call[t] \in mix /\ call[t] \in Operations
  BY LocksAssumption DEF TypeOK, Busy
<1>2. pc[t] \in 1..Len(Steps(t))
  BY DEF TypeOK
<1>3. Calm(call[t], Steps(t), {})
  BY <1>1, AllCalm DEF CalmIn, Steps
<1>4. HeldBefore[call[t]][pc[t]] = HeldIn(Steps(t), pc[t])
  BY <1>1, <1>2 DEF HeldBefore, Steps
<1>5. Steps(t) \in Seq(Step)
  BY <1>3 DEF Calm
<1>6. Next1(t) \in Step
  BY <1>2, <1>5 DEF Next1
<1>7. May(call[t], {} \cup HeldIn(Steps(t), pc[t]), Next1(t))
  BY <1>2, <1>3 DEF Calm, Next1
<1>8. {} \cup HeldIn(Steps(t), pc[t]) = HeldBefore[call[t]][pc[t]]
  BY <1>4
<1>9. \A s \in HeldBefore[call[t]][pc[t]] : s \in Step /\ s.act \in {"read", "write"}
  BY <1>2, <1>4, <1>5, HeldAreSteps
<1> QED
  BY <1>1, <1>2, <1>5, <1>6, <1>7, <1>8, <1>9

-----------------------------------------------------------------------------
(* Type correctness *)

LEMMA PathsAreNotEmpty ==
  ASSUME NEW o \in Operations
  PROVE  Len(Program[o]) \in Nat /\ Len(Program[o]) >= 1 /\ o # "none"
<1>1. Program[o] \in Seq(Step) /\ Program[o] # <<>>
  BY AllCalm DEF CalmIn, Calm
<1>2. o # "none"
  BY OperationNames
<1> QED
  BY <1>1, <1>2

LEMMA TypeInit == Init => TypeOK
<1> SUFFICES ASSUME Init
             PROVE  TypeOK
  OBVIOUS
<1>1. \A t \in Threads : ~Busy(t)
  BY DEF Init, Busy
<1> QED
  BY <1>1 DEF Init, TypeOK

LEMMA TypeAdvance ==
  ASSUME TypeOK, NEW t \in Threads, Busy(t), Advance(t)
  PROVE  TypeOK'
<1>1. mix' = mix /\ mix \in Mixes
  BY DEF TypeOK, Advance
<1>2. call' \in [Threads -> mix \cup {"none"}]
  BY DEF TypeOK, Advance
<1>3. pc[t] \in 1..Len(Steps(t)) /\ pc[t] \in Nat /\ Len(Steps(t)) \in Nat
  BY AtStep DEF TypeOK
<1>4. pc' \in [Threads -> Nat]
  BY <1>3 DEF TypeOK, Advance
<1>5. ASSUME NEW u \in Threads, u # t
      PROVE  pc'[u] = pc[u] /\ call'[u] = call[u]
  BY <1>5 DEF TypeOK, Advance
<1>6. ASSUME NEW u \in Threads
      PROVE  pc'[u] \in 1..(IF Busy(u)' THEN Len(Steps(u)') ELSE 1)
  <2>1. CASE u # t
    BY <1>5, <2>1 DEF TypeOK, Busy, Steps
  <2>2. CASE u = t /\ pc[t] < Len(Steps(t))
    <3>1. pc'[t] = pc[t] + 1 /\ call' = call
      BY <2>2 DEF TypeOK, Advance
    <3> QED
      BY <1>3, <2>2, <3>1 DEF Busy, Steps
  <2>3. CASE u = t /\ ~(pc[t] < Len(Steps(t)))
    <3>1. pc'[t] = 1 /\ call'[t] = "none"
      BY <2>3 DEF TypeOK, Advance
    <3> QED
      BY <2>3, <3>1 DEF Busy
  <2> QED
    BY <2>1, <2>2, <2>3
<1>7. queued' \subseteq {u \in Threads : Busy(u)' /\ Next1(u)'.act = "write"}
  <2>1. \A u \in queued' : u \in queued /\ u # t
    BY DEF Advance
  <2>2. \A u \in queued : u \in Threads /\ Busy(u) /\ Next1(u).act = "write"
    BY DEF TypeOK
  <2> QED
    BY <1>5, <2>1, <2>2 DEF Busy, Next1, Steps
<1> QED
  BY <1>1, <1>2, <1>4, <1>6, <1>7 DEF TypeOK

LEMMA TypeStart ==
  ASSUME TypeOK, NEW t \in Threads, NEW o \in Operations, Start(t, o)
  PROVE  TypeOK'
<1>1. mix' = mix /\ mix \in Mixes /\ pc' = pc /\ queued' = queued /\ o \in mix
  BY DEF TypeOK, Start
<1>2. call' \in [Threads -> mix \cup {"none"}]
  BY <1>1 DEF TypeOK, Start
<1>3. ASSUME NEW u \in Threads, u # t
      PROVE  call'[u] = call[u]
  BY <1>3 DEF TypeOK, Start
<1>4. ASSUME NEW u \in Threads
      PROVE  pc'[u] \in 1..(IF Busy(u)' THEN Len(Steps(u)') ELSE 1)
  <2>1. CASE u # t
    BY <1>1, <1>3, <2>1 DEF TypeOK, Busy, Steps
  <2>2. CASE u = t
    <3>1. call'[t] = o /\ pc'[t] = 1
      BY DEF TypeOK, Start
    <3> QED
      BY <2>2, <3>1, PathsAreNotEmpty DEF Busy, Steps
  <2> QED
    BY <2>1, <2>2
<1>5. queued' \subseteq {u \in Threads : Busy(u)' /\ Next1(u)'.act = "write"}
  <2>1. \A u \in queued : u \in Threads /\ Busy(u) /\ Next1(u).act = "write" /\ u # t
    BY DEF TypeOK, Start
  <2> QED
    BY <1>1, <1>3, <2>1 DEF Busy, Next1, Steps
<1> QED
  BY <1>1, <1>2, <1>4, <1>5 DEF TypeOK

LEMMA TypeStep == TypeOK /\ [Next]_vars => TypeOK'
<1> SUFFICES ASSUME TypeOK, [Next]_vars
             PROVE  TypeOK'
  OBVIOUS
<1>1. ASSUME NEW t \in Threads, NEW o \in Operations, Start(t, o)
      PROVE  TypeOK'
  BY <1>1, TypeStart
<1>2. ASSUME NEW t \in Threads, Acquire(t)
      PROVE  TypeOK'
  BY <1>2, TypeAdvance DEF Acquire
<1>3. ASSUME NEW t \in Threads, Release(t)
      PROVE  TypeOK'
  BY <1>3, TypeAdvance DEF Release
<1>4. ASSUME NEW t \in Threads, Park(t)
      PROVE  TypeOK'
  <2>1. mix' = mix /\ call' = call /\ pc' = pc /\ queued' = queued \cup {t}
    BY <1>4 DEF Park
  <2>2. queued' \subseteq {u \in Threads : Busy(u) /\ Next1(u).act = "write"}
    BY <1>4, <2>1 DEF Park, TypeOK
  <2> QED
    BY <2>1, <2>2 DEF TypeOK, Busy, Next1, Steps
<1>5. ASSUME UNCHANGED vars
      PROVE  TypeOK'
  BY <1>5 DEF TypeOK, vars, Busy, Next1, Steps
<1> QED
  BY <1>1, <1>2, <1>3, <1>4, <1>5 DEF Next

\* A thread is between two calls or at a step of the call it is in, and only
\* threads that want to write are parked.
THEOREM LocksTypes == Spec => []TypeOK
<1> QED
  BY TypeInit, TypeStep, PTL DEF Spec

-----------------------------------------------------------------------------
(* Circles of waiting threads *)

HoldsSome(t, lock) == Holds(t, "read", lock) \/ Holds(t, "write", lock)
WantsSome(t, lock) == Wants(t, "read", lock) \/ Wants(t, "write", lock)

\* What a thread that holds k and waits for l can be.
LEMMA HolderWaits ==
  ASSUME TypeOK, NEW t \in Threads, NEW k \in Locks, NEW l \in Locks,
         HoldsSome(t, k), WantsSome(t, l)
  PROVE  /\ call[t] \in mix
         /\ \/ Before(k, l)
            \/ HeaderFirst(t) /\ l = "edge" /\ Wants(t, "read", "edge") /\ call[t] \in Flushing
            \/ HeaderFirst(t) /\ l = "node" /\ Wants(t, "write", "node") /\ call[t] = "entity_ids"
         /\ k = "edge" => call[t] = "insert_edge" \/ l \in Inner
         /\ k = "node" => call[t] \in Changing
         /\ k \in Inner => Before(k, l)
<1> DEFINE H == HeldBefore[call[t]][pc[t]]
<1>1. Busy(t)
  BY DEF WantsSome, Wants
<1>2. call[t] \in mix /\ May(call[t], H, Next1(t)) /\ \A s \in H : s \in Step /\ s.act \in {"read", "write"}
  BY <1>1, AtStep
<1>3. PICK h \in H : h.lock = k
  <2>1. [act |-> "read", lock |-> k] \in H \/ [act |-> "write", lock |-> k] \in H
    BY DEF HoldsSome, Holds
  <2> QED
    BY <2>1
<1>4. Next1(t).lock = l /\ Takes(Next1(t)) /\ Next1(t).act \in {"read", "write"} /\ Wants(t, Next1(t).act, l)
  BY DEF WantsSome, Wants, Takes
<1>5. ASSUME HoldsOf(H, "header")
      PROVE  HoldsSome(t, "header")
  <2>1. PICK s \in H : s.lock = "header"
    BY <1>5 DEF HoldsOf
  <2>2. s \in Step /\ s.act \in {"read", "write"}
    BY <1>2
  <2>3. s = [act |-> s.act, lock |-> "header"]
    BY <2>1, <2>2 DEF Step
  <2>4. s = [act |-> "read", lock |-> "header"] \/ s = [act |-> "write", lock |-> "header"]
    BY <2>2, <2>3
  <2> QED
    BY <1>1, <2>4 DEF HoldsSome, Holds
<1> HIDE DEF H
<1>6. /\ \/ \A s \in H : Before(s.lock, l)
         \/ EdgeUnderHeader(H, Next1(t)) /\ call[t] \in Flushing
         \/ NodeUnderHeader(H, Next1(t)) /\ call[t] = "entity_ids"
      /\ HoldsOf(H, "edge") => call[t] = "insert_edge" \/ l \in Inner
      /\ HoldsOf(H, "node") => call[t] \in Changing
      /\ \A s \in H : s.lock \in Inner => Before(s.lock, l)
  BY <1>2, <1>4 DEF May
<1>7. HoldsOf(H, k)
  BY <1>3 DEF HoldsOf
<1>8. CASE EdgeUnderHeader(H, Next1(t)) /\ call[t] \in Flushing
  <2>1. HoldsSome(t, "header") /\ l = "edge" /\ Wants(t, "read", "edge")
    BY <1>4, <1>5, <1>8 DEF EdgeUnderHeader
  <2> QED
    BY <1>2, <1>3, <1>6, <1>7, <1>8, <2>1 DEF HeaderFirst, HoldsSome
<1>9. CASE NodeUnderHeader(H, Next1(t)) /\ call[t] = "entity_ids"
  <2>1. HoldsSome(t, "header") /\ l = "node" /\ Wants(t, "write", "node")
    BY <1>4, <1>5, <1>9 DEF NodeUnderHeader
  <2> QED
    BY <1>2, <1>3, <1>6, <1>7, <1>9, <2>1 DEF HeaderFirst, HoldsSome
<1>10. CASE \A s \in H : Before(s.lock, l)
  BY <1>2, <1>3, <1>6, <1>7, <1>10
<1> QED
  BY <1>6, <1>8, <1>9, <1>10

LEMMA OneWish ==
  ASSUME NEW t, NEW k, NEW l, WantsSome(t, k), WantsSome(t, l)
  PROVE  k = l
BY DEF WantsSome, Wants

\* In a circle somebody holds the lock that a thread of it wants and waits too.
LEMMA HolderInCircle ==
  ASSUME NEW S \in SUBSET Threads, Deadlocked(S), NEW t \in S
  PROVE  \E l \in Locks : /\ WantsSome(t, l)
                          /\ \E w \in S : HoldsSome(w, l) /\ \E m \in Locks : WantsSome(w, m)
<1>1. ASSUME NEW u \in S
      PROVE  \E v \in S : BlockedBy(u, v)
  BY DEF Deadlocked
<1>2. ASSUME NEW u \in S
      PROVE  \E m \in Locks : WantsSome(u, m)
  BY <1>1 DEF BlockedBy, WantsSome
<1>3. PICK u \in S : BlockedBy(t, u)
  BY <1>1
<1>4. PICK l \in Locks :
        \/ WantsSome(t, l) /\ HoldsSome(u, l)
        \/ WantsSome(t, l) /\ Wants(u, "write", l)
  BY <1>3, Zenon DEF BlockedBy, WantsSome, HoldsSome
<1>5. CASE HoldsSome(u, l)
  BY <1>2, <1>4, <1>5
<1>6. CASE Wants(u, "write", l)
  <2>1. PICK v \in S : BlockedBy(u, v)
    BY <1>1
  <2>2. PICK k \in Locks : /\ WantsSome(u, k)
                           /\ HoldsSome(v, k) \/ Wants(u, "read", k)
    BY <2>1, Zenon DEF BlockedBy, WantsSome, HoldsSome
  <2>3. k = l
    BY <1>6, <2>2, OneWish DEF WantsSome
  <2>4. ~Wants(u, "read", k)
    BY <1>6, <2>3 DEF Wants
  <2> QED
    BY <1>2, <1>4, <2>2, <2>3, <2>4
<1> QED
  BY <1>4, <1>5, <1>6

\* The places of the locks in the order: a step forward is a step up.
Place(lock) == CHOOSE i \in 1..7 : Order[i] = lock

LEMMA BeforeIsLower ==
  /\ \A l \in Locks : Place(l) \in 1..7
  /\ \A k, l \in Locks : Before(k, l) => Place(k) < Place(l)
<1>1. /\ Order[1] = "node" /\ Order[2] = "edge" /\ Order[3] = "header" /\ Order[4] = "btree"
      /\ Order[5] = "alloc" /\ Order[6] = "kv" /\ Order[7] = "wal" /\ DOMAIN Order = 1..7
  BY DEF Order
<1>2. \A i, j \in 1..7 : Order[i] = Order[j] => i = j
  BY <1>1
<1>3. \A l \in Locks : \E i \in 1..7 : Order[i] = l
  BY <1>1 DEF Locks
<1>4. \A l \in Locks : Place(l) \in 1..7 /\ Order[Place(l)] = l
  BY <1>3 DEF Place
<1> HIDE DEF Place
<1> QED
  BY <1>1, <1>2, <1>4 DEF Before

LEMMA CircleNeedsHeader ==
  ASSUME TypeOK, NEW S \in SUBSET Threads, Deadlocked(S)
  PROVE  \E t \in S : HeaderFirst(t)
<1> SUFFICES ASSUME \A t \in S : ~HeaderFirst(t)
             PROVE  FALSE
  OBVIOUS
<1> DEFINE A == {Place(l) : l \in {l \in Locks : \E t \in S : WantsSome(t, l)}}
<1>1. A \subseteq 1..7
  BY BeforeIsLower
<1>2. A # {}
  <2>1. PICK t \in S : TRUE
    BY DEF Deadlocked
  <2>2. \E l \in Locks : WantsSome(t, l)
    BY HolderInCircle
  <2> QED
    BY <2>2
<1>3. PICK i \in A : \A n \in A : n <= i
  BY <1>1, <1>2
<1>4. PICK l \in Locks, t \in S : i = Place(l) /\ WantsSome(t, l)
  BY <1>3
<1>5. PICK k \in Locks : /\ WantsSome(t, k)
                         /\ \E w \in S : HoldsSome(w, k) /\ \E m \in Locks : WantsSome(w, m)
  BY HolderInCircle
<1>6. k = l
  BY <1>4, <1>5, OneWish
<1>7. PICK w \in S, m \in Locks : HoldsSome(w, l) /\ WantsSome(w, m)
  BY <1>5, <1>6
<1>8. Before(l, m)
  <2>1. w \in Threads /\ ~HeaderFirst(w)
    OBVIOUS
  <2> QED
    BY <1>7, <2>1, HolderWaits
<1>9. Place(m) \in A
  BY <1>7
<1>10. Place(l) < Place(m) /\ Place(l) \in 1..7 /\ Place(m) \in 1..7
  BY <1>8, BeforeIsLower
<1> HIDE DEF A
<1> QED
  BY <1>3, <1>4, <1>9, <1>10

LEMMA AllInOrder ==
  ASSUME TypeOK, NEW t \in Threads
  PROVE  InOrder(t) \/ HeaderFirst(t)
<1> SUFFICES ASSUME ~HeaderFirst(t), NEW k \in Locks, NEW l \in Locks,
                    HoldsSome(t, k), WantsSome(t, l)
             PROVE  Before(k, l)
  BY DEF InOrder, HoldsSome, WantsSome
<1> QED
  BY HolderWaits

\* Every circle of waiting threads goes through one that holds the header and
\* wants the edge store or the node store, however many threads there are and
\* whatever they call; all others take their locks in one order.
THEOREM CirclesNeedTheHeader == Spec => []OnlyHeaderCloses
<1>1. TypeOK => OnlyHeaderCloses
  BY CircleNeedsHeader, AllInOrder DEF OnlyHeaderCloses
<1> QED
  BY <1>1, LocksTypes, PTL

\* In a compatible mix there is no circle at all.
NoCircle == Compatible(mix) => \A S \in SUBSET Threads : ~Deadlocked(S)

\* Nobody in a circle waits for one of the inner locks: who holds one waits for
\* none or for a later one.
LEMMA NobodyWaitsInside ==
  ASSUME TypeOK, NEW S \in SUBSET Threads, Deadlocked(S),
         NEW t \in S, NEW l \in Inner
  PROVE  ~WantsSome(t, l)
<1>0. Inner \subseteq Locks
  BY LockNames DEF Inner
<1>1. \A m \in Locks : ~Before("wal", m)
  BY DEF Before, Order
<1>2. \A m \in Locks : Before("kv", m) => m = "wal"
  BY DEF Before, Order
<1>3. \A m \in Locks : Before("alloc", m) => m \in {"kv", "wal"}
  BY DEF Before, Order
<1>4. ASSUME NEW u \in S, NEW k \in Inner, WantsSome(u, k)
      PROVE  \E w \in S, m \in Locks : WantsSome(w, m) /\ Before(k, m)
  <2>1. PICK j \in Locks : /\ WantsSome(u, j)
                           /\ \E w \in S : HoldsSome(w, j) /\ \E m \in Locks : WantsSome(w, m)
    BY HolderInCircle
  <2>2. j = k
    BY <1>4, <2>1, OneWish
  <2>3. PICK w \in S, m \in Locks : HoldsSome(w, k) /\ WantsSome(w, m)
    BY <2>1, <2>2
  <2>4. w \in Threads /\ k \in Locks
    BY <1>0
  <2> QED
    BY <2>3, <2>4, HolderWaits
<1>5. \A u \in S : ~WantsSome(u, "wal")
  BY <1>1, <1>4 DEF Inner
<1>6. \A u \in S : ~WantsSome(u, "kv")
  BY <1>2, <1>4, <1>5 DEF Inner
<1>7. \A u \in S : ~WantsSome(u, "alloc")
  BY <1>3, <1>4, <1>5, <1>6 DEF Inner
<1> QED
  BY <1>5, <1>6, <1>7 DEF Inner

LEMMA CompatibleHasNoCircle ==
  ASSUME TypeOK, Compatible(mix), NEW S \in SUBSET Threads, Deadlocked(S)
  PROVE  FALSE
<1>1. PICK t \in S : HeaderFirst(t)
  BY CircleNeedsHeader
<1>2. PICK l \in Locks : /\ WantsSome(t, l)
                         /\ \E w \in S : HoldsSome(w, l) /\ \E m \in Locks : WantsSome(w, m)
  BY HolderInCircle
<1>3. PICK w \in S, m \in Locks : HoldsSome(w, l) /\ WantsSome(w, m)
  BY <1>2
<1>4. HoldsSome(t, "header") /\ "header" \in Locks /\ t \in Threads /\ w \in Threads
  BY <1>1, LockNames DEF HeaderFirst, HoldsSome
<1>5. l \in {"edge", "node"}
  <2>1. WantsSome(t, "edge") \/ WantsSome(t, "node")
    BY <1>1 DEF HeaderFirst, WantsSome
  <2> QED
    BY <1>2, <2>1, OneWish
<1>6. /\ call[t] \in mix
      /\ l = "edge" => call[t] \in Flushing
      /\ l = "node" => call[t] = "entity_ids"
  <2>1. ~Before("header", "edge") /\ ~Before("header", "node")
    BY DEF Before, Order
  <2> QED
    BY <1>2, <1>4, <1>5, <2>1, HolderWaits
<1>7. /\ call[w] \in mix
      /\ l = "edge" => call[w] = "insert_edge"
      /\ l = "node" => call[w] \in Changing
  BY <1>3, <1>4, HolderWaits, NobodyWaitsInside
<1> QED
  BY <1>5, <1>6, <1>7 DEF Compatible

\* No deadlock among any number of threads when no flush meets an insert_edge and
\* entity_ids is not called while nodes are changed.
THEOREM NoCircleWhenCompatible == Spec => []NoCircle
<1>1. TypeOK => NoCircle
  BY CompatibleHasNoCircle DEF NoCircle
<1> QED
  BY <1>1, LocksTypes, PTL

-----------------------------------------------------------------------------
(* Finite sets *)

\* A non-empty set of naturals has a least element.
LEMMA LeastNatural ==
  ASSUME NEW T, T \subseteq Nat, T # {}
  PROVE  \E x \in T : \A y \in T : x <= y
<1> DEFINE LT == OpToRel(<, Nat)
<1>1. \A x, y \in Nat : y < x => <<y, x>> \in LT
  BY DEF OpToRel
<1>2. IsWellFoundedOn(LT, Nat)
  BY NatLessThanWellFounded
<1> HIDE DEF LT
<1>3. PICK x \in T : \A y \in T : ~(<<y, x>> \in LT)
  BY <1>2, WFMin, Zenon
<1>4. \A y \in T : ~(y < x)
  BY <1>1, <1>3, Zenon
<1> QED
  BY <1>4

\* Of subsets of a finite set one is not part of another, and one has no part.
LEMMA LargestSet ==
  ASSUME NEW D, IsFiniteSet(D), NEW B, B \subseteq SUBSET D, B # {}
  PROVE  \E S \in B : \A T \in B : S \subseteq T => S = T
<1> DEFINE C == {D \ S : S \in B}
<1>1. C \subseteq FiniteSubsetsOf(D) /\ C # {}
  <2>1. \A S \in B : D \ S \in SUBSET D /\ IsFiniteSet(D \ S)
    BY FS_Subset
  <2> QED
    BY <2>1 DEF FiniteSubsetsOf
<1>2. PICK U \in C : \A V \in C : ~(<<V, U>> \in StrictSubsetOrdering(D))
  <2> HIDE DEF C
  <2> QED
    BY <1>1, FS_StrictSubsetOrderingWellFounded, WFMin, Zenon
<1>3. PICK S \in B : U = D \ S
  BY <1>2
<1>4. ASSUME NEW T \in B, S \subseteq T, S # T PROVE FALSE
  <2>1. D \ T \in C /\ D \ T \subseteq U /\ D \ T # U
    BY <1>3, <1>4
  <2>2. U \in SUBSET D /\ D \ T \in SUBSET D
    BY <1>3
  <2>3. <<D \ T, U>> \in StrictSubsetOrdering(D)
    BY <2>1, <2>2 DEF StrictSubsetOrdering
  <2> QED
    BY <2>1, <2>3, <1>2
<1> QED
  BY <1>4

-----------------------------------------------------------------------------
(* Ways through a graph *)

\* A set that what step leads to does not leave.
ClosedIn(step, S) == \A n \in S : step[n] \subseteq S
Inward(step) == IsFiniteSet(DOMAIN step) /\ \A n \in DOMAIN step : step[n] \subseteq DOMAIN step

\* The least closed set around another.
Around(step, S) ==
  {m \in DOMAIN step : \A T \in SUBSET DOMAIN step : S \subseteq T /\ ClosedIn(step, T) => m \in T}
SpreadsBy(f, step) ==
  f = [S \in SUBSET DOMAIN step |->
         LET more == UNION {step[n] : n \in S}
         IN  IF more \subseteq S THEN S ELSE f[S \cup more]]

LEMMA AroundClosed ==
  ASSUME NEW step, Inward(step), NEW S \in SUBSET DOMAIN step
  PROVE  /\ S \subseteq Around(step, S) /\ Around(step, S) \in SUBSET DOMAIN step
         /\ ClosedIn(step, Around(step, S))
         /\ ClosedIn(step, S) => Around(step, S) = S
<1>1. S \subseteq Around(step, S) /\ Around(step, S) \in SUBSET DOMAIN step
  BY DEF Around
<1>2. ClosedIn(step, Around(step, S))
  <2> SUFFICES ASSUME NEW n \in Around(step, S), NEW m \in step[n] PROVE m \in Around(step, S)
    BY DEF ClosedIn
  <2>1. m \in DOMAIN step
    BY <1>1 DEF Inward
  <2>2. ASSUME NEW T \in SUBSET DOMAIN step, S \subseteq T, ClosedIn(step, T) PROVE m \in T
    <3>1. n \in T
      BY <2>2 DEF Around
    <3> QED
      BY <3>1, <2>2 DEF ClosedIn
  <2> QED
    BY <2>1, <2>2 DEF Around
<1>3. ClosedIn(step, S) => Around(step, S) \subseteq S
  BY DEF Around
<1> QED
  BY <1>1, <1>2, <1>3

LEMMA AroundGrows ==
  ASSUME NEW step, Inward(step), NEW S \in SUBSET DOMAIN step, NEW more, more = UNION {step[n] : n \in S}
  PROVE  /\ more \subseteq S => Around(step, S) = S
         /\ S \cup more \in SUBSET DOMAIN step
         /\ Around(step, S \cup more) = Around(step, S)
<1>1. \A n \in S : step[n] \subseteq more /\ step[n] \subseteq DOMAIN step
  BY DEF Inward
<1>2. S \cup more \in SUBSET DOMAIN step
  BY <1>1
<1>3. more \subseteq S => ClosedIn(step, S)
  BY <1>1 DEF ClosedIn
<1>4. \A T \in SUBSET DOMAIN step : ClosedIn(step, T) => (S \subseteq T <=> S \cup more \subseteq T)
  BY DEF ClosedIn
<1>5. Around(step, S \cup more) = Around(step, S)
  BY <1>4 DEF Around
<1> QED
  BY <1>2, <1>3, <1>5, AroundClosed

\* Spread gives the least closed set around from.
LEMMA SpreadAround ==
  ASSUME NEW step, Inward(step), NEW from \in SUBSET DOMAIN step
  PROVE  Spread(step, from) = Around(step, from)
<1> DEFINE D == DOMAIN step
           M(S) == UNION {step[n] : n \in S}
           g == [S \in SUBSET D |-> Around(step, S)]
<1>1. SpreadsBy(g, step)
  <2>1. ASSUME NEW S \in SUBSET D
        PROVE  Around(step, S) = IF M(S) \subseteq S THEN S ELSE g[S \cup M(S)]
    <3>1. PICK more : more = M(S)
      OBVIOUS
    <3>2. /\ more \subseteq S => Around(step, S) = S
          /\ S \cup more \in SUBSET D
          /\ Around(step, S \cup more) = Around(step, S)
      BY <3>1, AroundGrows
    <3>3. g[S \cup more] = Around(step, S \cup more)
      BY <3>2
    <3> QED
      BY <3>1, <3>2, <3>3
  <2> QED
    BY <2>1 DEF SpreadsBy
<1>2. PICK f : f = CHOOSE h : SpreadsBy(h, step)
  OBVIOUS
<1>3. SpreadsBy(f, step)
  <2> HIDE DEF g
  <2> QED
    BY <1>1, <1>2, Zenon
<1>4. Spread(step, from) = f[from]
  BY <1>2 DEF Spread, SpreadsBy
<1>5. \A S \in SUBSET D : f[S] = IF M(S) \subseteq S THEN S ELSE f[S \cup M(S)]
  BY <1>3 DEF SpreadsBy
<1> DEFINE Bad == {S \in SUBSET D : f[S] # Around(step, S)}
<1>6. ASSUME Bad # {} PROVE FALSE
  <2>0. IsFiniteSet(D) /\ Bad \subseteq SUBSET D
    BY DEF Inward
  <2>1. PICK S \in Bad : \A T \in Bad : S \subseteq T => S = T
    <3> HIDE DEF Bad, D
    <3> QED
      BY <2>0, <1>6, LargestSet
  <2>2. S \in SUBSET D /\ f[S] # Around(step, S)
    BY <2>1
  <2>3. PICK more : more = M(S)
    OBVIOUS
  <2>4. /\ more \subseteq S => Around(step, S) = S
        /\ S \cup more \in SUBSET D
        /\ Around(step, S \cup more) = Around(step, S)
    BY <2>2, <2>3, AroundGrows
  <2>5. f[S] = IF more \subseteq S THEN S ELSE f[S \cup more]
    BY <1>5, <2>2, <2>3
  <2>6. ~(more \subseteq S) /\ f[S] = f[S \cup more]
    BY <2>2, <2>4, <2>5
  <2>7. S \cup more \notin Bad
    BY <2>1, <2>6
  <2> QED
    BY <2>2, <2>4, <2>6, <2>7
<1> QED
  BY <1>4, <1>6

\* What is reached from a node along edges between nodes of V: the least set
\* around it that no edge leaves.
Within(es, V) == IsFiniteSet(V) /\ es \subseteq V \X V
Stays(es, T) == \A e \in es : e[1] \in T => e[2] \in T

LEMMA ReachedLeast ==
  ASSUME NEW V, NEW es, Within(es, V), NEW n \in V
  PROVE  /\ n \in ReachedFrom(n, es) /\ ReachedFrom(n, es) \subseteq V
         /\ Stays(es, ReachedFrom(n, es))
         /\ \A T : n \in T /\ Stays(es, T) => ReachedFrom(n, es) \subseteq T
<1> DEFINE D == {n} \cup {e[2] : e \in es}
           step == [m \in D |-> Succs(m, es)]
<1>1. \A e \in es : e = <<e[1], e[2]>> /\ e[1] \in V /\ e[2] \in V
  BY DEF Within
<1>2. D \subseteq V /\ IsFiniteSet(D)
  <2>1. D \in SUBSET V
    BY <1>1
  <2> QED
    BY <2>1, FS_Subset DEF Within
<1>3. \A m \in D : step[m] = Succs(m, es) /\ Succs(m, es) \subseteq D
  BY DEF Succs
<1>4. DOMAIN step = D /\ Inward(step)
  BY <1>2, <1>3 DEF Inward
<1>5. \A T \in SUBSET D : ClosedIn(step, T) <=> Stays(es, T)
  <2>1. ASSUME NEW T \in SUBSET D, ClosedIn(step, T), NEW e \in es, e[1] \in T PROVE e[2] \in T
    <3>1. e[2] \in Succs(e[1], es)
      BY DEF Succs
    <3> QED
      BY <3>1, <2>1, <1>3 DEF ClosedIn
  <2>2. ASSUME NEW T \in SUBSET D, Stays(es, T), NEW m \in T, NEW x \in step[m] PROVE x \in T
    <3>1. x \in Succs(m, es)
      BY <1>3
    <3> QED
      BY <3>1, <2>2 DEF Succs, Stays
  <2> QED
    BY <2>1, <2>2 DEF ClosedIn, Stays
<1>6. {n} \in SUBSET D
  OBVIOUS
<1>7. PICK Z : Z = Around(step, {n})
  OBVIOUS
<1>8. ReachedFrom(n, es) = Z
  <2>1. ReachedFrom(n, es) = Spread(step, {n})
    BY DEF ReachedFrom
  <2> HIDE DEF D, step
  <2> QED
    BY <2>1, <1>4, <1>6, <1>7, SpreadAround
<1>9. n \in Z /\ Z \in SUBSET D /\ ClosedIn(step, Z)
  <2> HIDE DEF step, D
  <2> QED
    BY <1>4, <1>6, <1>7, AroundClosed
<1>10. ASSUME NEW T, n \in T, Stays(es, T) PROVE Z \subseteq T
  <2>1. T \cap D \in SUBSET D /\ Stays(es, T \cap D) /\ n \in T \cap D
    BY <1>10 DEF Stays
  <2>2. ClosedIn(step, T \cap D)
    <3> HIDE DEF step, D
    <3> QED
      BY <2>1, <1>5
  <2>3. Z \subseteq T \cap D
    <3> HIDE DEF step, D
    <3> QED
      BY <1>4, <1>7, <2>1, <2>2 DEF Around
  <2> QED
    BY <2>3
<1> QED
  BY <1>2, <1>5, <1>8, <1>9, <1>10

LEMMA WayReached ==
  ASSUME NEW es, Within(es, Nodes), NEW a \in Nodes, NEW b
  PROVE  Way(a, b, es) <=> b \in ReachedFrom(a, es)
<1>1. PICK Z : Z = ReachedFrom(a, es)
  OBVIOUS
<1>2. /\ a \in Z /\ Z \subseteq Nodes /\ Stays(es, Z)
      /\ \A T : a \in T /\ Stays(es, T) => Z \subseteq T
  BY <1>1, ReachedLeast
<1>3. Way(a, b, es) => b \in Z
  BY <1>2 DEF Way, Stays
<1>4. b \in Z => Way(a, b, es)
  BY <1>2 DEF Way, Stays
<1> QED
  BY <1>1, <1>3, <1>4

-----------------------------------------------------------------------------
(* Dominators *)

\* Repeating a step.
Repeats(f, L, S, x0, F) ==
  f \in [0..L -> S] /\ \A n \in 0..L : f[n] = IF n = 0 THEN x0 ELSE F[f[n - 1]]
LEMMA Repeated ==
  ASSUME NEW L \in Nat, NEW S, NEW x0 \in S, NEW F \in [S -> S]
  PROVE  \E f : Repeats(f, L, S, x0, F)
<1> DEFINE Bad == {m \in 0..L : \A f : ~Repeats(f, m, S, x0, F)}
<1> SUFFICES ASSUME L \in Bad PROVE FALSE
  OBVIOUS
<1>1. Bad \subseteq Nat /\ Bad # {}
  OBVIOUS
<1>2. PICK m \in Bad : \A y \in Bad : m <= y
  <2> HIDE DEF Bad
  <2> QED
    BY <1>1, LeastNatural
<1>3. m \in 0..L /\ \A f : ~Repeats(f, m, S, x0, F)
  BY <1>2
<1>4. m # 0
  <2> SUFFICES ASSUME m = 0 PROVE FALSE
    OBVIOUS
  <2> DEFINE f == [n \in 0..0 |-> x0]
  <2>1. Repeats(f, 0, S, x0, F)
    BY DEF Repeats
  <2> QED
    BY <2>1, <1>3
<1>5. m - 1 \in 0..L /\ ~(m <= m - 1)
  BY <1>3, <1>4
<1>6. PICK g : Repeats(g, m - 1, S, x0, F)
  BY <1>2, <1>5
<1>7. g \in [0..(m - 1) -> S] /\ \A n \in 0..(m - 1) : g[n] = IF n = 0 THEN x0 ELSE F[g[n - 1]]
  BY <1>6 DEF Repeats
<1> DEFINE f == [n \in 0..m |-> IF n = m THEN F[g[m - 1]] ELSE g[n]]
<1>8. f \in [0..m -> S]
  <2>1. g[m - 1] \in S
    BY <1>3, <1>4, <1>7
  <2>2. F[g[m - 1]] \in S
    BY <2>1
  <2>3. \A n \in 0..m : n = m \/ n \in 0..(m - 1)
    BY <1>3
  <2> QED
    BY <2>2, <2>3, <1>7
<1>9. \A n \in 0..m : f[n] = IF n = 0 THEN x0 ELSE F[f[n - 1]]
  <2> SUFFICES ASSUME NEW n \in 0..m PROVE f[n] = IF n = 0 THEN x0 ELSE F[f[n - 1]]
    OBVIOUS
  <2>1. CASE n = m
    <3>1. m - 1 \in 0..m /\ m - 1 # m
      BY <1>3, <1>4
    <3>2. f[m - 1] = g[m - 1]
      BY <3>1
    <3> QED
      BY <3>2, <2>1, <1>4
  <2>2. CASE n # m
    <3>1. n \in 0..(m - 1) /\ f[n] = g[n]
      BY <2>2, <1>3
    <3>2. n # 0 => n - 1 \in 0..m /\ n - 1 # m /\ f[n - 1] = g[n - 1]
      BY <3>1, <1>3
    <3> QED
      BY <3>1, <3>2, <1>7
  <2> QED
    BY <2>1, <2>2
<1> HIDE DEF f
<1>10. Repeats(f, m, S, x0, F)
  BY <1>8, <1>9 DEF Repeats
<1> QED
  BY <1>10, <1>3

\* The sets the sweeps work on, and what a sweep makes of a state of the loop.
Maps(V) == [V -> SUBSET V]
States(V) == [dom : Maps(V), changed : BOOLEAN]
Swept(s, root, es) ==
  LET next == Sweep(s.dom, root, es)
  IN  IF s.changed THEN [dom |-> next, changed |-> next # s.dom] ELSE s
FirstState(V, root) == [dom |-> InitialSets(V, root), changed |-> TRUE]

LEMMA SweepType ==
  ASSUME NEW V, NEW root \in V, NEW es, NEW dom \in Maps(V)
  PROVE  Sweep(dom, root, es) \in Maps(V)
<1>1. DOMAIN dom = V /\ \A n \in V : dom[n] \in SUBSET V
  BY DEF Maps
<1> QED
  BY <1>1 DEF Sweep, Maps

SweepsBy(f, V, root, es) ==
  f = [k \in 0..Cardinality(V) |->
         IF k = 0 THEN FirstState(V, root)
         ELSE LET last == f[k - 1]
                  next == Sweep(last.dom, root, es)
              IN  IF last.changed THEN [dom |-> next, changed |-> next # last.dom] ELSE last]

LEMMA SweepSteps ==
  ASSUME NEW V, IsFiniteSet(V), NEW root \in V, NEW es
  PROVE  \E f : /\ f[0] = FirstState(V, root)
                /\ \A k \in 0..Cardinality(V) : f[k] \in States(V)
                /\ \A k \in 1..Cardinality(V) : f[k] = Swept(f[k - 1], root, es)
                /\ Dominators(V, root, es) = f[Cardinality(V)].dom
<1> DEFINE N1 == Cardinality(V)
           F == [s \in States(V) |-> Swept(s, root, es)]
<1>1. N1 \in Nat
  BY FS_CardinalityType
<1>2. F \in [States(V) -> States(V)]
  <2>1. ASSUME NEW s \in States(V) PROVE Swept(s, root, es) \in States(V)
    <3>1. PICK next : next = Sweep(s.dom, root, es)
      OBVIOUS
    <3>2. next \in Maps(V)
      BY <3>1, SweepType DEF States
    <3> QED
      BY <3>1, <3>2 DEF Swept, States
  <2> QED
    BY <2>1
<1>3. FirstState(V, root) \in States(V)
  BY DEF FirstState, States, InitialSets, Maps
<1>4. PICK f : Repeats(f, N1, States(V), FirstState(V, root), F)
  <2> HIDE DEF F, N1
  <2> QED
    BY <1>1, <1>2, <1>3, Repeated, Zenon
<1>5. f \in [0..N1 -> States(V)] /\ \A n \in 0..N1 : f[n] = IF n = 0 THEN FirstState(V, root) ELSE F[f[n - 1]]
  BY <1>4 DEF Repeats
<1>6. \A n \in 1..N1 : n - 1 \in 0..N1 /\ F[f[n - 1]] = Swept(f[n - 1], root, es)
  BY <1>1, <1>5
<1>7. SweepsBy(f, V, root, es)
  <2>1. f = [k \in 0..N1 |-> f[k]]
    BY <1>5
  <2>2. \A n \in 0..N1 : n = 0 \/ n \in 1..N1
    BY <1>1
  <2>3. \A n \in 0..N1 : f[n] = IF n = 0 THEN FirstState(V, root) ELSE Swept(f[n - 1], root, es)
    <3> HIDE DEF F, N1
    <3> QED
      BY <1>5, <1>6, <2>2
  <2> HIDE DEF F
  <2> QED
    BY <2>1, <2>3 DEF SweepsBy, Swept
<1>8. PICK g : g = CHOOSE h : SweepsBy(h, V, root, es)
  OBVIOUS
<1>9. SweepsBy(g, V, root, es)
  BY <1>7, <1>8, Zenon
<1>10. Dominators(V, root, es) = g[N1].dom
  BY <1>8 DEF Dominators, SweepsBy, FirstState
<1>11. \A k \in 0..N1 : g[k] = IF k = 0 THEN FirstState(V, root) ELSE Swept(g[k - 1], root, es)
  BY <1>9 DEF SweepsBy, Swept
<1> DEFINE Bad == {k \in 0..N1 : g[k] # f[k]}
<1>12. ASSUME Bad # {} PROVE FALSE
  <2>1. Bad \subseteq Nat
    BY <1>1
  <2>2. PICK m \in Bad : \A y \in Bad : m <= y
    <3> HIDE DEF Bad
    <3> QED
      BY <2>1, <1>12, LeastNatural
  <2>3. m \in 0..N1 /\ g[m] # f[m]
    BY <2>2
  <2>4. m # 0
    BY <2>3, <1>11, <1>5
  <2>5. m \in 1..N1 /\ m - 1 \in 0..N1 /\ ~(m <= m - 1)
    BY <2>3, <2>4, <1>1
  <2>6. g[m - 1] = f[m - 1]
    BY <2>2, <2>5
  <2>7. f[m] = Swept(f[m - 1], root, es) /\ g[m] = Swept(g[m - 1], root, es)
    <3> HIDE DEF F, N1
    <3> QED
      BY <2>4, <2>3, <2>5, <1>5, <1>6, <1>11
  <2> QED
    BY <2>3, <2>6, <2>7
<1>13. 0 \in 0..N1 /\ \A k \in 1..N1 : k \in 0..N1 /\ k # 0
  BY <1>1
<1>14. g[N1] = f[N1]
  BY <1>12, <1>1
<1>15. /\ f[0] = FirstState(V, root)
       /\ \A k \in 0..N1 : f[k] \in States(V)
       /\ \A k \in 1..N1 : f[k] = Swept(f[k - 1], root, es)
  <2> HIDE DEF F, N1
  <2> QED
    BY <1>5, <1>6, <1>13
<1> QED
  BY <1>10, <1>14, <1>15, Zenon

\* Where d is not counted among the dominators, and what is reached past it.
Missing(V, dom, d) == {n \in V : d \notin dom[n]}
Past(d, root, es) == ReachedFrom(root, Without(d, es))

\* What every sweep keeps: who reaches a node past d does not count d.
SetsOK(V, root, es, dom) ==
  /\ dom \in Maps(V)
  /\ dom[root] = {root}
  /\ \A n \in V \ ReachedFrom(root, es) : dom[n] = V
  /\ \A n \in V : n \in dom[n] /\ root \in dom[n]
  /\ \A d \in V \ {root} : Missing(V, dom, d) \subseteq Past(d, root, es)

\* Where d is not counted after a sweep.
Further(V, root, es, d, B) ==
  {root} \cup {n \in ReachedFrom(root, es) \ {root, d} : \E p \in Preds(n, es) : p \in B}

LEMMA PastFacts ==
  ASSUME NEW V, NEW es, Within(es, V), NEW root \in V, NEW d \in V \ {root}
  PROVE  /\ Within(Without(d, es), V)
         /\ root \in Past(d, root, es) /\ Past(d, root, es) \subseteq ReachedFrom(root, es) \ {d}
         /\ \A e \in es : e[1] \in Past(d, root, es) /\ e[2] # d => e[2] \in Past(d, root, es)
<1>1. Within(Without(d, es), V)
  BY DEF Within, Without
<1>2. PICK P : P = Past(d, root, es)
  OBVIOUS
<1>3. PICK Reach : Reach = ReachedFrom(root, es)
  OBVIOUS
<1>4. /\ root \in P /\ P \subseteq V /\ Stays(Without(d, es), P)
      /\ \A T : root \in T /\ Stays(Without(d, es), T) => P \subseteq T
  BY <1>1, <1>2, ReachedLeast DEF Past
<1>5. root \in Reach /\ Reach \subseteq V /\ Stays(es, Reach)
  BY <1>3, ReachedLeast
<1>6. Stays(Without(d, es), Reach \ {d}) /\ root \in Reach \ {d}
  BY <1>5 DEF Stays, Without
<1>7. P \subseteq Reach \ {d}
  BY <1>4, <1>6
<1>8. \A e \in es : e[1] \in P /\ e[2] # d => e[2] \in P
  BY <1>4, <1>7 DEF Stays, Without
<1> QED
  BY <1>1, <1>2, <1>3, <1>4, <1>7, <1>8

LEMMA FirstSetsOK ==
  ASSUME NEW V, NEW es, Within(es, V), NEW root \in V
  PROVE  /\ SetsOK(V, root, es, InitialSets(V, root))
         /\ \A d \in V \ {root} : Missing(V, InitialSets(V, root), d) = {root}
<1>1. PICK dom : dom = InitialSets(V, root)
  OBVIOUS
<1>2. dom \in Maps(V) /\ \A n \in V : dom[n] = IF n = root THEN {root} ELSE V
  BY <1>1 DEF InitialSets, Maps
<1>3. root \in ReachedFrom(root, es)
  BY ReachedLeast
<1>4. \A d \in V \ {root} : Missing(V, dom, d) = {root}
  BY <1>2 DEF Missing
<1>5. \A d \in V \ {root} : Missing(V, dom, d) \subseteq Past(d, root, es)
  BY <1>4, PastFacts
<1> QED
  BY <1>1, <1>2, <1>3, <1>4, <1>5 DEF SetsOK

LEMMA SweepFacts ==
  ASSUME NEW V, NEW es, Within(es, V), NEW root \in V, NEW dom, SetsOK(V, root, es, dom)
  PROVE  /\ SetsOK(V, root, es, Sweep(dom, root, es))
         /\ \A d \in V \ {root} :
              Missing(V, Sweep(dom, root, es), d) = Further(V, root, es, d, Missing(V, dom, d))
<1>1. PICK Reach : Reach = ReachedFrom(root, es)
  OBVIOUS
<1>2. root \in Reach /\ Reach \subseteq V /\ Stays(es, Reach)
  BY <1>1, ReachedLeast
<1>3. PICK next : next = Sweep(dom, root, es)
  OBVIOUS
<1>4. DOMAIN dom = V /\ next \in Maps(V)
  BY <1>3, SweepType DEF SetsOK, Maps
<1>5. \A n \in V : next[n] = IF n = root \/ n \notin Reach THEN dom[n]
                             ELSE {n} \cup {d \in V : \A p \in Preds(n, es) : d \in dom[p]}
  BY <1>1, <1>3, <1>4 DEF Sweep
<1>6. \A n \in V : Preds(n, es) \subseteq V
  BY DEF Preds, Within
<1>7. /\ next[root] = {root}
      /\ \A n \in V \ Reach : next[n] = V
      /\ \A n \in V : n \in next[n] /\ root \in next[n]
  BY <1>1, <1>2, <1>5, <1>6 DEF SetsOK
<1>8. ASSUME NEW d \in V \ {root}
      PROVE  Missing(V, next, d) = Further(V, root, es, d, Missing(V, dom, d))
  <2>1. ASSUME NEW n \in V
        PROVE  d \notin next[n] <=> n \in Further(V, root, es, d, Missing(V, dom, d))
    <3>1. CASE n = root
      BY <3>1, <1>7 DEF Further
    <3>2. CASE n \notin Reach
      BY <3>2, <1>1, <1>2, <1>7 DEF Further
    <3>3. CASE n # root /\ n \in Reach
      BY <3>3, <1>1, <1>5, <1>6 DEF Further, Missing
    <3> QED
      BY <3>1, <3>2, <3>3
  <2>2. Further(V, root, es, d, Missing(V, dom, d)) \subseteq V
    BY <1>1, <1>2 DEF Further
  <2> QED
    BY <2>1, <2>2 DEF Missing
<1>9. ASSUME NEW d \in V \ {root}
      PROVE  Missing(V, next, d) \subseteq Past(d, root, es)
  <2>1. PICK P : P = Past(d, root, es)
    OBVIOUS
  <2>2. root \in P /\ \A e \in es : e[1] \in P /\ e[2] # d => e[2] \in P
    BY <2>1, PastFacts
  <2>3. Missing(V, dom, d) \subseteq P
    BY <2>1 DEF SetsOK
  <2>4. ASSUME NEW n \in V, n # d, NEW p \in Preds(n, es), p \in P PROVE n \in P
    <3>1. PICK e \in es : e[1] = p /\ e[2] = n
      BY DEF Preds
    <3> QED
      BY <3>1, <2>2, <2>4
  <2> QED
    BY <1>1, <1>2, <1>8, <2>1, <2>2, <2>3, <2>4 DEF Further
<1> QED
  BY <1>1, <1>3, <1>4, <1>7, <1>8, <1>9 DEF SetsOK

\* After k sweeps d is not counted at more than k nodes, or nothing changes.
Swells(V, root, es, dom, k) ==
  \A d \in V \ {root} :
    /\ Missing(V, dom, d) \subseteq Missing(V, Sweep(dom, root, es), d)
    /\ \/ Missing(V, Sweep(dom, root, es), d) = Missing(V, dom, d)
       \/ k + 1 <= Cardinality(Missing(V, dom, d))

LEMMA SwellsOn ==
  ASSUME NEW V, NEW es, Within(es, V), NEW root \in V, NEW dom, SetsOK(V, root, es, dom),
         NEW k \in Nat, Swells(V, root, es, dom, k)
  PROVE  Swells(V, root, es, Sweep(dom, root, es), k + 1)
<1>1. PICK next : next = Sweep(dom, root, es)
  OBVIOUS
<1>2. PICK after : after = Sweep(next, root, es)
  OBVIOUS
<1>3. SetsOK(V, root, es, next)
  BY <1>1, SweepFacts
<1> SUFFICES ASSUME NEW d \in V \ {root}
             PROVE  /\ Missing(V, next, d) \subseteq Missing(V, after, d)
                    /\ \/ Missing(V, after, d) = Missing(V, next, d)
                       \/ k + 2 <= Cardinality(Missing(V, next, d))
  BY <1>1, <1>2 DEF Swells
<1>4. PICK A : A = Missing(V, dom, d)
  OBVIOUS
<1>5. PICK B : B = Missing(V, next, d)
  OBVIOUS
<1>6. PICK C : C = Missing(V, after, d)
  OBVIOUS
<1>7. B = Further(V, root, es, d, A) /\ C = Further(V, root, es, d, B)
  BY <1>1, <1>2, <1>3, <1>4, <1>5, <1>6, SweepFacts
<1>8. A \subseteq B /\ (B = A \/ k + 1 <= Cardinality(A))
  BY <1>1, <1>4, <1>5 DEF Swells
<1>9. B \subseteq C /\ (B = A => C = B)
  BY <1>7, <1>8 DEF Further
<1>10. ASSUME B # A PROVE k + 2 <= Cardinality(B)
  <2>1. B \in SUBSET V /\ A \in SUBSET B
    BY <1>5, <1>8 DEF Missing
  <2>2. IsFiniteSet(B)
    BY <2>1, FS_Subset DEF Within
  <2>3. IsFiniteSet(A) /\ Cardinality(A) <= Cardinality(B) /\ Cardinality(A) # Cardinality(B)
    BY <2>1, <2>2, <1>10, FS_Subset
  <2>4. Cardinality(A) \in Nat /\ Cardinality(B) \in Nat
    BY <2>2, <2>3, FS_CardinalityType
  <2> QED
    BY <2>3, <2>4, <1>8, <1>10
<1> QED
  BY <1>5, <1>6, <1>9, <1>10

\* A node is a dominator of those that are not reached past it.
LEMMA DominatorSets ==
  ASSUME NEW V, NEW es, Within(es, V), NEW root \in V
  PROVE  /\ Dominators(V, root, es) \in Maps(V)
         /\ \A n \in V : root \in Dominators(V, root, es)[n]
         /\ \A d \in V \ {root}, n \in V : d \in Dominators(V, root, es)[n] <=> n \notin Past(d, root, es)
<1> DEFINE K == Cardinality(V)
<1>0. IsFiniteSet(V) /\ K \in Nat
  BY FS_CardinalityType DEF Within
<1>1. PICK f : /\ f[0] = FirstState(V, root)
               /\ \A k \in 0..K : f[k] \in States(V)
               /\ \A k \in 1..K : f[k] = Swept(f[k - 1], root, es)
               /\ Dominators(V, root, es) = f[K].dom
  BY <1>0, SweepSteps
<1> DEFINE Right(k) ==
             /\ SetsOK(V, root, es, f[k].dom)
             /\ Swells(V, root, es, f[k].dom, k)
             /\ ~f[k].changed => Sweep(f[k].dom, root, es) = f[k].dom
           Bad == {k \in 0..K : ~Right(k)}
<1>2. Right(0)
  <2>1. PICK dom : dom = InitialSets(V, root)
    OBVIOUS
  <2>2. f[0].dom = dom /\ f[0].changed
    BY <1>1, <2>1 DEF FirstState
  <2>3. SetsOK(V, root, es, dom) /\ \A d \in V \ {root} : Missing(V, dom, d) = {root}
    BY <2>1, FirstSetsOK
  <2>4. \A d \in V \ {root} : {root} \subseteq Missing(V, Sweep(dom, root, es), d)
    BY <2>3, SweepFacts DEF Further
  <2>5. Cardinality({root}) = 1
    BY FS_Singleton
  <2>6. Swells(V, root, es, dom, 0)
    BY <2>3, <2>4, <2>5 DEF Swells
  <2> QED
    BY <2>2, <2>3, <2>6
<1>3. ASSUME Bad # {} PROVE FALSE
  <2>1. Bad \subseteq Nat
    BY <1>0
  <2>2. PICK m \in Bad : \A y \in Bad : m <= y
    <3> HIDE DEF Bad
    <3> QED
      BY <2>1, <1>3, LeastNatural
  <2>3. m \in 0..K /\ ~Right(m)
    BY <2>2
  <2>4. m # 0
    BY <2>3, <1>2
  <2>5. m \in 1..K /\ m - 1 \in 0..K /\ ~(m <= m - 1) /\ m - 1 \in Nat /\ (m - 1) + 1 = m
    BY <2>3, <2>4, <1>0
  <2>6. Right(m - 1)
    BY <2>2, <2>5
  <2>7. f[m] = Swept(f[m - 1], root, es) /\ f[m - 1] \in States(V)
    BY <1>1, <2>5
  <2>8. PICK s : s = f[m - 1]
    OBVIOUS
  <2>9. /\ SetsOK(V, root, es, s.dom) /\ Swells(V, root, es, s.dom, m - 1)
        /\ ~s.changed => Sweep(s.dom, root, es) = s.dom
    BY <2>6, <2>8
  <2>10. PICK next : next = Sweep(s.dom, root, es)
    OBVIOUS
  <2>11. SetsOK(V, root, es, next) /\ Swells(V, root, es, next, m)
    BY <2>5, <2>9, <2>10, SweepFacts, SwellsOn
  <2>12. f[m] = IF s.changed THEN [dom |-> next, changed |-> next # s.dom] ELSE s
    BY <2>7, <2>8, <2>10 DEF Swept
  <2>13. f[m].dom = next /\ (~f[m].changed => next = s.dom)
    <3>1. CASE s.changed
      <4>1. PICK b : b = (next # s.dom)
        OBVIOUS
      <4>2. f[m] = [dom |-> next, changed |-> b]
        BY <2>12, <3>1, <4>1
      <4>3. f[m].dom = next /\ f[m].changed = b
        BY <4>2
      <4> QED
        BY <4>1, <4>3, Zenon
    <3>2. CASE ~s.changed
      BY <2>12, <3>2, <2>9, <2>10
    <3> QED
      BY <3>1, <3>2
  <2>14. Right(m)
    BY <2>10, <2>11, <2>13
  <2> QED
    BY <2>3, <2>14
<1>4. PICK dom : dom = f[K].dom
  OBVIOUS
<1>5. K \in 0..K
  BY <1>0
<1>6. SetsOK(V, root, es, dom) /\ Swells(V, root, es, dom, K)
  <2>1. Right(K)
    BY <1>3, <1>5
  <2> QED
    BY <2>1, <1>4
<1>7. ASSUME NEW d \in V \ {root}, NEW n \in V
      PROVE  d \in dom[n] <=> n \notin Past(d, root, es)
  <2>1. PICK P : P = Past(d, root, es)
    OBVIOUS
  <2>2. PICK A : A = Missing(V, dom, d)
    OBVIOUS
  <2>3. A \subseteq P
    BY <1>6, <2>1, <2>2 DEF SetsOK
  <2>4. A = Further(V, root, es, d, A)
    <3>1. A \in SUBSET (V \ {d})
      BY <1>6, <2>2 DEF SetsOK, Missing
    <3>2. IsFiniteSet(V \ {d}) /\ Cardinality(V \ {d}) = K - 1
      BY <1>0, FS_RemoveElement
    <3>3. Cardinality(A) <= K - 1 /\ Cardinality(A) \in Nat
      BY <3>1, <3>2, FS_Subset, FS_CardinalityType
    <3>4. Missing(V, Sweep(dom, root, es), d) = A
      BY <1>0, <1>6, <2>2, <3>3 DEF Swells
    <3> QED
      BY <3>4, <1>6, <2>2, SweepFacts
  <2>5. Stays(Without(d, es), A) /\ root \in A
    <3>1. PICK Reach : Reach = ReachedFrom(root, es)
      OBVIOUS
    <3>2. Stays(es, Reach) /\ P \subseteq Reach
      BY <2>1, <3>1, ReachedLeast, PastFacts
    <3>3. ASSUME NEW e \in Without(d, es), e[1] \in A PROVE e[2] \in A
      <4>1. e \in es /\ e[2] # d /\ e[2] \in Reach
        BY <2>3, <3>2, <3>3 DEF Without, Stays
      <4>2. e[1] \in Preds(e[2], es)
        BY <4>1 DEF Preds
      <4> QED
        BY <2>4, <3>1, <3>3, <4>1, <4>2 DEF Further
    <3> QED
      BY <2>4, <3>3 DEF Stays, Further
  <2>6. P \subseteq A
    BY <2>1, <2>5, PastFacts, ReachedLeast DEF Past
  <2> QED
    BY <2>1, <2>2, <2>3, <2>6 DEF Missing
<1> QED
  BY <1>1, <1>4, <1>6, <1>7 DEF SetsOK

\* What the sets of dominators are, and what follows of their order.
SetsRight(V, root, es, dom) ==
  /\ dom \in Maps(V)
  /\ \A n \in V : root \in dom[n]
  /\ \A d \in V \ {root}, n \in V : d \in dom[n] <=> n \notin Past(d, root, es)

LEMMA DominatesItself ==
  ASSUME NEW V, NEW es, Within(es, V), NEW root \in V, NEW dom, SetsRight(V, root, es, dom)
  PROVE  /\ DOMAIN dom = V
         /\ \A n \in V : n \in dom[n] /\ dom[n] \subseteq V
         /\ dom[root] = {root}
<1>1. DOMAIN dom = V /\ \A n \in V : dom[n] \subseteq V
  BY DEF SetsRight, Maps
<1>2. \A d \in V \ {root} : root \in Past(d, root, es) /\ d \notin Past(d, root, es)
  BY PastFacts
<1>3. \A n \in V : n \in dom[n]
  BY <1>2 DEF SetsRight
<1>4. \A d \in V \ {root} : d \notin dom[root]
  BY <1>2 DEF SetsRight
<1> QED
  BY <1>1, <1>3, <1>4

LEMMA DominatesOn ==
  ASSUME NEW V, NEW es, Within(es, V), NEW root \in V, NEW dom, SetsRight(V, root, es, dom),
         NEW n \in V, NEW d \in dom[n]
  PROVE  dom[d] \subseteq dom[n]
<1>0. d \in V
  BY DominatesItself
<1> SUFFICES ASSUME NEW c \in dom[d], c \notin dom[n] PROVE FALSE
  OBVIOUS
<1>1. c \in V
  BY <1>0, DominatesItself
<1>2. c # root
  BY DEF SetsRight
<1>3. d # root
  BY <1>2, DominatesItself
<1>4. PICK C : C = Past(c, root, es)
  OBVIOUS
<1>5. PICK D : D = Past(d, root, es)
  OBVIOUS
<1>6. n \in C /\ d \notin C /\ n \notin D
  BY <1>0, <1>1, <1>2, <1>3, <1>4, <1>5 DEF SetsRight
<1>7. root \in C /\ \A e \in es : e[1] \in C /\ e[2] # c => e[2] \in C
  BY <1>1, <1>2, <1>4, PastFacts
<1>8. root \in D /\ \A e \in es : e[1] \in D /\ e[2] # d => e[2] \in D
  BY <1>0, <1>3, <1>5, PastFacts
<1>9. Stays(Without(c, es), C \cap D) /\ root \in C \cap D
  BY <1>6, <1>7, <1>8 DEF Stays, Without
<1>10. C \subseteq C \cap D
  BY <1>1, <1>2, <1>4, <1>9, PastFacts, ReachedLeast DEF Past
<1> QED
  BY <1>6, <1>10

LEMMA DominatorReached ==
  ASSUME NEW V, NEW es, Within(es, V), NEW root \in V, NEW dom, SetsRight(V, root, es, dom),
         NEW n \in ReachedFrom(root, es), NEW d \in dom[n]
  PROVE  d \in ReachedFrom(root, es)
<1>1. PICK Reach : Reach = ReachedFrom(root, es)
  OBVIOUS
<1>2. root \in Reach /\ Reach \subseteq V /\ \A T : root \in T /\ Stays(es, T) => Reach \subseteq T
  BY <1>1, ReachedLeast
<1>3. n \in V /\ d \in V
  BY <1>1, <1>2, DominatesItself
<1> SUFFICES ASSUME d \notin Reach PROVE FALSE
  BY <1>1
<1>4. d # root
  BY <1>2
<1>5. PICK D : D = Past(d, root, es)
  OBVIOUS
<1>6. n \notin D
  BY <1>3, <1>4, <1>5 DEF SetsRight
<1>7. root \in D /\ D \subseteq Reach /\ \A e \in es : e[1] \in D /\ e[2] # d => e[2] \in D
  BY <1>1, <1>3, <1>4, <1>5, PastFacts
<1>8. Stays(es, Reach)
  BY <1>1, ReachedLeast
<1>9. Stays(es, D)
  BY <1>7, <1>8 DEF Stays
<1> QED
  BY <1>1, <1>2, <1>6, <1>7, <1>9

LEMMA DominatesOneWay ==
  ASSUME NEW V, NEW es, Within(es, V), NEW root \in V, NEW dom, SetsRight(V, root, es, dom),
         NEW c \in ReachedFrom(root, es), NEW d \in dom[c], c \in dom[d]
  PROVE  c = d
<1>1. PICK Reach : Reach = ReachedFrom(root, es)
  OBVIOUS
<1>2. root \in Reach /\ Reach \subseteq V /\ \A T : root \in T /\ Stays(es, T) => Reach \subseteq T
  BY <1>1, ReachedLeast
<1>3. c \in V /\ d \in V
  BY <1>1, <1>2, DominatesItself
<1> SUFFICES ASSUME c # d PROVE FALSE
  OBVIOUS
<1>4. c # root /\ d # root
  BY DominatesItself
<1>5. PICK C : C = Past(c, root, es)
  OBVIOUS
<1>6. PICK D : D = Past(d, root, es)
  OBVIOUS
<1>7. d \notin C /\ c \notin D
  BY <1>3, <1>4, <1>5, <1>6 DEF SetsRight
<1>8. root \in C /\ c \notin C /\ \A e \in es : e[1] \in C /\ e[2] # c => e[2] \in C
  BY <1>3, <1>4, <1>5, PastFacts
<1>9. root \in D /\ d \notin D /\ \A e \in es : e[1] \in D /\ e[2] # d => e[2] \in D
  BY <1>3, <1>4, <1>6, PastFacts
<1>10. Stays(es, C \cap D)
  BY <1>7, <1>8, <1>9 DEF Stays
<1> QED
  BY <1>1, <1>2, <1>8, <1>9, <1>10

LEMMA DominatorsInLine ==
  ASSUME NEW V, NEW es, Within(es, V), NEW root \in V, NEW dom, SetsRight(V, root, es, dom),
         NEW n \in ReachedFrom(root, es), NEW c \in dom[n], NEW d \in dom[n]
  PROVE  c \in dom[d] \/ d \in dom[c]
<1>1. PICK Reach : Reach = ReachedFrom(root, es)
  OBVIOUS
<1>2. root \in Reach /\ Reach \subseteq V /\ \A T : root \in T /\ Stays(es, T) => Reach \subseteq T
  BY <1>1, ReachedLeast
<1>3. n \in V /\ c \in V /\ d \in V
  BY <1>1, <1>2, DominatesItself
<1> SUFFICES ASSUME c \notin dom[d], d \notin dom[c] PROVE FALSE
  OBVIOUS
<1>4. c # root /\ d # root
  BY <1>3 DEF SetsRight
<1>5. PICK C : C = Past(c, root, es)
  OBVIOUS
<1>6. PICK D : D = Past(d, root, es)
  OBVIOUS
<1>7. d \in C /\ c \in D /\ n \notin C /\ n \notin D
  BY <1>3, <1>4, <1>5, <1>6 DEF SetsRight
<1>8. root \in C /\ \A e \in es : e[1] \in C /\ e[2] # c => e[2] \in C
  BY <1>3, <1>4, <1>5, PastFacts
<1>9. \A e \in es : e[1] \in D /\ e[2] # d => e[2] \in D
  BY <1>3, <1>4, <1>6, PastFacts
<1>10. Stays(es, C \cup D)
  BY <1>7, <1>8, <1>9 DEF Stays
<1> QED
  BY <1>1, <1>2, <1>7, <1>8, <1>10

\* A dominator of a node dominates its predecessors too, and for good reason.
LEMMA DominatesBefore ==
  ASSUME NEW V, NEW es, Within(es, V), NEW root \in V, NEW dom, SetsRight(V, root, es, dom),
         NEW n \in V, NEW p \in Preds(n, es), NEW d \in dom[n], d # n
  PROVE  p \in V /\ d \in dom[p]
<1>1. PICK e \in es : e[1] = p /\ e[2] = n
  BY DEF Preds
<1>2. p \in V /\ d \in V
  <2>1. p \in V
    BY <1>1 DEF Within
  <2>2. d \in V
    BY DominatesItself
  <2> QED
    BY <2>1, <2>2
<1>3. CASE d = root
  BY <1>2, <1>3 DEF SetsRight
<1>4. CASE d # root
  BY <1>1, <1>2, <1>4, PastFacts DEF SetsRight
<1> QED
  BY <1>2, <1>3, <1>4

\* The closest dominator of a node but the root is one, and all others are its.
ClosestIs(dom, n, i) == /\ i # n /\ i \in dom[n]
                        /\ dom[n] = {n} \cup dom[i] /\ n \notin dom[i]

LEMMA OneImmediate ==
  ASSUME NEW V, NEW es, Within(es, V), NEW root \in V, NEW dom, SetsRight(V, root, es, dom),
         NEW n \in ReachedFrom(root, es), n # root
  PROVE  \E i \in V : Immediate(dom, root, n) = {i} /\ ClosestIs(dom, n, i)
<1>1. n \in V
  BY ReachedLeast
<1>2. PICK S : S = dom[n] \ {n}
  OBVIOUS
<1>3. S \subseteq V /\ root \in S
  BY <1>1, <1>2, DominatesItself DEF SetsRight
<1>4. \A c \in S : dom[c] \subseteq V /\ c \in dom[c]
  BY <1>3, DominatesItself
<1>5. PICK c \in S : S \ {c} \subseteq dom[c]
  <2> DEFINE B == {dom[b] : b \in S}
  <2>1. B \subseteq SUBSET V /\ B # {} /\ IsFiniteSet(V)
    BY <1>3, <1>4 DEF Within
  <2>2. PICK U \in B : \A Y \in B : U \subseteq Y => U = Y
    <3> HIDE DEF B
    <3> QED
      BY <2>1, LargestSet
  <2>3. PICK c \in S : U = dom[c]
    BY <2>2
  <2>4. ASSUME NEW b \in S, b # c PROVE b \in dom[c]
    <3>1. b \in dom[n] /\ c \in dom[n]
      BY <1>2
    <3>2. b \in dom[c] \/ c \in dom[b]
      BY <3>1, DominatorsInLine
    <3>3. CASE c \in dom[b]
      <4>1. dom[c] \subseteq dom[b]
        BY <1>3, <3>3, DominatesOn
      <4>2. dom[b] = dom[c]
        BY <2>2, <2>3, <4>1
      <4> QED
        BY <1>4, <4>2
    <3> QED
      BY <3>2, <3>3
  <2> QED
    BY <2>3, <2>4
<1>6. PICK Closest : Closest = {b \in S : S \ {b} \subseteq dom[b]}
  OBVIOUS
<1>7. Closest = {c}
  <2>1. ASSUME NEW b \in Closest, b # c PROVE FALSE
    <3>1. c \in dom[b] /\ b \in dom[c] /\ c \in dom[n]
      BY <1>2, <1>5, <1>6, <2>1
    <3>2. c \in ReachedFrom(root, es)
      BY <3>1, DominatorReached
    <3> QED
      BY <3>1, <3>2, <2>1, DominatesOneWay
  <2> QED
    BY <1>5, <1>6, <2>1
<1>8. Immediate(dom, root, n) = Closest
  <2>1. ~(n = root \/ S = {}) /\ Closest # {}
    BY <1>3, <1>7
  <2>2. Immediate(dom, root, n) = Closest
    BY <1>2, <1>6, <2>1 DEF Immediate
  <2> QED
    BY <2>2
<1>9. ClosestIs(dom, n, c)
  <2>1. c # n /\ c \in dom[n] /\ n \in dom[n]
    BY <1>1, <1>2, <1>5, DominatesItself
  <2>2. dom[c] \subseteq dom[n]
    BY <1>1, <2>1, DominatesOn
  <2>3. dom[n] \subseteq {n} \cup dom[c]
    BY <1>2, <1>4, <1>5
  <2>4. n \notin dom[c]
    <3> SUFFICES ASSUME n \in dom[c] PROVE FALSE
      OBVIOUS
    <3> QED
      BY <2>1, DominatesOneWay
  <2> QED
    BY <2>1, <2>2, <2>3, <2>4 DEF ClosestIs
<1> QED
  BY <1>3, <1>5, <1>7, <1>8, <1>9

-----------------------------------------------------------------------------
(* What the sets say of ways *)

LEMMA EntityNodes ==
  /\ IsFiniteSet(Nodes) /\ 1 \in Nodes /\ NoNode \notin Nodes
  /\ \A es : es \subseteq Nodes \X Nodes => Within(es, Nodes) /\ Within(Reversed(es), Nodes)
<1>1. N \in Nat \ {0}
  BY GraphAssumption
<1>2. IsFiniteSet(Nodes) /\ 1 \in Nodes /\ NoNode \notin Nodes
  BY <1>1, FS_Interval DEF Nodes, NoNode
<1> QED
  BY <1>2 DEF Within, Reversed

LEMMA DominatorsRight ==
  ASSUME NEW V, NEW es, Within(es, V), NEW root \in V
  PROVE  SetsRight(V, root, es, Dominators(V, root, es))
BY DominatorSets DEF SetsRight

\* A node is a dominator if there is no way around it.
LEMMA DominatesAll ==
  ASSUME NEW es, Within(es, Nodes), NEW root \in Nodes, NEW dom, SetsRight(Nodes, root, es, dom),
         NEW n \in Nodes, NEW d \in Nodes
  PROVE  d \in dom[n] <=> NoWayAround(d, root, n, es)
<1>1. CASE d = root
  BY <1>1 DEF SetsRight, NoWayAround
<1>2. CASE d = n
  BY <1>2, DominatesItself DEF NoWayAround
<1>3. CASE d # root /\ d # n
  <2>1. Within(Without(d, es), Nodes)
    BY <1>3, PastFacts
  <2>2. Way(root, n, Without(d, es)) <=> n \in Past(d, root, es)
    BY <2>1, WayReached DEF Past
  <2>3. d \in dom[n] <=> n \notin Past(d, root, es)
    BY <1>3 DEF SetsRight
  <2>4. NoWayAround(d, root, n, es) <=> ~Way(root, n, Without(d, es))
    BY <1>3 DEF NoWayAround
  <2> QED
    BY <2>2, <2>3, <2>4
<1> QED
  BY <1>1, <1>2, <1>3

LEMMA RootHasNone ==
  ASSUME NEW V, NEW es, Within(es, V), NEW root \in V, NEW dom, SetsRight(V, root, es, dom)
  PROVE  Immediate(dom, root, root) = {NoNode}
<1>1. dom[root] \ {root} = {}
  BY DominatesItself
<1>2. PICK S : S = dom[root] \ {root}
  OBVIOUS
<1>3. S = {} /\ {c \in S : S \ {c} \subseteq dom[c]} = {}
  BY <1>1, <1>2
<1> QED
  BY <1>2, <1>3 DEF Immediate

LEMMA TreesRight ==
  ASSUME NEW es, Within(es, Nodes), NEW root \in Nodes
  PROVE  TreeRight(Dominators(Nodes, root, es), root, es)
<1>1. PICK dom : dom = Dominators(Nodes, root, es)
  OBVIOUS
<1>2. SetsRight(Nodes, root, es, dom)
  BY <1>1, DominatorsRight
<1>3. PICK Reach : Reach = ReachedFrom(root, es)
  OBVIOUS
<1>4. Reach \subseteq Nodes
  BY <1>3, ReachedLeast
<1>5. DOMAIN dom = Nodes /\ \A n \in Nodes : dom[n] \subseteq Nodes
  BY <1>2, DominatesItself
<1> SUFFICES ASSUME NEW n \in Reach
             PROVE  /\ dom[n] = {d \in DOMAIN dom : NoWayAround(d, root, n, es)}
                    /\ \E i \in DOMAIN dom \cup {NoNode} :
                         /\ Immediate(dom, root, n) = {i}
                         /\ IF n = root THEN i = NoNode ELSE i # n /\ dom[n] = {n} \cup dom[i]
  BY <1>1, <1>3 DEF TreeRight
<1>6. dom[n] = {d \in DOMAIN dom : NoWayAround(d, root, n, es)}
  <2>1. \A d \in Nodes : d \in dom[n] <=> NoWayAround(d, root, n, es)
    BY <1>2, <1>4, DominatesAll
  <2>2. n \in Nodes
    BY <1>4
  <2> QED
    BY <1>5, <2>1, <2>2
<1>7. CASE n = root
  <2>1. Immediate(dom, root, n) = {NoNode}
    BY <1>2, <1>7, RootHasNone
  <2> QED
    BY <1>6, <1>7, <2>1
<1>8. CASE n # root
  <2>1. PICK i \in Nodes : Immediate(dom, root, n) = {i} /\ ClosestIs(dom, n, i)
    BY <1>2, <1>3, <1>8, OneImmediate
  <2>2. i # n /\ dom[n] = {n} \cup dom[i]
    BY <2>1 DEF ClosestIs
  <2> QED
    BY <1>5, <1>6, <1>8, <2>1, <2>2
<1> QED
  BY <1>7, <1>8

\* The same ways, backwards.
LEMMA ReversedEdges ==
  ASSUME NEW V, NEW es, Within(es, V)
  PROVE  /\ Within(Reversed(es), V)
         /\ \A e \in es : <<e[2], e[1]>> \in Reversed(es)
         /\ \A e \in Reversed(es) : <<e[2], e[1]>> \in es
         /\ Reversed(Reversed(es)) = es
         /\ \A d : Without(d, Reversed(es)) = Reversed(Without(d, es))
<1>1. \A e \in es : e = <<e[1], e[2]>> /\ e[1] \in V /\ e[2] \in V
  BY DEF Within
<1>2. \A e \in es : <<e[2], e[1]>> \in Reversed(es)
  BY DEF Reversed
<1>3. \A e \in Reversed(es) : <<e[2], e[1]>> \in es /\ e = <<e[1], e[2]>>
  BY <1>1 DEF Reversed
<1>4. Reversed(es) \subseteq V \X V
  BY <1>1 DEF Reversed
<1>5. Reversed(Reversed(es)) = es
  <2>1. ASSUME NEW e \in es PROVE e \in Reversed(Reversed(es))
    <3>1. PICK f \in Reversed(es) : f = <<e[2], e[1]>>
      BY <1>2
    <3>2. e = <<f[2], f[1]>>
      BY <1>1, <3>1
    <3> QED
      BY <3>2 DEF Reversed
  <2>2. ASSUME NEW e \in Reversed(Reversed(es)) PROVE e \in es
    <3>1. PICK f \in Reversed(es) : e = <<f[2], f[1]>>
      BY DEF Reversed
    <3> QED
      BY <3>1, <1>3
  <2> QED
    BY <2>1, <2>2
<1>6. \A d : Without(d, Reversed(es)) = Reversed(Without(d, es))
  BY <1>1 DEF Without, Reversed
<1> QED
  BY <1>2, <1>3, <1>4, <1>5, <1>6 DEF Within

LEMMA ReachedBackwards ==
  ASSUME NEW V, NEW es, Within(es, V), NEW a \in V, NEW b \in V, b \in ReachedFrom(a, es)
  PROVE  a \in ReachedFrom(b, Reversed(es))
<1>1. PICK B : B = ReachedFrom(b, Reversed(es))
  OBVIOUS
<1>2. /\ Within(Reversed(es), V)
      /\ \A e \in es : <<e[2], e[1]>> \in Reversed(es)
  BY ReversedEdges
<1>3. b \in B /\ B \subseteq V /\ Stays(Reversed(es), B)
  BY <1>1, <1>2, ReachedLeast
<1>4. Stays(es, V \ B)
  <2> SUFFICES ASSUME NEW e \in es, e[1] \notin B, e[1] \in V, e[2] \in B PROVE FALSE
    BY DEF Stays, Within
  <2>1. PICK f \in Reversed(es) : f[1] = e[2] /\ f[2] = e[1]
    BY <1>2
  <2> QED
    BY <1>3, <2>1 DEF Stays
<1> SUFFICES ASSUME a \notin B PROVE FALSE
  BY <1>1
<1>5. ReachedFrom(a, es) \subseteq V \ B
  BY <1>4, ReachedLeast
<1> QED
  BY <1>3, <1>5

LEMMA ReachedBothWays ==
  ASSUME NEW V, NEW es, Within(es, V), NEW a \in V, NEW b \in V
  PROVE  b \in ReachedFrom(a, es) <=> a \in ReachedFrom(b, Reversed(es))
<1>1. Within(Reversed(es), V) /\ Reversed(Reversed(es)) = es
  BY ReversedEdges
<1>2. PICK fs : fs = Reversed(es)
  OBVIOUS
<1>3. a \in ReachedFrom(b, fs) => b \in ReachedFrom(a, Reversed(fs))
  BY <1>1, <1>2, ReachedBackwards
<1> QED
  BY <1>1, <1>2, <1>3, ReachedBackwards

LEMMA ReachedMore ==
  ASSUME NEW V, NEW es, Within(es, V), NEW fs \in SUBSET es, NEW a \in V
  PROVE  ReachedFrom(a, fs) \subseteq ReachedFrom(a, es)
<1>1. Within(fs, V)
  BY DEF Within
<1>2. PICK B : B = ReachedFrom(a, es)
  OBVIOUS
<1>3. a \in B /\ Stays(es, B)
  BY <1>2, ReachedLeast
<1>4. Stays(fs, B)
  BY <1>3 DEF Stays
<1> QED
  BY <1>1, <1>2, <1>3, <1>4, ReachedLeast

-----------------------------------------------------------------------------
(* Loops and slices *)

LEMMA LoopsAreRight ==
  ASSUME NEW es, Within(es, Nodes)
  PROVE  LoopsRight(NaturalLoops(Dominators(Nodes, 1, es), es), es)
<1>0. 1 \in Nodes
  BY EntityNodes
<1>1. PICK dom : dom = Dominators(Nodes, 1, es)
  OBVIOUS
<1>2. SetsRight(Nodes, 1, es, dom)
  BY <1>0, <1>1, DominatorsRight
<1>3. PICK loops : loops = NaturalLoops(dom, es)
  OBVIOUS
<1>4. PICK back : back = BackEdges(dom, es)
  OBVIOUS
<1>5. /\ DOMAIN loops = {e[2] : e \in back}
      /\ \A h \in DOMAIN loops : loops[h] = UNION {LoopBody(h, e[1], es) : e \in {b \in back : b[2] = h}}
  BY <1>3, <1>4 DEF NaturalLoops
<1>6. \A e \in back : e \in es /\ e[1] \in Nodes /\ e[2] \in Nodes /\ e[1] # e[2]
  BY <1>4 DEF BackEdges, Within
<1>7. ASSUME NEW h \in DOMAIN loops PROVE h \notin loops[h] /\ loops[h] # {}
  <2>1. PICK e \in back : e[2] = h
    BY <1>5
  <2>2. PICK fs : fs = {f \in es : f[1] # h}
    OBVIOUS
  <2>3. Within(fs, Nodes)
    BY <2>2 DEF Within
  <2>4. e[1] \in ReachedFrom(e[1], fs)
    BY <1>6, <2>3, ReachedLeast
  <2>5. e[1] \in LoopBody(h, e[1], es)
    BY <1>6, <2>1, <2>2, <2>4 DEF LoopBody
  <2>6. \A t : h \notin LoopBody(h, t, es)
    BY DEF LoopBody
  <2>7. e[1] \in loops[h]
    BY <1>5, <2>1, <2>5
  <2> QED
    BY <1>5, <2>6, <2>7
<1>8. DOMAIN loops = {h \in Nodes : \E t \in Preds(h, es) : t # h /\ NoWayAround(h, 1, t, es)}
  <2>1. \A e \in es : e[1] \in Nodes /\ e[2] \in Nodes
    BY DEF Within
  <2>2. \A t, h \in Nodes : h \in dom[t] <=> NoWayAround(h, 1, t, es)
    BY <1>0, <1>2, DominatesAll
  <2>3. ASSUME NEW h \in DOMAIN loops
        PROVE  h \in Nodes /\ \E t \in Preds(h, es) : t # h /\ NoWayAround(h, 1, t, es)
    <3>1. PICK e \in back : e[2] = h
      BY <1>5
    <3>2. e \in es /\ e[1] # h /\ h \in dom[e[1]]
      BY <1>4, <3>1 DEF BackEdges
    <3>3. e[1] \in Preds(h, es)
      BY <3>1, <3>2 DEF Preds
    <3> QED
      BY <2>1, <2>2, <3>1, <3>2, <3>3
  <2>4. ASSUME NEW h \in Nodes, NEW t \in Preds(h, es), t # h, NoWayAround(h, 1, t, es)
        PROVE  h \in DOMAIN loops
    <3>1. PICK e \in es : e[1] = t /\ e[2] = h
      BY DEF Preds
    <3>2. h \in dom[t]
      BY <2>1, <2>2, <2>4, <3>1
    <3>3. e \in back
      BY <1>4, <2>4, <3>1, <3>2 DEF BackEdges
    <3> QED
      BY <1>5, <3>1, <3>3
  <2> QED
    BY <2>3, <2>4
<1> QED
  BY <1>1, <1>3, <1>7, <1>8 DEF LoopsRight

LEMMA SlicesAreRight ==
  ASSUME NEW es, Within(es, Nodes), NEW cdg \in SUBSET es
  PROVE  SlicesRight(cdg, es)
<1>1. Within(Reversed(es), Nodes) /\ Reversed(cdg) \in SUBSET Reversed(es)
  BY ReversedEdges DEF Reversed
<1>2. ASSUME NEW n \in Nodes PROVE BackwardSlice(cdg, n, es) = {m \in Nodes : Way(m, n, es)}
  <2>1. PICK fs : fs = Reversed(es)
    OBVIOUS
  <2>2. PICK gs : gs = Reversed(cdg)
    OBVIOUS
  <2>3. ReachedFrom(n, gs) \subseteq ReachedFrom(n, fs) /\ ReachedFrom(n, fs) \subseteq Nodes
    BY <1>1, <2>1, <2>2, ReachedMore, ReachedLeast
  <2>4. \A m \in Nodes : Way(m, n, es) <=> n \in ReachedFrom(m, es)
    BY WayReached
  <2>5. \A m \in Nodes : n \in ReachedFrom(m, es) <=> m \in ReachedFrom(n, fs)
    BY <2>1, ReachedBothWays
  <2>6. BackwardSlice(cdg, n, es) = ReachedFrom(n, gs) \cup ReachedFrom(n, fs)
    BY <2>1, <2>2 DEF BackwardSlice
  <2> QED
    BY <2>3, <2>4, <2>5, <2>6
<1>3. ASSUME NEW n \in Nodes PROVE ForwardSlice(cdg, n, es) = {m \in Nodes : Way(n, m, es)}
  <2>1. ReachedFrom(n, cdg) \subseteq ReachedFrom(n, es) /\ ReachedFrom(n, es) \subseteq Nodes
    BY ReachedMore, ReachedLeast
  <2>2. \A m \in Nodes : Way(n, m, es) <=> m \in ReachedFrom(n, es)
    BY WayReached
  <2>3. ForwardSlice(cdg, n, es) = ReachedFrom(n, cdg) \cup ReachedFrom(n, es)
    BY DEF ForwardSlice
  <2> QED
    BY <2>1, <2>2, <2>3
<1> QED
  BY <1>2, <1>3 DEF SlicesRight

-----------------------------------------------------------------------------
(* Post-dominators *)

LEMMA NoWayBack ==
  ASSUME NEW es, Within(es, Nodes), NEW a \in Nodes, NEW b \in Nodes, NEW d
  PROVE  NoWayAround(d, a, b, Reversed(es)) <=> NoWayAround(d, b, a, es)
<1>1. PICK hs : hs = Without(d, es)
  OBVIOUS
<1>2. Within(hs, Nodes)
  BY <1>1 DEF Within, Without
<1>3. Within(Reversed(hs), Nodes) /\ Without(d, Reversed(es)) = Reversed(hs)
  BY <1>1, <1>2, ReversedEdges
<1>4. Way(a, b, Reversed(hs)) <=> b \in ReachedFrom(a, Reversed(hs))
  BY <1>3, WayReached
<1>5. Way(b, a, hs) <=> a \in ReachedFrom(b, hs)
  BY <1>2, WayReached
<1>6. a \in ReachedFrom(b, hs) <=> b \in ReachedFrom(a, Reversed(hs))
  BY <1>2, ReachedBothWays
<1> QED
  BY <1>1, <1>3, <1>4, <1>5, <1>6 DEF NoWayAround

\* What AutoExitRight says of one node.
PostRight(es, post, ipdom, n) ==
  /\ post[n] = {d \in Nodes : \A x \in Exits(es) : NoWayAround(d, n, x, es)}
  /\ \E i \in Nodes \cup {NoNode} :
       /\ ipdom[n] = {i}
       /\ post[n] \ {n} = IF i = NoNode THEN {} ELSE post[i]

LEMMA OneExitRight ==
  ASSUME NEW es, Within(es, Nodes), NEW exit, Exits(es) = {exit}, NEW post, post = PostDominators(exit, es),
         NEW ipdom, ipdom = [n \in Nodes |-> ImmediatePost(post, exit, n)],
         NEW n \in Nodes, \E x \in Exits(es) : Way(n, x, es)
  PROVE  PostRight(es, post, ipdom, n)
<1>1. exit \in Nodes
  BY DEF Exits
<1>2. PICK fs : fs = Reversed(es)
  OBVIOUS
<1>3. Within(fs, Nodes)
  BY <1>2, ReversedEdges
<1>4. SetsRight(Nodes, exit, fs, post)
  BY <1>1, <1>2, <1>3, DominatorsRight DEF PostDominators
<1>5. n \in ReachedFrom(exit, fs)
  <2>1. Way(n, exit, es)
    OBVIOUS
  <2> QED
    BY <1>1, <1>2, <2>1, WayReached, ReachedBothWays
<1>6. post[n] = {d \in Nodes : \A x \in Exits(es) : NoWayAround(d, n, x, es)}
  <2>1. \A d \in Nodes : d \in post[n] <=> NoWayAround(d, exit, n, fs)
    BY <1>1, <1>3, <1>4, DominatesAll
  <2>2. \A d \in Nodes : NoWayAround(d, exit, n, fs) <=> NoWayAround(d, n, exit, es)
    BY <1>1, <1>2, NoWayBack
  <2>3. post[n] \subseteq Nodes
    BY <1>1, <1>3, <1>4, DominatesItself
  <2> QED
    BY <2>1, <2>2, <2>3
<1>7. ipdom[n] = Immediate(post, exit, n)
  BY DEF ImmediatePost
<1>8. CASE n = exit
  <2>1. ipdom[n] = {NoNode} /\ post[n] = {n}
    BY <1>1, <1>3, <1>4, <1>7, <1>8, RootHasNone, DominatesItself
  <2> QED
    BY <1>6, <2>1 DEF PostRight
<1>9. CASE n # exit
  <2>1. PICK i \in Nodes : ipdom[n] = {i} /\ ClosestIs(post, n, i)
    BY <1>1, <1>3, <1>4, <1>5, <1>7, <1>9, OneImmediate
  <2>2. post[n] \ {n} = post[i] /\ i # NoNode
    BY <2>1, EntityNodes DEF ClosestIs
  <2> QED
    BY <1>6, <2>1, <2>2 DEF PostRight
<1> QED
  BY <1>8, <1>9

WithVirtual == Nodes \cup {VirtualExit}

LEMMA VirtualEdges ==
  ASSUME NEW es, Within(es, Nodes), NEW gs, gs = Reversed(ToVirtualExit(es))
  PROVE  /\ VirtualExit \notin Nodes /\ VirtualExit # NoNode /\ Within(gs, WithVirtual)
         /\ \A x \in Exits(es) : x \in Nodes /\ <<VirtualExit, x>> \in gs
         /\ \A e \in gs : \/ e[1] = VirtualExit /\ e[2] \in Exits(es)
                          \/ <<e[2], e[1]>> \in es
         /\ Reversed(es) \subseteq gs
<1>1. VirtualExit \notin Nodes /\ VirtualExit # NoNode
  BY GraphAssumption DEF VirtualExit, Nodes, NoNode
<1>2. \A e \in es : e = <<e[1], e[2]>> /\ e[1] \in Nodes /\ e[2] \in Nodes
  BY DEF Within
<1>3. IsFiniteSet(WithVirtual)
  BY FS_AddElement DEF WithVirtual, Within
<1>4. \A x \in Exits(es) : x \in Nodes
  BY DEF Exits
<1>5. \A f \in ToVirtualExit(es) : f \in es \/ \E x \in Exits(es) : f = <<x, VirtualExit>>
  BY DEF ToVirtualExit
<1>6. \A e \in gs : \E f \in ToVirtualExit(es) : e = <<f[2], f[1]>>
  BY DEF Reversed
<1>7. ASSUME NEW e \in gs
      PROVE  /\ e \in WithVirtual \X WithVirtual
             /\ (e[1] = VirtualExit /\ e[2] \in Exits(es)) \/ <<e[2], e[1]>> \in es
  <2>1. PICK f \in ToVirtualExit(es) : e = <<f[2], f[1]>>
    BY <1>6
  <2>2. CASE f \in es
    <3>1. e[1] = f[2] /\ e[2] = f[1] /\ f = <<f[1], f[2]>> /\ f[1] \in Nodes /\ f[2] \in Nodes
      BY <2>1, <2>2, <1>2
    <3>2. <<e[2], e[1]>> \in es
      BY <2>2, <3>1
    <3>3. e \in WithVirtual \X WithVirtual
      BY <2>1, <3>1 DEF WithVirtual
    <3> QED
      BY <3>2, <3>3
  <2>3. CASE \E x \in Exits(es) : f = <<x, VirtualExit>>
    BY <2>1, <2>3, <1>4 DEF WithVirtual
  <2> QED
    BY <1>5, <2>2, <2>3
<1>8. ASSUME NEW x \in Exits(es) PROVE <<VirtualExit, x>> \in gs
  <2>1. PICK f \in ToVirtualExit(es) : f = <<x, VirtualExit>>
    BY DEF ToVirtualExit
  <2>2. <<f[2], f[1]>> = <<VirtualExit, x>>
    BY <2>1
  <2>3. <<f[2], f[1]>> \in gs
    BY DEF Reversed
  <2> QED
    BY <2>2, <2>3
<1>9. Reversed(es) \subseteq gs
  BY DEF Reversed, ToVirtualExit
<1>10. gs \subseteq WithVirtual \X WithVirtual
  BY <1>7
<1> QED
  BY <1>1, <1>3, <1>4, <1>7, <1>8, <1>9, <1>10 DEF Within

\* Past d the virtual exit is reached backwards from the nodes with a way to an
\* exit that avoids d.
LEMMA PastVirtual ==
  ASSUME NEW es, Within(es, Nodes), NEW gs, gs = Reversed(ToVirtualExit(es)),
         NEW d \in Nodes, NEW n \in Nodes
  PROVE  n \notin Past(d, VirtualExit, gs) <=> \A x \in Exits(es) : NoWayAround(d, n, x, es)
<1>1. /\ VirtualExit \notin Nodes /\ Within(gs, WithVirtual)
      /\ \A x \in Exits(es) : x \in Nodes /\ <<VirtualExit, x>> \in gs
      /\ \A e \in gs : \/ e[1] = VirtualExit /\ e[2] \in Exits(es)
                       \/ <<e[2], e[1]>> \in es
      /\ Reversed(es) \subseteq gs
  BY VirtualEdges
<1>2. d \in WithVirtual \ {VirtualExit} /\ VirtualExit \in WithVirtual
  BY <1>1 DEF WithVirtual
<1>3. PICK P : P = Past(d, VirtualExit, gs)
  OBVIOUS
<1>4. /\ VirtualExit \in P /\ d \notin P
      /\ \A e \in gs : e[1] \in P /\ e[2] # d => e[2] \in P
  BY <1>1, <1>2, <1>3, PastFacts
<1>5. PICK hs : hs = Without(d, es)
  OBVIOUS
<1>6. Within(hs, Nodes)
  BY <1>5 DEF Within, Without
<1>7. PICK ks : ks = Reversed(hs)
  OBVIOUS
<1>8. Within(ks, Nodes) /\ (\A e \in ks : <<e[2], e[1]>> \in hs) /\ (\A e \in hs : <<e[2], e[1]>> \in ks)
  BY <1>6, <1>7, ReversedEdges
<1>9. \A x \in Nodes : Way(n, x, hs) <=> n \in ReachedFrom(x, ks)
  BY <1>6, <1>7, WayReached, ReachedBothWays
<1>10. ASSUME NEW x \in Exits(es), ~NoWayAround(d, n, x, es) PROVE n \in P
  <2>1. x # d /\ n # d /\ Way(n, x, hs) /\ x \in Nodes
    BY <1>1, <1>5, <1>10 DEF NoWayAround
  <2>2. x \in P
    <3>1. PICK e \in gs : e = <<VirtualExit, x>>
      BY <1>1
    <3>2. e[1] = VirtualExit /\ e[2] = x
      BY <3>1
    <3> QED
      BY <1>4, <2>1, <3>2
  <2>3. Stays(ks, P)
    <3> SUFFICES ASSUME NEW e \in ks, e[1] \in P PROVE e[2] \in P
      BY DEF Stays
    <3>1. e \in gs /\ e[2] # d
      <4>1. PICK f \in hs : f = <<e[2], e[1]>>
        BY <1>8
      <4>2. f \in es /\ f[1] # d
        BY <1>5 DEF Without
      <4>3. e \in Reversed(es)
        BY <1>5, <1>7 DEF Reversed, Without
      <4> QED
        BY <1>1, <4>1, <4>2, <4>3
    <3> QED
      BY <1>4, <3>1
  <2>4. ReachedFrom(x, ks) \subseteq P
    BY <1>8, <2>1, <2>2, <2>3, ReachedLeast
  <2> QED
    BY <1>9, <2>1, <2>4
<1>11. ASSUME n \in P PROVE \E x \in Exits(es) : ~NoWayAround(d, n, x, es)
  <2> DEFINE T == {VirtualExit} \cup {m \in Nodes : \E x \in Exits(es) : x # d /\ m \in ReachedFrom(x, ks)}
  <2>1. Stays(Without(d, gs), T)
    <3> SUFFICES ASSUME NEW e \in Without(d, gs), e[1] \in T PROVE e[2] \in T
      BY DEF Stays
    <3>1. e \in gs /\ e[1] # d /\ e[2] # d
      BY DEF Without
    <3>2. CASE e[1] = VirtualExit /\ e[2] \in Exits(es)
      <4>1. e[2] \in Nodes
        BY <1>1, <3>2
      <4>2. e[2] \in ReachedFrom(e[2], ks)
        BY <1>8, <4>1, ReachedLeast
      <4> QED
        BY <3>1, <3>2, <4>1, <4>2
    <3>3. CASE <<e[2], e[1]>> \in es
      <4>1. PICK f \in es : f = <<e[2], e[1]>>
        BY <3>3
      <4>2. f \in Nodes \X Nodes /\ f[1] = e[2] /\ f[2] = e[1]
        BY <4>1 DEF Within
      <4>3. e[1] \in Nodes /\ e[2] \in Nodes /\ f \in hs
        BY <1>5, <3>1, <4>2 DEF Without
      <4>4. PICK x \in Exits(es) : x # d /\ e[1] \in ReachedFrom(x, ks)
        BY <1>1, <4>3
      <4>5. PICK k \in ks : k[1] = e[1] /\ k[2] = e[2]
        BY <1>8, <4>2, <4>3
      <4>6. x \in Nodes
        BY <1>1
      <4>7. e[2] \in ReachedFrom(x, ks)
        BY <1>8, <4>4, <4>5, <4>6, ReachedLeast DEF Stays
      <4> QED
        BY <4>3, <4>4, <4>7
    <3> QED
      BY <1>1, <3>1, <3>2, <3>3
  <2>2. VirtualExit \in T
    OBVIOUS
  <2>3. P \subseteq T
    <3>1. Within(Without(d, gs), WithVirtual)
      BY <1>1, <1>2, PastFacts
    <3> HIDE DEF T
    <3> QED
      BY <1>2, <1>3, <2>1, <2>2, <3>1, ReachedLeast DEF Past
  <2>4. PICK x \in Exits(es) : x # d /\ n \in ReachedFrom(x, ks)
    BY <1>1, <1>11, <2>3
  <2>5. x \in Nodes /\ n # d /\ Way(n, x, hs)
    BY <1>1, <1>4, <1>9, <1>11, <2>4
  <2>6. ~NoWayAround(d, n, x, es)
    BY <1>5, <2>4, <2>5 DEF NoWayAround
  <2> QED
    BY <2>6
<1> QED
  BY <1>3, <1>10, <1>11

LEMMA ManyExitsRight ==
  ASSUME NEW es, Within(es, Nodes), NEW full, full = WithVirtualExit(es),
         NEW post, post = [n \in Nodes |-> full[n] \ {VirtualExit}],
         NEW ipdom, ipdom = [n \in Nodes |-> ImmediateBeforeVirtual(full, n)],
         NEW n \in Nodes, \E x \in Exits(es) : Way(n, x, es)
  PROVE  PostRight(es, post, ipdom, n)
<1>1. PICK gs : gs = Reversed(ToVirtualExit(es))
  OBVIOUS
<1>2. /\ VirtualExit \notin Nodes /\ VirtualExit # NoNode /\ Within(gs, WithVirtual)
      /\ \A x \in Exits(es) : x \in Nodes /\ <<VirtualExit, x>> \in gs
      /\ Reversed(es) \subseteq gs
  BY <1>1, VirtualEdges
<1>3. VirtualExit \in WithVirtual /\ n \in WithVirtual /\ n # VirtualExit
  BY <1>2 DEF WithVirtual
<1>4. full = Dominators(WithVirtual, VirtualExit, gs)
  BY <1>1 DEF WithVirtualExit, WithVirtual
<1>5. SetsRight(WithVirtual, VirtualExit, gs, full)
  BY <1>2, <1>3, <1>4, DominatorsRight
<1>6. \A m \in WithVirtual : full[m] \subseteq WithVirtual
  BY <1>2, <1>3, <1>5, DominatesItself
<1>7. post[n] = {d \in Nodes : \A x \in Exits(es) : NoWayAround(d, n, x, es)}
  <2>1. \A d \in Nodes : d \in full[n] <=> n \notin Past(d, VirtualExit, gs)
    BY <1>2, <1>3, <1>5 DEF SetsRight, WithVirtual
  <2>2. \A d \in Nodes : n \notin Past(d, VirtualExit, gs) <=> \A x \in Exits(es) : NoWayAround(d, n, x, es)
    BY <1>1, PastVirtual
  <2>3. post[n] \subseteq Nodes /\ \A d \in Nodes : d \in post[n] <=> d \in full[n]
    BY <1>2, <1>3, <1>6 DEF WithVirtual
  <2> QED
    BY <2>1, <2>2, <2>3
<1>8. n \in ReachedFrom(VirtualExit, gs)
  <2>1. PICK x \in Exits(es) : Way(n, x, es)
    OBVIOUS
  <2>2. PICK Reach : Reach = ReachedFrom(VirtualExit, gs)
    OBVIOUS
  <2>3. VirtualExit \in Reach /\ Stays(gs, Reach)
    BY <1>2, <1>3, <2>2, ReachedLeast
  <2>4. x \in Reach
    <3>1. PICK e \in gs : e = <<VirtualExit, x>>
      BY <1>2
    <3>2. e[1] = VirtualExit /\ e[2] = x
      BY <3>1
    <3> QED
      BY <2>3, <3>2 DEF Stays
  <2>5. Within(Reversed(es), Nodes) /\ Stays(Reversed(es), Reach)
    BY <1>2, <2>3, ReversedEdges DEF Stays
  <2>6. n \in ReachedFrom(x, Reversed(es))
    BY <1>2, <2>1, WayReached, ReachedBothWays
  <2>7. ReachedFrom(x, Reversed(es)) \subseteq Reach
    BY <1>2, <2>4, <2>5, ReachedLeast
  <2> QED
    BY <2>2, <2>6, <2>7
<1>9. PICK c \in WithVirtual : Immediate(full, VirtualExit, n) = {c} /\ ClosestIs(full, n, c)
  BY <1>2, <1>3, <1>5, <1>8, OneImmediate
<1>10. PICK i : i = IF c = VirtualExit THEN NoNode ELSE c
  OBVIOUS
<1>11. ipdom[n] = {i}
  BY <1>9, <1>10 DEF ImmediateBeforeVirtual
<1>12. i \in Nodes \cup {NoNode}
  BY <1>10 DEF WithVirtual
<1>13. post[n] \ {n} = IF i = NoNode THEN {} ELSE post[i]
  <2>1. full[n] \ {n} = full[c]
    BY <1>9 DEF ClosestIs
  <2>2. CASE c = VirtualExit
    <3>1. full[c] = {VirtualExit}
      BY <1>2, <1>3, <1>5, <2>2, DominatesItself
    <3> QED
      BY <1>10, <2>1, <2>2, <3>1
  <2>3. CASE c # VirtualExit
    <3>1. c \in Nodes /\ i = c /\ c # NoNode
      BY <1>10, <2>3, EntityNodes DEF WithVirtual
    <3>2. post[c] = full[c] \ {VirtualExit} /\ post[n] = full[n] \ {VirtualExit}
      BY <3>1
    <3> QED
      BY <2>1, <3>1, <3>2
  <2> QED
    BY <2>2, <2>3
<1> QED
  BY <1>7, <1>11, <1>12, <1>13 DEF PostRight

LEMMA ExitsAreRight ==
  ASSUME NEW es, Within(es, Nodes)
  PROVE  AutoExitRight(AutoExit(es), es)
<1>1. PICK auto : auto = AutoExit(es)
  OBVIOUS
<1> SUFFICES ASSUME NEW n \in Nodes, \E x \in Exits(es) : Way(n, x, es)
             PROVE  PostRight(es, auto.post, auto.ipdom, n)
  BY <1>1 DEF AutoExitRight, PostRight
<1>2. CASE Cardinality(Exits(es)) = 1
  <2>1. Exits(es) \in SUBSET Nodes /\ IsFiniteSet(Nodes)
    BY DEF Exits, Within
  <2>2. IsFiniteSet(Exits(es))
    BY <2>1, FS_Subset
  <2>3. PICK x : Exits(es) = {x}
    BY <1>2, <2>2, FS_Singleton
  <2>4. PICK exit : exit = CHOOSE x0 \in Exits(es) : TRUE
    OBVIOUS
  <2>5. Exits(es) = {exit}
    BY <2>3, <2>4
  <2>6. PICK post : post = PostDominators(exit, es)
    OBVIOUS
  <2>7. PICK ipdom : ipdom = [m \in Nodes |-> ImmediatePost(post, exit, m)]
    OBVIOUS
  <2>8. auto = [post |-> post, ipdom |-> ipdom]
    BY <1>1, <1>2, <2>4, <2>6, <2>7 DEF AutoExit
  <2>9. PostRight(es, post, ipdom, n)
    BY <2>5, <2>6, <2>7, OneExitRight
  <2> QED
    BY <2>8, <2>9
<1>3. CASE Cardinality(Exits(es)) # 1
  <2>1. PICK full : full = WithVirtualExit(es)
    OBVIOUS
  <2>2. PICK post : post = [m \in Nodes |-> full[m] \ {VirtualExit}]
    OBVIOUS
  <2>3. PICK ipdom : ipdom = [m \in Nodes |-> ImmediateBeforeVirtual(full, m)]
    OBVIOUS
  <2>4. auto = [post |-> post, ipdom |-> ipdom]
    BY <1>1, <1>3, <2>1, <2>2, <2>3 DEF AutoExit
  <2>5. PostRight(es, post, ipdom, n)
    BY <2>1, <2>2, <2>3, ManyExitsRight
  <2> QED
    BY <2>4, <2>5
<1> QED
  BY <1>2, <1>3


-----------------------------------------------------------------------------
(* Dominance frontiers *)

\* idom is the tree of closest dominators, as far as nodes are reached.
TreeOf(idom, dom, es) ==
  /\ DOMAIN idom = Nodes /\ idom[1] = NoNode
  /\ \A n \in ReachedFrom(1, es) \ {1} : idom[n] \in Nodes /\ ClosestIs(dom, n, idom[n])

\* Where a runner goes from r.
Upwards(idom, stops) == [r \in DOMAIN idom |-> {idom[r]} \ (stops \cup {NoNode})]

LEMMA UpwardsInward ==
  ASSUME NEW idom, DOMAIN idom = Nodes, \A n \in Nodes : idom[n] \in Nodes \cup {NoNode},
         NEW stops, NEW from \in SUBSET Nodes, NEW been, been = Spread(Upwards(idom, stops), from)
  PROVE  /\ from \subseteq been /\ been \subseteq Nodes
         /\ \A r \in been : idom[r] \notin stops \cup {NoNode} => idom[r] \in been
         /\ \A T \in SUBSET Nodes :
              from \subseteq T /\ (\A r \in T : idom[r] \notin stops \cup {NoNode} => idom[r] \in T)
              => been \subseteq T
<1>1. PICK up : up = Upwards(idom, stops)
  OBVIOUS
<1>2. DOMAIN up = Nodes /\ \A r \in Nodes : up[r] = {idom[r]} \ (stops \cup {NoNode})
  BY <1>1 DEF Upwards
<1>3. \A r \in Nodes : up[r] \subseteq Nodes
  BY <1>2
<1>4. Inward(up)
  BY <1>2, <1>3, EntityNodes DEF Inward
<1>5. been = Around(up, from)
  BY <1>1, <1>2, <1>4, SpreadAround
<1>6. from \subseteq been /\ been \in SUBSET Nodes /\ ClosedIn(up, been)
  BY <1>2, <1>4, <1>5, AroundClosed
<1>7. \A r \in been : idom[r] \notin stops \cup {NoNode} => idom[r] \in been
  BY <1>2, <1>6 DEF ClosedIn
<1>8. ASSUME NEW T \in SUBSET Nodes, from \subseteq T,
             \A r \in T : idom[r] \notin stops \cup {NoNode} => idom[r] \in T
      PROVE  been \subseteq T
  <2>1. ClosedIn(up, T)
    BY <1>2, <1>8 DEF ClosedIn
  <2> QED
    BY <1>2, <1>5, <1>8, <2>1 DEF Around
<1> QED
  BY <1>6, <1>7, <1>8

\* Up the tree the sets of dominators shrink, so nobody walks up for ever.
LEMMA NoEndlessWalk ==
  ASSUME NEW es, Within(es, Nodes), NEW dom, SetsRight(Nodes, 1, es, dom),
         NEW idom, TreeOf(idom, dom, es),
         NEW S \in SUBSET ReachedFrom(1, es), \A r \in S : r # 1 => idom[r] \in S
  PROVE  S # {} => 1 \in S
<1> SUFFICES ASSUME S # {}, 1 \notin S PROVE FALSE
  OBVIOUS
<1>1. 1 \in Nodes /\ IsFiniteSet(Nodes)
  BY EntityNodes
<1>2. S \subseteq Nodes
  BY <1>1, ReachedLeast
<1>3. \A r \in S : dom[r] \subseteq Nodes /\ IsFiniteSet(dom[r]) /\ Cardinality(dom[r]) \in Nat
  <2>1. \A r \in S : dom[r] \subseteq Nodes
    BY <1>1, <1>2, DominatesItself
  <2> QED
    BY <1>1, <2>1, FS_Subset, FS_CardinalityType
<1> DEFINE T == {Cardinality(dom[r]) : r \in S}
<1>4. T \subseteq Nat /\ T # {}
  BY <1>3
<1>5. PICK k \in T : \A y \in T : k <= y
  <2> HIDE DEF T
  <2> QED
    BY <1>4, LeastNatural
<1>6. PICK r \in S : k = Cardinality(dom[r])
  BY <1>5
<1>7. PICK i : i = idom[r]
  OBVIOUS
<1>8. i \in S /\ ClosestIs(dom, r, i)
  BY <1>6, <1>7 DEF TreeOf
<1>9. dom[i] \subseteq dom[r] /\ dom[i] # dom[r]
  BY <1>8 DEF ClosestIs
<1>10. Cardinality(dom[i]) < Cardinality(dom[r])
  BY <1>3, <1>6, <1>8, <1>9, FS_Subset
<1>11. Cardinality(dom[i]) \in T
  BY <1>8
<1> QED
  BY <1>3, <1>5, <1>6, <1>8, <1>10, <1>11

\* Walks up the tree end when all nodes but one are reached.
LEMMA RunnersStop ==
  ASSUME NEW es, Within(es, Nodes), NEW dom, SetsRight(Nodes, 1, es, dom),
         NEW idom, TreeOf(idom, dom, es),
         NEW u, Nodes \ ReachedFrom(1, es) \subseteq {u},
         \A n \in Nodes \ ReachedFrom(1, es) : idom[n] \in (Nodes \ {n}) \cup {NoNode}
  PROVE  FrontiersEnd(idom, es)
<1>1. PICK Reach : Reach = ReachedFrom(1, es)
  OBVIOUS
<1>2. 1 \in Reach /\ Reach \subseteq Nodes /\ 1 \in Nodes
  BY <1>1, EntityNodes, ReachedLeast
<1>3. DOMAIN idom = Nodes /\ \A n \in Nodes : idom[n] \in Nodes \cup {NoNode}
  BY <1>1 DEF TreeOf
<1> SUFFICES ASSUME NEW n \in Nodes, NEW p \in Preds(n, es), Endless \in Climb(p, n, idom)
             PROVE  FALSE
  BY DEF FrontiersEnd, Walks
<1>4. PICK stops : stops = Stops(n, idom)
  OBVIOUS
<1>5. PICK been : been = Spread(Upwards(idom, stops), {p} \ stops)
  OBVIOUS
<1>6. p \in Nodes
  BY DEF Preds, Within
<1>7. been \subseteq Nodes /\ \A r \in been : idom[r] \notin stops \cup {NoNode} => idom[r] \in been
  <2>1. {p} \ stops \in SUBSET Nodes
    BY <1>6
  <2> QED
    BY <1>3, <1>5, <2>1, UpwardsInward
<1>8. been # {} /\ \A r \in been : Upwards(idom, stops)[r] # {}
  <2>1. Endless \notin been
    BY <1>7, GraphAssumption DEF Nodes, Endless
  <2>2. Climb(p, n, idom) = been \cup (IF been # {} /\ \A r \in been : Upwards(idom, stops)[r] # {}
                                       THEN {Endless} ELSE {})
    BY <1>4, <1>5 DEF Climb, Upwards
  <2> QED
    BY <2>1, <2>2
<1>9. \A r \in been : idom[r] \in been /\ idom[r] # NoNode
  <2>1. \A r \in been : Upwards(idom, stops)[r] = {idom[r]} \ (stops \cup {NoNode})
    BY <1>3, <1>7 DEF Upwards
  <2> QED
    BY <1>7, <1>8, <2>1
<1>10. PICK S : S = been \cap Reach
  OBVIOUS
<1>11. \A r \in S : r # 1 => idom[r] \in S
  <2>1. ASSUME NEW r \in S, r # 1 PROVE idom[r] \in Reach
    <3>1. ClosestIs(dom, r, idom[r])
      BY <1>1, <1>10, <2>1 DEF TreeOf
    <3>2. idom[r] \in dom[r]
      BY <3>1 DEF ClosestIs
    <3> QED
      BY <1>1, <1>2, <1>10, <3>2, DominatorReached
  <2> QED
    BY <1>9, <1>10, <2>1
<1>12. S # {}
  <2>1. PICK r \in been : TRUE
    BY <1>8
  <2>2. CASE r \in Reach
    BY <1>10, <2>2
  <2>3. CASE r \notin Reach
    <3>1. idom[r] \in Nodes \ {r}
      BY <1>1, <1>7, <1>9, <2>3
    <3>2. idom[r] \in Reach
      BY <1>1, <1>7, <2>3, <3>1
    <3> QED
      BY <1>9, <1>10, <3>2
  <2> QED
    BY <2>2, <2>3
<1>13. 1 \in S
  BY <1>1, <1>2, <1>10, <1>11, <1>12, NoEndlessWalk
<1> QED
  BY <1>9, <1>10, <1>13 DEF TreeOf

\* A runner from p is at the dominators of p that do not dominate where it stops.
LEMMA ClimbsThrough ==
  ASSUME NEW es, Within(es, Nodes), NEW dom, SetsRight(Nodes, 1, es, dom),
         NEW idom, TreeOf(idom, dom, es), Nodes \subseteq ReachedFrom(1, es),
         NEW p \in Nodes, NEW stops \in SUBSET dom[p]
  PROVE  Spread(Upwards(idom, stops), {p} \ stops) = {x \in dom[p] : \A s \in stops : x \notin dom[s]}
<1>1. PICK been : been = Spread(Upwards(idom, stops), {p} \ stops)
  OBVIOUS
<1>2. PICK Z : Z = {x \in dom[p] : \A s \in stops : x \notin dom[s]}
  OBVIOUS
<1>3. 1 \in Nodes /\ NoNode \notin Nodes
  BY EntityNodes
<1>4. ReachedFrom(1, es) = Nodes
  BY <1>3, ReachedLeast
<1>5. DOMAIN idom = Nodes /\ \A n \in Nodes : idom[n] \in Nodes \cup {NoNode}
  BY <1>4 DEF TreeOf
<1>6. \A n \in Nodes : n \in dom[n] /\ dom[n] \subseteq Nodes
  BY <1>3, DominatesItself
<1>7. /\ {p} \ stops \subseteq been /\ been \subseteq Nodes
      /\ \A r \in been : idom[r] \notin stops \cup {NoNode} => idom[r] \in been
      /\ \A T \in SUBSET Nodes :
           {p} \ stops \subseteq T /\ (\A r \in T : idom[r] \notin stops \cup {NoNode} => idom[r] \in T)
           => been \subseteq T
  <2>1. {p} \ stops \in SUBSET Nodes
    OBVIOUS
  <2> QED
    BY <1>1, <1>5, <2>1, UpwardsInward
<1>8. Z \in SUBSET Nodes
  BY <1>2, <1>6
<1>9. {p} \ stops \subseteq Z
  <2>1. ASSUME p \notin stops, NEW s \in stops, p \in dom[s] PROVE FALSE
    BY <1>3, <1>4, <2>1, DominatesOneWay
  <2> QED
    BY <1>2, <1>6, <2>1
<1>10. ASSUME NEW x \in Z, NEW i, i = idom[x], i \notin stops \cup {NoNode} PROVE i \in Z
  <2>1. x \in Nodes /\ x # 1
    BY <1>8, <1>10 DEF TreeOf
  <2>2. ClosestIs(dom, x, i)
    BY <1>4, <1>10, <2>1 DEF TreeOf
  <2>3. x \in dom[p] /\ i \in dom[x] /\ dom[x] = {x} \cup dom[i]
    BY <1>2, <2>2 DEF ClosestIs
  <2>4. i \in dom[p]
    <3>1. dom[x] \subseteq dom[p]
      BY <1>3, <2>3, DominatesOn
    <3> QED
      BY <2>3, <3>1
  <2>5. ASSUME NEW s \in stops, i \in dom[s] PROVE FALSE
    <3>1. x \notin dom[s] /\ s \in dom[p]
      BY <1>2
    <3>2. s \in dom[x]
      BY <1>3, <1>4, <2>3, <3>1, DominatorsInLine
    <3>3. s # x
      BY <1>6, <3>1
    <3>4. s \in dom[i]
      BY <2>3, <3>2, <3>3
    <3>5. i = s
      <4>1. s \in ReachedFrom(1, es)
        BY <1>4, <1>6, <3>1
      <4> QED
        BY <1>3, <2>5, <3>4, <4>1, DominatesOneWay
    <3> QED
      BY <1>10, <3>5
  <2> QED
    BY <1>2, <2>4, <2>5
<1>11. been \subseteq Z
  BY <1>7, <1>8, <1>9, <1>10
<1>12. ASSUME NEW x \in Z, x \notin been PROVE FALSE
  <2>1. x \in dom[p] /\ \A s \in stops : x \notin dom[s]
    BY <1>2
  <2>2. p \in been
    BY <1>7, <2>1
  <2>3. PICK S : S = {c \in been : x \in dom[c]}
    OBVIOUS
  <2>4. ASSUME NEW c \in S, c # 1 PROVE idom[c] \in S
    <3>1. PICK i : i = idom[c]
      OBVIOUS
    <3>2. c \in Nodes /\ c \in been /\ x \in dom[c] /\ c # x
      BY <1>7, <1>12, <2>3
    <3>3. i \in Nodes /\ ClosestIs(dom, c, i)
      BY <1>4, <2>4, <3>1, <3>2 DEF TreeOf
    <3>4. x \in dom[i]
      BY <3>2, <3>3 DEF ClosestIs
    <3>5. i \notin stops \cup {NoNode}
      BY <1>3, <2>1, <3>3, <3>4
    <3>6. i \in been
      BY <1>7, <3>1, <3>2, <3>5
    <3> QED
      BY <2>3, <3>1, <3>4, <3>6
  <2>5. S \in SUBSET ReachedFrom(1, es) /\ S # {}
    BY <1>4, <1>7, <2>1, <2>2, <2>3
  <2>6. 1 \in S
    BY <2>4, <2>5, NoEndlessWalk
  <2>7. x \in dom[1] /\ dom[1] = {1} /\ 1 \in been
    BY <1>3, <2>3, <2>6, DominatesItself
  <2> QED
    BY <1>12, <2>7
<1> QED
  BY <1>1, <1>2, <1>11, <1>12

\* Who is at x on the way up from a predecessor of n.
LEMMA WalksPast ==
  ASSUME NEW es, Within(es, Nodes), NEW dom, SetsRight(Nodes, 1, es, dom),
         NEW idom, TreeOf(idom, dom, es), Nodes \subseteq ReachedFrom(1, es),
         NEW n \in Nodes, NEW p \in Preds(n, es), NEW x \in Nodes
  PROVE  x \in Climb(p, n, idom) <=> x \in dom[p] /\ (x = n \/ x \notin dom[n])
<1>1. 1 \in Nodes /\ NoNode \notin Nodes
  BY EntityNodes
<1>2. ReachedFrom(1, es) = Nodes
  BY <1>1, ReachedLeast
<1>3. p \in Nodes
  BY DEF Preds, Within
<1>4. \A m \in Nodes : m \in dom[m] /\ dom[m] \subseteq Nodes
  BY <1>1, DominatesItself
<1>5. PICK stops : stops = Stops(n, idom)
  OBVIOUS
<1>6. stops \subseteq dom[p] /\ ((\A s \in stops : x \notin dom[s]) <=> x = n \/ x \notin dom[n])
  <2>1. CASE n = 1
    <3>1. idom[n] = NoNode /\ \A r \in DOMAIN idom : idom[r] = NoNode => r = n
      BY <1>1, <1>2, <2>1 DEF TreeOf
    <3>2. stops = {}
      BY <1>5, <3>1 DEF Stops
    <3>3. dom[n] = {n}
      BY <1>1, <2>1, DominatesItself
    <3> QED
      BY <3>2, <3>3
  <2>2. CASE n # 1
    <3>1. PICK i : i = idom[n]
      OBVIOUS
    <3>2. i \in Nodes /\ ClosestIs(dom, n, i)
      BY <1>2, <2>2, <3>1 DEF TreeOf
    <3>3. i # n /\ i \in dom[n] /\ dom[n] = {n} \cup dom[i] /\ n \notin dom[i]
      BY <3>2 DEF ClosestIs
    <3>4. stops = {i}
      BY <1>1, <1>5, <3>1, <3>2 DEF Stops
    <3>5. i \in dom[p]
      BY <1>1, <3>3, DominatesBefore
    <3> QED
      BY <3>3, <3>4, <3>5
  <2> QED
    BY <2>1, <2>2
<1>7. PICK been : been = Spread(Upwards(idom, stops), {p} \ stops)
  OBVIOUS
<1>8. been = {y \in dom[p] : \A s \in stops : y \notin dom[s]}
  BY <1>3, <1>6, <1>7, ClimbsThrough
<1>9. x \in Climb(p, n, idom) <=> x \in been
  <2>1. x # Endless
    BY GraphAssumption DEF Nodes, Endless
  <2>2. Climb(p, n, idom) = been \cup (IF been # {} /\ \A r \in been : Upwards(idom, stops)[r] # {}
                                       THEN {Endless} ELSE {})
    BY <1>5, <1>7 DEF Climb, Upwards
  <2> QED
    BY <2>1, <2>2
<1> QED
  BY <1>6, <1>8, <1>9

LEMMA FrontierIs ==
  ASSUME NEW es, Within(es, Nodes), NEW dom, SetsRight(Nodes, 1, es, dom),
         NEW idom, TreeOf(idom, dom, es), Nodes \subseteq ReachedFrom(1, es), NEW x \in Nodes
  PROVE  IsFrontier(DominanceFrontiers(idom, es), x, es)
<1>1. DominanceFrontiers(idom, es)[x] = {n \in Nodes : x \in Walks(n, idom, es)}
  BY DEF DominanceFrontiers
<1>2. ASSUME NEW n \in Nodes
      PROVE  x \in Walks(n, idom, es) <=> /\ \E p \in Preds(n, es) : NoWayAround(x, 1, p, es)
                                          /\ x = n \/ ~NoWayAround(x, 1, n, es)
  <2>1. x \in Walks(n, idom, es) <=> \E p \in Preds(n, es) : x \in Climb(p, n, idom)
    BY DEF Walks
  <2>2. \A p \in Preds(n, es) : x \in Climb(p, n, idom) <=> x \in dom[p] /\ (x = n \/ x \notin dom[n])
    BY WalksPast
  <2>3. Preds(n, es) \subseteq Nodes /\ 1 \in Nodes
    BY EntityNodes DEF Preds, Within
  <2>4. \A m \in Nodes : x \in dom[m] <=> NoWayAround(x, 1, m, es)
    BY <2>3, DominatesAll
  <2> QED
    BY <2>1, <2>2, <2>3, <2>4
<1> QED
  BY <1>1, <1>2 DEF IsFrontier

LEMMA IteratedIsLeast ==
  ASSUME NEW frontiers, DOMAIN frontiers = Nodes, \A n \in Nodes : frontiers[n] \subseteq Nodes,
         NEW defs \in SUBSET Nodes
  PROVE  IsLeastClosed(IteratedFrontiers(frontiers, defs), frontiers, defs)
<1>1. Inward(frontiers)
  BY EntityNodes DEF Inward
<1>2. PICK S : S = IteratedFrontiers(frontiers, defs)
  OBVIOUS
<1>3. S = Around(frontiers, defs)
  BY <1>1, <1>2, SpreadAround DEF IteratedFrontiers
<1>4. defs \subseteq S /\ S \in SUBSET Nodes /\ ClosedIn(frontiers, S)
  BY <1>1, <1>3, AroundClosed
<1>5. \A T \in SUBSET Nodes : defs \subseteq T /\ (\A n \in T : frontiers[n] \subseteq T) => S \subseteq T
  BY <1>3 DEF Around, ClosedIn
<1> QED
  BY <1>2, <1>4, <1>5 DEF IsLeastClosed, ClosedIn

\* The answers there can be for a node out of reach.
LEMMA ImmediateAmong ==
  ASSUME NEW dom, NEW n
  PROVE  Immediate(dom, 1, n) \subseteq {NoNode} \cup (dom[n] \ {n})
BY DEF Immediate

LEMMA FrontiersAreRight ==
  ASSUME NEW es, Within(es, Nodes)
  PROVE  FrontiersRight(Dominators(Nodes, 1, es), es)
<1>1. 1 \in Nodes /\ NoNode \notin Nodes
  BY EntityNodes
<1>2. PICK dom : dom = Dominators(Nodes, 1, es)
  OBVIOUS
<1>3. SetsRight(Nodes, 1, es, dom)
  BY <1>1, <1>2, DominatorsRight
<1>4. PICK possible : possible = [n \in Nodes |-> Immediate(dom, 1, n)]
  OBVIOUS
<1>5. PICK idom : idom = [n \in Nodes |-> CHOOSE i \in possible[n] : TRUE]
  OBVIOUS
<1>6. PICK Reach : Reach = ReachedFrom(1, es)
  OBVIOUS
<1>7. 1 \in Reach /\ Reach \subseteq Nodes
  BY <1>1, <1>6, ReachedLeast
<1>8. idom[1] = NoNode
  <2>1. possible[1] = {NoNode}
    BY <1>1, <1>3, <1>4, RootHasNone
  <2> QED
    BY <1>1, <1>5, <2>1
<1>9. ASSUME NEW n \in Reach \ {1} PROVE idom[n] \in Nodes /\ ClosestIs(dom, n, idom[n])
  <2>1. PICK i \in Nodes : Immediate(dom, 1, n) = {i} /\ ClosestIs(dom, n, i)
    BY <1>1, <1>3, <1>6, OneImmediate
  <2>2. n \in Nodes
    BY <1>7
  <2>3. possible[n] = {i}
    BY <1>4, <2>1, <2>2
  <2>4. idom[n] = i
    BY <1>5, <2>2, <2>3
  <2> QED
    BY <2>1, <2>4
<1>10. TreeOf(idom, dom, es)
  BY <1>5, <1>6, <1>8, <1>9 DEF TreeOf
<1>11. ASSUME NEW u \in Nodes, UnreachableFrom(1, es) = {u}, NEW i \in possible[u]
       PROVE  FrontiersEnd([idom EXCEPT ![u] = i], es)
  <2>1. Nodes \ Reach = {u}
    BY <1>6, <1>11 DEF UnreachableFrom
  <2>2. PICK tree : tree = [idom EXCEPT ![u] = i]
    OBVIOUS
  <2>3. DOMAIN tree = Nodes /\ tree[u] = i /\ \A n \in Nodes \ {u} : tree[n] = idom[n]
    BY <1>5, <2>2
  <2>4. TreeOf(tree, dom, es)
    <3>1. tree[1] = NoNode
      BY <1>1, <1>7, <1>8, <2>1, <2>3
    <3>2. \A n \in Reach \ {1} : tree[n] = idom[n]
      BY <1>7, <2>1, <2>3
    <3> QED
      BY <1>6, <1>9, <2>3, <3>1, <3>2 DEF TreeOf
  <2>5. i \in (Nodes \ {u}) \cup {NoNode}
    <3>1. i \in {NoNode} \cup (dom[u] \ {u})
      BY <1>4, <1>11, ImmediateAmong
    <3>2. dom[u] \subseteq Nodes
      BY <1>1, <1>3, DominatesItself
    <3> QED
      BY <3>1, <3>2
  <2>6. Nodes \ ReachedFrom(1, es) \subseteq {u}
    BY <1>6, <2>1
  <2>7. \A n \in Nodes \ ReachedFrom(1, es) : tree[n] \in (Nodes \ {n}) \cup {NoNode}
    BY <2>3, <2>5, <2>6
  <2>8. FrontiersEnd(tree, es)
    BY <1>3, <2>4, <2>6, <2>7, RunnersStop
  <2> QED
    BY <2>2, <2>8
<1>12. ASSUME UnreachableFrom(1, es) = {}
       PROVE  /\ FrontiersEnd(idom, es)
              /\ \A x \in Nodes : IsFrontier(DominanceFrontiers(idom, es), x, es)
              /\ \A defs \in SUBSET Nodes :
                   IsLeastClosed(IteratedFrontiers(DominanceFrontiers(idom, es), defs),
                                 DominanceFrontiers(idom, es), defs)
  <2>1. Nodes \subseteq ReachedFrom(1, es)
    BY <1>12 DEF UnreachableFrom
  <2>2. FrontiersEnd(idom, es)
    <3>1. Nodes \ ReachedFrom(1, es) \subseteq {1}
      BY <2>1
    <3>2. \A n \in Nodes \ ReachedFrom(1, es) : idom[n] \in (Nodes \ {n}) \cup {NoNode}
      BY <2>1
    <3> QED
      BY <1>3, <1>10, <3>1, <3>2, RunnersStop
  <2>3. \A x \in Nodes : IsFrontier(DominanceFrontiers(idom, es), x, es)
    BY <1>3, <1>10, <2>1, FrontierIs
  <2>4. PICK frontiers : frontiers = DominanceFrontiers(idom, es)
    OBVIOUS
  <2>5. DOMAIN frontiers = Nodes /\ \A n \in Nodes : frontiers[n] \subseteq Nodes
    BY <2>4 DEF DominanceFrontiers
  <2>6. \A defs \in SUBSET Nodes : IsLeastClosed(IteratedFrontiers(frontiers, defs), frontiers, defs)
    BY <2>5, IteratedIsLeast
  <2> QED
    BY <2>2, <2>3, <2>4, <2>6
<1> QED
  BY <1>2, <1>4, <1>5, <1>11, <1>12 DEF FrontiersRight

-----------------------------------------------------------------------------
(* The graphs that clients draw *)

\* No edge leaves the entities.
Drawable == edges \subseteq Nodes \X Nodes

LEMMA DrawnInside == GraphSpec => []Drawable
<1>1. GraphInit => Drawable
  BY DEF GraphInit, Drawable
<1>2. ASSUME Drawable, [GraphNext]_edges PROVE Drawable'
  <2>1. CASE GraphNext
    <3>1. PICK e \in Insertable : DrawEdge(e)
      BY <2>1 DEF GraphNext
    <3>2. edges' = edges \cup {e} /\ e \in Nodes \X Nodes
      BY <3>1, GraphAssumption DEF DrawEdge
    <3> QED
      BY <1>2, <3>2 DEF Drawable
  <2>2. CASE UNCHANGED edges
    BY <1>2, <2>2 DEF Drawable
  <2> QED
    BY <1>2, <2>1, <2>2
<1> QED
  BY <1>1, <1>2, PTL DEF GraphSpec

LEMMA DrawnIsRight ==
  ASSUME Drawable
  PROVE  DominanceRight
<1>1. PICK es : es = edges
  OBVIOUS
<1>2. Within(es, Nodes) /\ Within(Reversed(es), Nodes) /\ 1 \in Nodes
  BY <1>1, EntityNodes DEF Drawable
<1>3. PICK dom : dom = Dominators(Nodes, 1, es)
  OBVIOUS
<1>4. TreeRight(dom, 1, es)
  BY <1>2, <1>3, TreesRight
<1>5. FrontiersRight(dom, es)
  BY <1>2, <1>3, FrontiersAreRight
<1>6. LoopsRight(NaturalLoops(dom, es), es)
  BY <1>2, <1>3, LoopsAreRight
<1>7. ASSUME NEW x \in Exits(es) PROVE TreeRight(PostDominators(x, es), x, Reversed(es))
  <2>1. x \in Nodes
    BY DEF Exits
  <2> QED
    BY <1>2, <2>1, TreesRight DEF PostDominators
<1>8. PICK auto : auto = AutoExit(es)
  OBVIOUS
<1>9. AutoExitRight(auto, es)
  BY <1>2, <1>8, ExitsAreRight
<1>10. SlicesRight(ControlDependence(auto, es), es)
  <2>1. ControlDependence(auto, es) \in SUBSET es
    BY DEF ControlDependence
  <2> QED
    BY <1>2, <2>1, SlicesAreRight
<1> QED
  BY <1>1, <1>3, <1>4, <1>5, <1>6, <1>7, <1>8, <1>9, <1>10 DEF DominanceRight

(***************************************************************************)
(* dominators, post_dominators, dominance_frontiers, natural_loops and the *)
(* slices mean what they say, for every graph: a node that can be reached  *)
(* has the nodes no way from the entry avoids, one of them the closest     *)
(* whatever order a hash set is read in; the same backwards from an exit,  *)
(* from the virtual exit too; walks up the tree end and leave every node   *)
(* in the frontiers where its dominance stops, when all are reached.       *)
(* (A graph that takes over 1000 sweeps or 100 rounds of frontiers gets an *)
(* error instead.)                                                         *)
(***************************************************************************)
THEOREM DominanceIsRight == GraphSpec => []DominanceRight
<1>1. Drawable => DominanceRight
  BY DrawnIsRight
<1> QED
  BY <1>1, DrawnInside, PTL

=============================================================================
