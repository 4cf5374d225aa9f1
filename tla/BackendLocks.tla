----------------------------- MODULE BackendLocks ------------------------------
(***************************************************************************)
(* The locks of V3Backend, in the order in which each of its operations    *)
(* takes them.  A backend is shared by threads; its parts sit behind       *)
(* parking_lot RwLocks of their own, and no common order of the locks is   *)
(* written down anywhere.                                                  *)
(*                                                                         *)
(* An operation is the sequence of its lock steps; what it does in between *)
(* is left out, so every path of an operation appears as the longest one:  *)
(* every cache misses, every page is allocated, the log is enabled.  Locks *)
(* taken and released inside a single call of the caches are left out.     *)
(***************************************************************************)
EXTENDS Naturals, Sequences, FiniteSets

CONSTANTS
  Threads,  \* threads that share the backend
  Mixes     \* sets of operations that are used together

Locks == {"node", "edge", "header", "alloc", "btree", "kv", "wal"}

\* The steps: read(), write(), and the end of a guard.
ReleaseOf(lock) == [act |-> "release", lock |-> lock]
R(lock) == <<[act |-> "read", lock |-> lock]>>
W(lock) == <<[act |-> "write", lock |-> lock]>>
X(lock) == <<ReleaseOf(lock)>>

\* A guard that lives while the body runs, and one that lives for a statement.
Reading(lock, body) == R(lock) \o body \o X(lock)
Writing(lock, body) == W(lock) \o body \o X(lock)
Reads(lock) == Reading(lock, <<>>)
Writes(lock) == Writing(lock, <<>>)

-----------------------------------------------------------------------------
(* The operations *)

SyncHeader == Reads("header")

Checkpoint == Reading("header", Reading("btree", Reading("alloc", Writes("wal"))))

\* flush of the edge store: a page for a cluster that has none and for the
\* store's own tree, whose lock nobody takes without the store's; then the log.
FlushEdges == Writing("edge", Writes("alloc") \o Writes("wal"))

FlushToDisk ==
  FlushEdges
    \o Writing("header", Reads("edge") \o Reads("alloc"))
    \o SyncHeader
    \o Reads("kv")
    \o Checkpoint
    \o Writes("wal") \o Writes("wal")

GetNodeInternal == Writes("node")

InsertNode ==
  Writes("alloc") \o Writing("node", Writes("alloc") \o Writes("header")) \o SyncHeader

\* Mutant: the endpoints are looked up under the lock of the edge store.
InsertEdge_ChecksInside ==
  Writing("edge", GetNodeInternal \o Writes("alloc") \o Writes("header")) \o SyncHeader

InsertEdge ==
  GetNodeInternal \o GetNodeInternal
    \o Writing("edge", Writes("alloc") \o Writes("wal") \o Writes("header"))
    \o SyncHeader

UpdateNode == Writing("node", FlushToDisk)

DeleteEntity ==
  Writing("node", Writes("header") \o SyncHeader \o FlushToDisk)

\* begin_batch, and commit of a batch in which nodes and edges were inserted.
CommitBatch == Writes("node") \o Writes("node") \o SyncHeader \o FlushToDisk

EntityIds == Reading("header", GetNodeInternal)

Neighbors == Reads("edge")

\* One step of a breadth-first search.
BfsStep == Writes("edge")

KvSet == Reads("wal") \o Writes("kv") \o Writes("wal")

KvGet == Reads("kv")

\* snapshot_import puts the parts of the imported database in place one by one
\* and rebuilds the indexes.
SnapshotImport ==
  Reads("header") \o Writes("alloc") \o Writes("btree") \o Writes("node")
    \o Writes("edge") \o Writes("header")
    \o Reads("header") \o GetNodeInternal

Program == [
  insert_node     |-> InsertNode,
  insert_edge     |-> InsertEdge,
  update_node     |-> UpdateNode,
  delete_entity   |-> DeleteEntity,
  commit_batch    |-> CommitBatch,
  entity_ids      |-> EntityIds,
  get_node        |-> GetNodeInternal,
  neighbors       |-> Neighbors,
  bfs             |-> BfsStep,
  kv_set          |-> KvSet,
  kv_get          |-> KvGet,
  flush           |-> FlushToDisk,
  snapshot_import |-> SnapshotImport]

Operations == DOMAIN Program
ASSUME LocksAssumption == Mixes \subseteq SUBSET Operations

-----------------------------------------------------------------------------
VARIABLES
  mix,    \* the operations in use
  call,   \* the operation each thread is in, "none" between calls
  pc,     \* the step of it that comes next
  queued  \* threads that wait for a write lock: parking_lot lets them in first

vars == <<mix, call, pc, queued>>

Busy(t) == call[t] # "none"
Steps(t) == Program[call[t]]
Next1(t) == Steps(t)[pc[t]]

\* What has been taken before step i of a path and not released since.
HeldIn(path, i) ==
  {path[h] : h \in {h \in 1..(i - 1) :
     /\ path[h].act # "release"
     /\ \A k \in h..(i - 1) : path[k] # ReleaseOf(path[h].lock)}}
HeldBefore ==
  [o \in Operations |-> [i \in 1..Len(Program[o]) |-> HeldIn(Program[o], i)]]
Holds(t, act, lock) ==
  Busy(t) /\ [act |-> act, lock |-> lock] \in HeldBefore[call[t]][pc[t]]

Wants(t, act, lock) == Busy(t) /\ Next1(t) = [act |-> act, lock |-> lock]

\* t cannot take the lock it wants while u holds it, or while u waits to write:
\* readers queue up behind a waiting writer.
BlockedBy(t, u) ==
  \E lock \in Locks :
     \/ /\ Wants(t, "write", lock)
        /\ Holds(u, "write", lock) \/ Holds(u, "read", lock)
     \/ /\ Wants(t, "read", lock)
        /\ Holds(u, "write", lock) \/ (u # t /\ u \in queued /\ Wants(u, "write", lock))

Granted(t) == \A u \in Threads : ~BlockedBy(t, u)

TypeOK ==
  /\ mix \in Mixes
  /\ call \in [Threads -> mix \cup {"none"}]
  /\ pc \in [Threads -> Nat]
  /\ \A t \in Threads : pc[t] \in 1..(IF Busy(t) THEN Len(Steps(t)) ELSE 1)
  /\ queued \subseteq {t \in Threads : Busy(t) /\ Next1(t).act = "write"}

Init ==
  /\ mix \in Mixes
  /\ call = [t \in Threads |-> "none"]
  /\ pc = [t \in Threads |-> 1]
  /\ queued = {}

Start(t, o) ==
  /\ ~Busy(t)
  /\ o \in mix
  /\ call' = [call EXCEPT ![t] = o]
  /\ UNCHANGED <<mix, pc, queued>>

\* Mutant: a call starts over instead of returning.
Advance_StartsOver(t) ==
  /\ pc' = [pc EXCEPT ![t] = IF @ < Len(Steps(t)) THEN @ + 1 ELSE 1]
  /\ queued' = queued \ {t}
  /\ UNCHANGED <<mix, call>>

\* The next step is done; after the last one the call returns.
Advance(t) ==
  /\ IF pc[t] < Len(Steps(t))
     THEN pc' = [pc EXCEPT ![t] = @ + 1] /\ call' = call
     ELSE pc' = [pc EXCEPT ![t] = 1] /\ call' = [call EXCEPT ![t] = "none"]
  /\ queued' = queued \ {t}
  /\ UNCHANGED mix

Acquire(t) ==
  /\ Busy(t)
  /\ Next1(t).act \in {"read", "write"}
  /\ Granted(t)
  /\ Advance(t)

\* A writer that cannot have the lock parks.
Park(t) ==
  /\ Busy(t)
  /\ Next1(t).act = "write"
  /\ t \notin queued
  /\ ~Granted(t)
  /\ queued' = queued \cup {t}
  /\ UNCHANGED <<mix, call, pc>>

Release(t) ==
  /\ Busy(t)
  /\ Next1(t).act = "release"
  /\ Advance(t)

Next ==
  \E t \in Threads : \/ \E o \in Operations : Start(t, o)
                     \/ Acquire(t)
                     \/ Park(t)
                     \/ Release(t)

\* A thread that is inside a call is scheduled again and again, and a lock that
\* is free again and again is eventually granted (parking_lot is task-fair).
\* Nobody has to call.
Fairness ==
  \A t \in Threads : /\ WF_vars(Park(t) \/ Release(t))
                     /\ SF_vars(Acquire(t))

Spec == Init /\ [][Next]_vars
FairSpec == Spec /\ Fairness

-----------------------------------------------------------------------------
(* Properties *)

\* A set of threads that can never go on: each waits for one of the set.
Deadlocked(S) == S # {} /\ \A t \in S : \E u \in S : BlockedBy(t, u)

\* A waiting thread holds only locks that come before the one it wants in this
\* order, or the header while it wants the edge store (flush_to_disk) or the
\* node store (entity_ids).
Order == <<"node", "edge", "header", "btree", "alloc", "kv", "wal">>
Before(k, l) == \E i, j \in DOMAIN Order : i < j /\ Order[i] = k /\ Order[j] = l
HeaderFirst(t) ==
  /\ Holds(t, "read", "header") \/ Holds(t, "write", "header")
  /\ Wants(t, "read", "edge") \/ Wants(t, "write", "node")
InOrder(t) ==
  \A k, l \in Locks :
     (/\ Holds(t, "read", k) \/ Holds(t, "write", k)
      /\ Wants(t, "read", l) \/ Wants(t, "write", l)) => Before(k, l)

\* Whatever operations run together, every circle of waiting threads goes
\* through one that holds the header and wants the edge or the node store.  The
\* second conjunct carries this to any number of threads: all others take their
\* locks in one order, which no document states and no test checks.
OnlyHeaderCloses ==
  /\ \A S \in SUBSET Threads : Deadlocked(S) => \E t \in S : HeaderFirst(t)
  /\ \A t \in Threads : InOrder(t) \/ HeaderFirst(t)

\* Operations among which no flush meets an insert_edge, and entity_ids is not
\* called while nodes are changed.
Flushing == {"flush", "update_node", "delete_entity", "commit_batch"}
Changing == {"insert_node", "update_node", "delete_entity"}
Compatible(ops) ==
  /\ "insert_edge" \in ops => ops \cap Flushing = {}
  /\ "entity_ids" \in ops => ops \cap Changing = {}

\* Every call returns in such a mix: no deadlock, and nobody is passed over for
\* ever by the threads that call neighbors, bfs or kv_set again and again.
EveryCallReturns ==
  \A t \in Threads : (Compatible(mix) /\ Busy(t)) ~> ~Busy(t)
=============================================================================
