------------------------------- MODULE KvStore -------------------------------
(***************************************************************************)
(* The version histories of the key-value store (kv_store/store.rs): what  *)
(* a read at a snapshot, a prefix scan and a reopen make of them, with     *)
(* values that expire.  KvEngine keeps only the newest value of a key and  *)
(* models who calls when; here one caller works through set and delete.    *)
(*                                                                         *)
(* KvStore takes the version of a write from its caller.  Rising callers   *)
(* pass versions that never fall, as the tests of store.rs do; V3Backend   *)
(* passes committed_lsn(), which nothing ever raises: 0 with a log, 1      *)
(* without.  Keys do not collide under hash_key, and the clock does not    *)
(* run backwards.                                                          *)
(***************************************************************************)
EXTENDS Naturals, Sequences, FiniteSets, FiniteSetsExt

CONSTANTS
  Keys, Vals, Null,     \* keys, values, and the value a delete writes
  Prefixes,             \* a prefix is the set of keys that start with it
  Ttls, NoTtl,          \* times to live a caller passes, NoTtl for None
  Rising,               \* the caller's versions rise
  MaxVersion, MaxClock, MaxWrites, MaxReopens  \* bounds

ASSUME KvStoreAssumption ==
  /\ Null \notin Vals
  /\ Prefixes \subseteq SUBSET Keys
  /\ NoTtl \notin Nat
  /\ Ttls \subseteq Nat \cup {NoTtl}
  /\ Rising \in BOOLEAN
  /\ {MaxVersion, MaxClock, MaxWrites, MaxReopens} \subseteq Nat
  /\ MaxVersion > 0

VARIABLES
  entries,  \* the versions of every key, oldest first
  now,      \* the clock, in seconds
  version,  \* the version of the newest write
  wholeLog, \* there is a log, and it still holds every write
  writes, reopens  \* counters behind MaxWrites and MaxReopens

vars == <<entries, now, version, wholeLog, writes, reopens>>

Entry == [value : Vals \cup {Null}, created : 0..MaxClock, updated : 0..MaxClock,
          ttl : Ttls \cup {NoTtl}, version : 0..MaxVersion]

Snapshots == 0..MaxVersion
Newest(h) == h[Len(h)]

\* partition_point is a binary search: it needs the versions in order.
InOrder(h) == \A i, j \in DOMAIN h : i <= j => h[i].version <= h[j].version

TypeOK ==
  /\ entries \in [Keys -> Seq(Entry)]
  /\ \A k \in Keys : InOrder(entries[k])
  /\ now \in 0..MaxClock
  /\ version \in Snapshots
  /\ wholeLog \in BOOLEAN
  /\ writes \in 0..MaxWrites
  /\ reopens \in 0..MaxReopens

Init ==
  /\ entries = [k \in Keys |-> <<>>]
  /\ now = 0
  /\ version \in IF Rising THEN {1} ELSE {0, 1}
  /\ wholeLog = (Rising \/ version = 0)
  /\ writes = 0
  /\ reopens = 0

-----------------------------------------------------------------------------
(* Reads *)

\* A mutation: the age of a value counted from the first write of its key.
ExpiresAt_SinceCreated(e) == e.created + e.ttl

ExpiresAt(e) == e.updated + e.ttl
Expired(e) == e.ttl # NoTtl /\ now >= ExpiresAt(e)

\* The versions a snapshot sees; snapshot 0 is "all data".
VisibleAt(h, s) == IF s = 0 THEN DOMAIN h ELSE {i \in DOMAIN h : h[i].version <= s}

\* get_at_snapshot, Null standing for None (kv_get maps one to the other).
GetAtSnapshot(k, s) ==
  LET h == entries[k]
      seen == VisibleAt(h, s)
  IN  IF seen = {} \/ Expired(h[Max(seen)]) THEN Null ELSE h[Max(seen)].value

\* A mutation: the scan forgets the snapshot.
PrefixScan_AllVersions(p, s) ==
  {<<k, Newest(entries[k]).value>> : k \in {k \in p :
     /\ entries[k] # <<>>
     /\ ~Expired(Newest(entries[k]))
     /\ Newest(entries[k]).value # Null}}

\* prefix_scan looks at the newest version of a key and at no other.
PrefixScan(p, s) ==
  {<<k, Newest(entries[k]).value>> : k \in {k \in p :
     /\ entries[k] # <<>>
     /\ Newest(entries[k]).version <= s
     /\ ~Expired(Newest(entries[k]))
     /\ Newest(entries[k]).value # Null}}

-----------------------------------------------------------------------------
(* Writes *)

NextVersions == IF Rising THEN version..MaxVersion ELSE {version}

\* A mutation: a write replaces the history instead of extending it.
Push_Replaces(k, e) == entries' = [entries EXCEPT ![k] = <<e>>]

Push(k, e) == entries' = [entries EXCEPT ![k] = Append(@, e)]

Write(k, e) ==
  /\ writes < MaxWrites
  /\ Push(k, e)
  /\ version' = e.version
  /\ writes' = writes + 1
  /\ UNCHANGED <<now, wholeLog, reopens>>

\* A new version keeps the time its key was created.
Set(k, v, ttl, ver) ==
  Write(k, [value |-> v, ttl |-> ttl, version |-> ver, updated |-> now,
            created |-> IF entries[k] = <<>> THEN now ELSE Newest(entries[k]).created])

\* A key that does not exist gets a tombstone too.
Delete(k, ver) ==
  Write(k, [value |-> Null, ttl |-> NoTtl, version |-> ver, updated |-> now,
            created |-> now])

Tick ==
  /\ now < MaxClock
  /\ now' = now + 1
  /\ UNCHANGED <<entries, version, wholeLog, writes, reopens>>

-----------------------------------------------------------------------------
(* Reopening the database *)

\* A mutation: tombstones are left out by leaving out the newest version.
Saved_SkipsTombstones(h) ==
  LET live == SelectSeq(h, LAMBDA e : e.value # Null)
  IN  IF live = <<>> \/ Expired(Newest(live)) THEN <<>> ELSE <<Newest(live)>>

\* to_bytes saves the newest version of a key that is neither a tombstone nor
\* expired.
Saved(h) ==
  IF h = <<>> \/ Newest(h).value = Null \/ Expired(Newest(h))
  THEN <<>> ELSE <<Newest(h)>>

\* from_bytes and replay both stamp what they restore with the present time;
\* the checkpoint writes no TTL as 0.
Restamped(e) == [e EXCEPT !.created = now, !.updated = now]
Restored(e) == [Restamped(e) EXCEPT !.ttl = IF @ = 0 THEN NoTtl ELSE @]

\* Mapped over a history of at most one version, or over all of them.
EachOf(h, Op(_)) == [i \in DOMAIN h |-> Op(h[i])]

\* flush, close and open: to_bytes into the checkpoint file, from_bytes out of it.
ReopenFromCheckpoint ==
  /\ reopens < MaxReopens
  /\ entries' = [k \in Keys |-> EachOf(Saved(entries[k]), Restored)]
  /\ wholeLog' = FALSE
  /\ reopens' = reopens + 1
  /\ UNCHANGED <<now, version, writes>>

\* A crash and open: recover_kv replays every KvSet and KvDelete of the log,
\* ignoring their timestamps.
ReopenFromLog ==
  /\ reopens < MaxReopens
  /\ wholeLog
  /\ entries' = [k \in Keys |-> EachOf(entries[k], Restamped)]
  /\ reopens' = reopens + 1
  /\ UNCHANGED <<now, version, wholeLog, writes>>

Next ==
  \/ \E k \in Keys, v \in Vals \cup {Null}, ttl \in Ttls, ver \in NextVersions :
       Set(k, v, ttl, ver)
  \/ \E k \in Keys, ver \in NextVersions : Delete(k, ver)
  \/ Tick
  \/ ReopenFromCheckpoint \/ ReopenFromLog

Spec == Init /\ [][Next]_vars

-----------------------------------------------------------------------------
(* Properties *)

\* What a snapshot would read if nothing expired.
Unexpired(k, s) ==
  LET seen == VisibleAt(entries[k], s)
  IN  IF seen = {} THEN Null ELSE entries[k][Max(seen)].value

\* No later write, to this key or another, changes what an earlier snapshot
\* reads (get_at_snapshot over the histories that set and delete extend); time
\* and a reopen can make it read nothing, never another value.
EarlierSnapshotsKeepReading ==
  [][\A k \in Keys, s \in Snapshots \ {0} : s < version' =>
       /\ GetAtSnapshot(k, s)' \in {Null, Unexpired(k, s)}
       /\ writes' # writes => GetAtSnapshot(k, s)' = GetAtSnapshot(k, s)]_vars

\* set followed by get: the writer reads its value at once, whatever the key
\* went through before, unless its time to live is 0.
WritersReadTheirWrites ==
  [][\A k \in Keys : Len(entries'[k]) > Len(entries[k]) =>
       LET e == Newest(entries'[k])
       IN  \A s \in {0} \cup version'..MaxVersion :
             GetAtSnapshot(k, s)' = IF e.ttl = 0 THEN Null ELSE e.value]_vars

\* A reopen loses no value that could be read and brings back no deleted or
\* overwritten one.  Replay restarts the life of what had expired: only that
\* value, the newest of its key, may return.
ReopenKeepsCurrentValues ==
  [][reopens' # reopens =>
       \A k \in Keys :
         \/ GetAtSnapshot(k, 0)' = GetAtSnapshot(k, 0)
         \/ /\ GetAtSnapshot(k, 0) = Null
            /\ GetAtSnapshot(k, 0)' = Unexpired(k, 0)
            /\ wholeLog]_vars

\* A scan shows nothing that a get at the same snapshot would not, and misses
\* only the keys that were written again after the snapshot.
ScanAgreesWithGet ==
  \A p \in Prefixes, s \in Snapshots :
    LET newer == {k \in p : entries[k] # <<>> /\ Newest(entries[k]).version > s}
    IN  PrefixScan(p, s) = {<<k, GetAtSnapshot(k, s)>> :
                            k \in {k \in p \ newer : GetAtSnapshot(k, s) # Null}}
=============================================================================
