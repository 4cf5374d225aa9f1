------------------------------ MODULE KvEngine -------------------------------
(***************************************************************************)
(* The key-value side of V3Backend: the in-memory KvStore, the buffered    *)
(* write-ahead log, the .v3checkpoint file, flush_to_disk, Drop, a crash   *)
(* at any point and V3Backend::open.                                       *)
(*                                                                         *)
(* A call is split where the code releases a lock: kv_set changes the      *)
(* store under kv_store.write(), appends to the log under wal.write() and  *)
(* emits its event under publisher.write(), with other threads free to run *)
(* in between; flush_to_disk takes one lock per stage.  committed_lsn(),   *)
(* read first by kv_set, is constant for the life of a backend (nothing    *)
(* calls WALWriter::commit), so that read is folded into the next step.    *)
(*                                                                         *)
(* The store keeps the newest version of a key; version histories are      *)
(* KvStore's subject.  Null is the tombstone that a delete leaves.         *)
(***************************************************************************)
EXTENDS Naturals, Sequences, FiniteSets

CONSTANTS
  Keys, Vals, Null,     \* keys, values, and the tombstone
  NoKey,                \* the key of a log record that is not about KV
  NoFile, Torn,         \* a file that does not exist; one cut short
  Threads,              \* threads sharing the backend
  Flushers,             \* the threads that call flush()
  WalEnabled,           \* create_with_wal(path, WalEnabled)
  EdgesUsed,            \* threads also insert edges
  V3Api,                \* threads also use kv_set_v3 / kv_delete_v3
  IoErrors,             \* a log write or a checkpoint write may fail
  MaxWrites, MaxCrashes, \* bounds on the number of writes and of crashes
  MaxRecords            \* bound on the length of a log that failing writes extend

ASSUME KvAssumption ==
  /\ Null \notin Vals
  /\ NoKey \notin Keys
  /\ NoFile # Torn
  /\ Torn \notin Vals \cup {Null}
  /\ NoFile \notin [Keys -> Vals \cup {Null}]
  /\ Torn \notin [Keys -> Vals \cup {Null}]
  /\ Flushers \subseteq Threads
  /\ {WalEnabled, EdgesUsed, V3Api, IoErrors} \subseteq BOOLEAN
  /\ MaxWrites \in Nat
  /\ MaxCrashes \in Nat
  /\ MaxRecords \in Nat

VARIABLES
  session,   \* "up", "closing" (Drop is running) or "down"
  events,    \* history: what open() and flushes did that they should not
  walOn,     \* backend.wal is Some
  edgeWal,   \* edge_store.wal is Some
  base,      \* history: the store when the log was last opened or emptied
  mem,       \* newest value of every key in KvStore
  inited,    \* kv_store is Some
  edgeDirty, \* edge_store.dirty_clusters is not empty
  buf,       \* WALWriter.buffer
  walFile,   \* the .v3wal file: NoFile, or whether it has a header and what is in it
  ckpt,      \* the .v3checkpoint file: NoFile, Torn or a store
  temp,      \* the temporary checkpoint file, likewise
  pc, op,    \* where each thread is in its call; the record it carries
  fd,        \* the file a flushing thread's checkpoint handle refers to
  view,      \* what a subscriber that rereads on every event knows
  past,      \* history: stores a crash may legitimately fall back to
  since,     \* history: stores seen since a running flush checkpointed
  writes, crashes  \* counters behind MaxWrites and MaxCrashes

fileVars == <<walFile, ckpt, temp>>
memVars  == <<mem, inited, edgeDirty, buf>>
histVars == <<view, past, since, writes, crashes>>
confVars == <<session, events, walOn, edgeWal, base>>
vars == <<session, events, walOn, edgeWal, base, mem, inited, edgeDirty, buf,
          walFile, ckpt, temp, pc, op, fd, view, past, since, writes, crashes>>

-----------------------------------------------------------------------------
Values == Vals \cup {Null}
Store  == [Keys -> Values]
Empty  == [k \in Keys |-> Null]

KvRecord(k, v) == [key |-> k, val |-> v]
\* Checkpoint and EdgeInsert records: replay counts and applies neither.
Marker == [key |-> NoKey, val |-> Null]
\* The first bytes of a record whose writing was cut short.
Fragment == [key |-> NoKey, val |-> Torn]
Record == [key : Keys, val : Values] \cup {Marker, Fragment}
LogFile == [hdr : BOOLEAN, recs : Seq(Record)]
ASSUME FileAssumption == NoFile \notin LogFile

Labels == {"idle", "append", "emit", "edgeFlush", "ckptCreate", "ckptWrite",
           "ckptRename", "ckptRecord", "walFlush", "truncate"}
Handles == {"none", "temp", "ckpt", "gone"}

Events == {
  "refused",   \* open() returned an error
  "hidden",    \* open() replayed a log without a key of the store it continued
  "garbled",   \* open() read a log otherwise than it was written
  "dropped" }  \* the edge store removed a log that the checkpoint does not hold
If(condition, event) == IF condition THEN {event} ELSE {}

TypeOK ==
  /\ session \in {"up", "closing", "down"}
  /\ events \subseteq Events
  /\ {walOn, edgeWal, inited, edgeDirty} \subseteq BOOLEAN
  /\ {base, mem} \subseteq Store
  /\ buf \in Seq(Record)
  /\ walFile \in LogFile \cup {NoFile}
  /\ ckpt \in Store \cup {NoFile, Torn}
  /\ temp \in Store \cup {NoFile, Torn}
  /\ pc \in [Threads -> Labels]
  /\ op \in [Threads -> Record]
  /\ fd \in [Threads -> Handles]
  /\ view \in Store
  /\ past \subseteq Store
  /\ since \in [Threads -> SUBSET Store]
  /\ writes \in 0..MaxWrites
  /\ crashes \in 0..MaxCrashes

\* create_with_wal writes a log header and leaves the edge store without a log.
Init ==
  /\ session = "up"
  /\ events = {}
  /\ walOn = WalEnabled
  /\ edgeWal = FALSE
  /\ base = Empty
  /\ mem = Empty
  /\ inited = FALSE
  /\ edgeDirty = FALSE
  /\ buf = <<>>
  /\ walFile = IF WalEnabled THEN [hdr |-> TRUE, recs |-> <<>>] ELSE NoFile
  /\ ckpt = NoFile
  /\ temp = NoFile
  /\ pc = [t \in Threads |-> "idle"]
  /\ op = [t \in Threads |-> Marker]
  /\ fd = [t \in Threads |-> "none"]
  /\ view = Empty
  /\ past = {Empty}
  /\ since = [t \in Threads |-> {}]
  /\ writes = 0
  /\ crashes = 0

-----------------------------------------------------------------------------
(* The log *)

\* WALWriter::flush: nothing to do for an empty buffer; otherwise the file is
\* created if it is missing, and a file created here gets no header.
Extend(file, recs) ==
  IF file = NoFile THEN [hdr |-> FALSE, recs |-> recs]
                   ELSE [file EXCEPT !.recs = @ \o recs]

FlushLog(file, pending) ==
  IF pending = <<>> THEN file ELSE Extend(file, pending)

\* WALWriter::append: the record joins the buffer, which is written out when
\* it has reached the threshold.  Record sizes vary, so any append may.
AppendLog(rec) ==
  \/ /\ buf' = Append(buf, rec)
     /\ UNCHANGED walFile
  \/ /\ walFile' = FlushLog(walFile, Append(buf, rec))
     /\ buf' = <<>>

FileRecords == IF walFile = NoFile THEN <<>> ELSE walFile.recs

\* What a write of records can leave of them when it fails or is cut short: so
\* many whole ones, and perhaps a part of the next.  Nothing takes them back.
Prefixes(recs) == {SubSeq(recs, 1, n) : n \in 0..Len(recs)}
Beginnings(recs) == Prefixes(recs) \cup {Append(p, Fragment) : p \in Prefixes(recs) \ {recs}}

\* WALWriter::flush fails: the buffer is kept, whatever of it is in the file.
LogWriteFails(pending) ==
  /\ Len(FileRecords) + Len(pending) <= MaxRecords
  /\ buf' = pending
  /\ walFile' \in {walFile} \cup {Extend(walFile, p) : p \in Beginnings(pending)}

\* Mutant: replay keeps the first record of a key.
Replay_FirstWins(recs) ==
  [k \in Keys |->
     LET idx == {i \in DOMAIN recs : recs[i].key = k}
     IN  IF idx = {} THEN Null
         ELSE recs[CHOOSE i \in idx : \A j \in idx : i <= j].val]

\* recover_kv applies the records in file order: the last one for a key wins.
KvIndices(recs) == {i \in DOMAIN recs : recs[i].key # NoKey}
Replay(recs) ==
  [k \in Keys |->
     LET idx == {i \in DOMAIN recs : recs[i].key = k}
     IN  IF idx = {} THEN Null
         ELSE recs[CHOOSE i \in idx : \A j \in idx : j <= i].val]

\* The store the log file tells of: what its records make of the store at the
\* time the log was opened or emptied.
Mentions(recs, k) == \E i \in DOMAIN recs : recs[i].key = k
Over(store, recs) ==
  [k \in Keys |-> IF Mentions(recs, k) THEN Replay(recs)[k] ELSE store[k]]
Told == Over(base, FileRecords)

\* Nothing is lost with the log file.
LogSaved == KvIndices(FileRecords) # {} => ckpt = Told

\* recover_kv finds the end of a record by the size in front of it.  A fragment
\* takes bytes of the record behind it for its own, so the reader goes on
\* somewhere inside that record, and may be at the beginning of any later one
\* again, or of none.  The sets of records at whose beginning it may have been:
InStep(recs) ==
  {S \in SUBSET DOMAIN recs :
     \A i \in DOMAIN recs :
       /\ i = 1 => i \in S
       /\ i - 1 \in S => (i \in S <=> recs[i - 1] # Fragment)}

\* What a reader in step at S does not see as it was written: a fragment at the
\* end it sees for what it is.
Unread(recs, S) == {i \in DOMAIN recs : i \notin S \/ (recs[i] = Fragment /\ i # Len(recs))}

\* It may take those bytes for a record that nobody wrote (for one of them: a
\* bound), or skip them; at the end it may find one more record incomplete.
Misread(recs, unread) ==
  {f \in [unread -> Record] :
     /\ \A i \in unread : f[i] = Fragment => i = Len(recs)
     /\ \A i, j \in KvIndices(f) : i = j}

Readings(recs) ==
  UNION { LET unread == Unread(recs, S)
          IN  {[i \in DOMAIN recs |-> IF i \in unread THEN f[i] ELSE recs[i]] :
                 f \in Misread(recs, unread)} : S \in InStep(recs) }

-----------------------------------------------------------------------------
(* kv_set, kv_delete and their V3 variants *)

\* flush_to_disk holds kv_store.read() from the copy of the store to the rename.
StoreLocked == \E t \in Threads : pc[t] \in {"ckptWrite", "ckptRename"}

\* Threads whose running flush has already copied the store.
Copied(t) == pc[t] \in {"ckptWrite", "ckptRename", "ckptRecord", "walFlush", "truncate"}

PutStore(k, v) ==
  /\ mem' = [mem EXCEPT ![k] = v]
  /\ inited' = TRUE
  /\ past' = past \cup {mem'}
  /\ since' = [t \in Threads |-> IF Copied(t) THEN since[t] \cup {mem'} ELSE since[t]]
  /\ writes' = writes + 1

\* kv_set (v # Null) and kv_delete (v = Null): the store first.
KvWrite(t, k, v) ==
  /\ session = "up" /\ pc[t] = "idle" /\ writes < MaxWrites
  /\ ~StoreLocked
  /\ PutStore(k, v)
  /\ op' = [op EXCEPT ![t] = KvRecord(k, v)]
  /\ pc' = [pc EXCEPT ![t] = IF walOn THEN "append" ELSE "emit"]
  /\ UNCHANGED <<confVars, edgeDirty, buf, fileVars, fd, view, crashes>>

\* kv_set_v3 and kv_delete_v3 stop there: no log record, no event.
KvWriteV3(t, k, v) ==
  /\ V3Api
  /\ session = "up" /\ pc[t] = "idle" /\ writes < MaxWrites
  /\ ~StoreLocked
  /\ PutStore(k, v)
  /\ UNCHANGED <<confVars, edgeDirty, buf, fileVars, pc, op, fd, view, crashes>>

\* Mutant: deletes are not logged.
KvAppend_SetsOnly(t) ==
  /\ pc[t] = "append"
  /\ IF op[t].val = Null THEN UNCHANGED <<buf, walFile>> ELSE AppendLog(op[t])
  /\ pc' = [pc EXCEPT ![t] = "emit"]
  /\ UNCHANGED <<confVars, mem, inited, edgeDirty, ckpt, temp, op, fd, histVars>>

\* Mutant: the call returns once the record is logged.
KvAppend_NoEvent(t) ==
  /\ pc[t] = "append"
  /\ AppendLog(op[t])
  /\ pc' = [pc EXCEPT ![t] = "idle"]
  /\ op' = [op EXCEPT ![t] = Marker]
  /\ UNCHANGED <<confVars, mem, inited, edgeDirty, ckpt, temp, fd, histVars>>

\* ... then the log ...
KvAppend(t) ==
  /\ pc[t] = "append"
  /\ AppendLog(op[t])
  /\ pc' = [pc EXCEPT ![t] = "emit"]
  /\ UNCHANGED <<confVars, mem, inited, edgeDirty, ckpt, temp, op, fd, histVars>>

\* ... whose failure is returned to the caller with the store already changed
\* and no event sent; an oversized record is not buffered, one whose
\* automatic flush failed is ...
KvAppendFails(t) ==
  /\ IoErrors
  /\ pc[t] = "append"
  /\ \/ UNCHANGED <<buf, walFile>>
     \/ LogWriteFails(Append(buf, op[t]))
  /\ pc' = [pc EXCEPT ![t] = "idle"]
  /\ op' = [op EXCEPT ![t] = Marker]
  /\ UNCHANGED <<confVars, mem, inited, edgeDirty, ckpt, temp, fd, histVars>>

\* Mutant: the event carries the value its own call wrote.
KvEmit_OwnValue(t) ==
  /\ pc[t] = "emit"
  /\ view' = [view EXCEPT ![op[t].key] = op[t].val]
  /\ pc' = [pc EXCEPT ![t] = "idle"]
  /\ op' = [op EXCEPT ![t] = Marker]
  /\ UNCHANGED <<confVars, memVars, fileVars, fd, past, since, writes, crashes>>

\* ... and last the KvChanged event, which carries the key but no value, so
\* the subscriber rereads.
KvEmit(t) ==
  /\ pc[t] = "emit"
  /\ view' = [view EXCEPT ![op[t].key] = mem[op[t].key]]
  /\ pc' = [pc EXCEPT ![t] = "idle"]
  /\ op' = [op EXCEPT ![t] = Marker]
  /\ UNCHANGED <<confVars, memVars, fileVars, fd, past, since, writes, crashes>>

\* insert_edge as far as the log is concerned.
InsertEdge(t) ==
  /\ EdgesUsed
  /\ session = "up" /\ pc[t] = "idle" /\ ~edgeDirty
  /\ edgeDirty' = TRUE
  /\ IF edgeWal THEN AppendLog(Marker) ELSE UNCHANGED <<buf, walFile>>
  /\ UNCHANGED <<confVars, mem, inited, ckpt, temp, pc, op, fd, histVars>>

-----------------------------------------------------------------------------
(* flush_to_disk *)

Goto(t, label) == pc' = [pc EXCEPT ![t] = label]

FlushReturns(t) ==
  /\ Goto(t, "idle")
  /\ past' = past \cap since[t]
  /\ since' = [since EXCEPT ![t] = {}]

FlushStart(t) ==
  /\ session = "up" /\ pc[t] = "idle" /\ t \in Flushers
  /\ Goto(t, "edgeFlush")
  /\ UNCHANGED <<confVars, memVars, fileVars, op, fd, histVars>>

\* Drop for V3Backend: the owner is alone with the backend.
Close(t) ==
  /\ session = "up" /\ \A u \in Threads : pc[u] = "idle"
  /\ session' = "closing"
  /\ Goto(t, "edgeFlush")
  /\ UNCHANGED <<events, walOn, edgeWal, base, memVars, fileVars, op, fd, histVars>>

\* V3EdgeStore::flush: with dirty clusters and a log of its own it also
\* checkpoints, flushes and removes the log, all under one wal.write().
EdgeFlush(t) ==
  /\ pc[t] = "edgeFlush"
  /\ IF edgeDirty /\ edgeWal
     THEN buf' = <<>> /\ walFile' = NoFile /\ base' = mem
     ELSE UNCHANGED <<buf, walFile, base>>
  /\ edgeDirty' = FALSE
  /\ events' = events \cup If(edgeDirty /\ edgeWal /\ ~LogSaved, "dropped")
  /\ Goto(t, "ckptCreate")
  /\ UNCHANGED <<session, walOn, edgeWal, mem, inited, ckpt, temp, op, fd, histVars>>

\* No KvStore yet: flush_to_disk writes no checkpoint.
CkptSkip(t) ==
  /\ pc[t] = "ckptCreate" /\ ~inited
  /\ since' = [since EXCEPT ![t] = {mem}]
  /\ Goto(t, "ckptRecord")
  /\ UNCHANGED <<confVars, memVars, fileVars, op, fd, view, past, writes, crashes>>

\* write_kv_checkpoint copies the store and opens the temporary file, which
\* truncates it: a second flusher shares the file with the first.
CkptCreate(t) ==
  /\ pc[t] = "ckptCreate" /\ inited
  /\ temp' = Torn
  /\ fd' = [fd EXCEPT ![t] = "temp"]
  /\ since' = [since EXCEPT ![t] = {mem}]
  /\ Goto(t, "ckptWrite")
  /\ UNCHANGED <<confVars, memVars, walFile, ckpt, op, view, past, writes, crashes>>

\* The bytes go to whatever file the handle refers to by now.
CkptWrite(t) ==
  /\ pc[t] = "ckptWrite"
  /\ temp' = IF fd[t] = "temp" THEN mem ELSE temp
  /\ ckpt' = IF fd[t] = "ckpt" THEN mem ELSE ckpt
  /\ Goto(t, "ckptRename")
  /\ UNCHANGED <<confVars, memVars, walFile, op, fd, histVars>>

\* Mutant: the new checkpoint is never renamed into place.
CkptRename_Forgotten(t) ==
  /\ pc[t] = "ckptRename"
  /\ fd' = [fd EXCEPT ![t] = "none"]
  /\ Goto(t, "ckptRecord")
  /\ UNCHANGED <<confVars, memVars, walFile, ckpt, temp, op, histVars>>

\* rename(temp, checkpoint) fails, unnoticed, when temp has been renamed away.
CkptRename(t) ==
  /\ pc[t] = "ckptRename"
  /\ IF temp = NoFile
     THEN /\ fd' = [fd EXCEPT ![t] = "none"]
          /\ UNCHANGED <<ckpt, temp>>
     ELSE /\ ckpt' = temp
          /\ temp' = NoFile
          /\ fd' = [u \in Threads |->
                      CASE u = t -> "none"
                        [] u # t /\ fd[u] = "temp" -> "ckpt"
                        [] u # t /\ fd[u] = "ckpt" -> "gone"
                        [] OTHER -> fd[u]]
  /\ Goto(t, "ckptRecord")
  /\ UNCHANGED <<confVars, memVars, walFile, op, histVars>>

\* Mutant: a failed write is followed by the rename.
CkptFails_ThenRenames(t) ==
  /\ IoErrors
  /\ pc[t] = "ckptWrite"
  /\ Goto(t, "ckptRename")
  /\ UNCHANGED <<confVars, memVars, fileVars, op, fd, histVars>>

\* flush_to_disk ignores the result of write_kv_checkpoint.
CkptFails(t) ==
  /\ IoErrors
  /\ pc[t] = "ckptWrite"
  /\ fd' = [fd EXCEPT ![t] = "none"]
  /\ Goto(t, "ckptRecord")
  /\ UNCHANGED <<confVars, memVars, fileVars, op, histVars>>

\* checkpoint(): a Checkpoint record, if there is a log.
CkptRecord(t) ==
  /\ pc[t] = "ckptRecord" /\ walOn
  /\ AppendLog(Marker)
  /\ Goto(t, "walFlush")
  /\ UNCHANGED <<confVars, mem, inited, edgeDirty, ckpt, temp, op, fd, histVars>>

NoLogToFlush(t) ==
  /\ pc[t] = "ckptRecord" /\ ~walOn
  /\ FlushReturns(t)
  /\ UNCHANGED <<confVars, memVars, fileVars, op, fd, view, writes, crashes>>

\* A failing log write ends the flush with an error.
LogFails(t) ==
  /\ IoErrors
  /\ \/ pc[t] = "ckptRecord" /\ walOn /\ LogWriteFails(Append(buf, Marker))
     \/ pc[t] = "walFlush" /\ buf # <<>> /\ LogWriteFails(buf)
  /\ Goto(t, "idle")
  /\ since' = [since EXCEPT ![t] = {}]
  /\ UNCHANGED <<confVars, mem, inited, edgeDirty, ckpt, temp, op, fd,
                 view, past, writes, crashes>>

WalFlush(t) ==
  /\ pc[t] = "walFlush"
  /\ walFile' = FlushLog(walFile, buf)
  /\ buf' = <<>>
  /\ Goto(t, "truncate")
  /\ UNCHANGED <<confVars, mem, inited, edgeDirty, ckpt, temp, op, fd, histVars>>

\* WALWriter::truncate removes the file, whatever it holds by now.
WalTruncate(t) ==
  /\ pc[t] = "truncate"
  /\ walFile' = NoFile
  /\ base' = mem
  /\ FlushReturns(t)
  /\ UNCHANGED <<session, events, walOn, edgeWal, memVars, ckpt, temp, op, fd, view, writes, crashes>>

-----------------------------------------------------------------------------
(* Crash and open *)

\* The bytes a thread may be writing to the log when the process dies.
InFlight ==
  UNION { CASE pc[t] = "append"     -> {Append(buf, op[t])}
            [] pc[t] = "walFlush"   -> {buf} \ {<<>>}
            [] pc[t] = "ckptRecord" -> IF walOn THEN {Append(buf, Marker)} ELSE {}
            [] pc[t] = "edgeFlush"  -> IF edgeDirty /\ edgeWal
                                       THEN {Append(buf, Marker)} ELSE {}
            [] OTHER -> {} : t \in Threads }

AfterTornWrite == {Extend(walFile, p) : p \in UNION {Beginnings(r) : r \in InFlight}}

\* The process is gone and its memory with it.
MemoryLost ==
  /\ session' = "down"
  /\ mem' = Empty /\ inited' = FALSE /\ edgeDirty' = FALSE /\ buf' = <<>>
  /\ pc' = [t \in Threads |-> "idle"]
  /\ op' = [t \in Threads |-> Marker]
  /\ fd' = [t \in Threads |-> "none"]
  /\ since' = [t \in Threads |-> {}]
  /\ UNCHANGED <<events, walOn, edgeWal, base, view, past, writes>>

Crash ==
  /\ session # "down" /\ crashes < MaxCrashes
  /\ walFile' \in {walFile} \cup AfterTornWrite
  /\ crashes' = crashes + 1
  /\ MemoryLost
  /\ UNCHANGED <<ckpt, temp>>

\* Drop has flushed and synced the header; the buffered log, if any is left,
\* is dropped with the writer.
Closed ==
  /\ session = "closing" /\ \A t \in Threads : pc[t] = "idle"
  /\ MemoryLost
  /\ UNCHANGED <<fileVars, crashes>>

\* WALWriter::new reads and validates the header of an existing log.
OpenRefused ==
  /\ session = "down"
  /\ walFile # NoFile /\ ~walFile.hdr
  /\ events' = events \cup {"refused"}
  /\ UNCHANGED <<session, walOn, edgeWal, base, memVars, fileVars, pc, op, fd, histVars>>

Opened(store, found) ==
  /\ mem' = store
  /\ inited' = found
  /\ base' = store
  /\ view' = store
  /\ past' = {store}

\* A log with at least one KV record hides the checkpoint; a corrupt
\* checkpoint is deleted and counts as none.  The file keeps its bytes and
\* later records join them; from here on recs is what they were found to say,
\* which the bytes settle.
Open ==
  /\ session = "down"
  /\ walFile # NoFile => walFile.hdr
  /\ session' = "up"
  /\ walOn' = (walFile # NoFile)
  /\ edgeWal' = (walFile # NoFile)
  /\ edgeDirty' = FALSE
  /\ buf' = <<>>
  /\ \E read \in Readings(FileRecords) :
       /\ walFile' = IF walFile = NoFile THEN NoFile ELSE [walFile EXCEPT !.recs = read]
       /\ \/ /\ KvIndices(read) # {}
             /\ Opened(Replay(read), TRUE)
             /\ events' = events \cup If(Replay(read) # Told,
                                         IF read = FileRecords THEN "hidden" ELSE "garbled")
             /\ UNCHANGED ckpt
          \/ /\ KvIndices(read) = {}
             /\ IF ckpt \in {NoFile, Torn}
                THEN Opened(Empty, FALSE) /\ ckpt' = NoFile
                ELSE Opened(ckpt, TRUE) /\ UNCHANGED ckpt
             /\ events' = events \cup If(KvIndices(FileRecords) # {}, "garbled")
  /\ UNCHANGED <<temp, pc, op, fd, since, writes, crashes>>

-----------------------------------------------------------------------------
KvStep(t) ==
  \/ \E k \in Keys, v \in Values : KvWrite(t, k, v) \/ KvWriteV3(t, k, v)
  \/ KvAppend(t) \/ KvAppendFails(t) \/ KvEmit(t)
  \/ InsertEdge(t)

FlushStep(t) ==
  \/ FlushStart(t) \/ Close(t) \/ EdgeFlush(t)
  \/ CkptSkip(t) \/ CkptCreate(t) \/ CkptWrite(t) \/ CkptRename(t) \/ CkptFails(t)
  \/ CkptRecord(t) \/ NoLogToFlush(t) \/ WalFlush(t) \/ LogFails(t) \/ WalTruncate(t)

Next ==
  \/ \E t \in Threads : KvStep(t) \/ FlushStep(t)
  \/ Crash \/ Closed \/ OpenRefused \/ Open

Spec == Init /\ [][Next]_vars

-----------------------------------------------------------------------------
(* Properties *)

\* A crash falls back to a store that was visible at some moment since the
\* last completed flush began, and a store that a reopen has shown is never
\* replaced by an older one later; until open() replays a log that continued a
\* store with other keys, which it hides, or misreads records that were written
\* behind a torn write, or the edge store drops a log that is not in the
\* checkpoint yet.
Durable == INSTANCE KvDurable WITH
             up <- session # "down", cur <- mem, recoverable <- past
Spoilt == events \cap {"hidden", "garbled", "dropped"} # {}
RecoversRecentStore == Durable!Init /\ [][Durable!Next \/ Spoilt']_(Durable!vars)

\* Whenever no write is in progress, a subscriber that rereads a key on every
\* KvChanged event knows the store, deleted keys included.
SubscriberConverges ==
  session = "up" /\ (\A t \in Threads : pc[t] \notin {"append", "emit"}) => view = mem

\* open() accepts every log file that the program itself leaves behind.
OpenAlwaysAccepts == "refused" \notin events

\* With no write in progress, the log, as open() found it and with what was
\* written since, tells of every key it mentions the value the store holds:
\* replay order is memory order.
LoggedRecords == FileRecords \o buf
LogAgreesWithStore ==
  session = "up" /\ (\A t \in Threads : pc[t] \notin {"append", "emit"}) =>
    \A k \in Keys :
      Mentions(LoggedRecords, k) => Replay(LoggedRecords)[k] = mem[k]

\* A crash finds either the old checkpoint or the new one, never a torn one.
CheckpointNeverTorn == ckpt # Torn

\* The log file is removed only when the checkpoint holds what the file says.
TruncateKeepsLoggedData ==
  [][\A t \in Threads : WalTruncate(t) => LogSaved]_vars
=============================================================================
