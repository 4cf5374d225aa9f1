--------------------------- MODULE KvEngine_proofs ---------------------------
(***************************************************************************)
(* Theorems about KvEngine for every choice of its constants.              *)
(***************************************************************************)
EXTENDS KvEngine, SequenceTheorems, WellFoundedInduction, TLAPS

\* A non-empty set of positions in a sequence has a greatest element: the order
\* from the end is well-founded.
LEMMA GreatestPosition ==
  ASSUME NEW n \in Nat, NEW T, T \subseteq 1..n, T # {}
  PROVE  \E x \in T : \A y \in T : y <= x
<1> DEFINE LT == OpToRel(<, Nat)
<1> DEFINE D == {n - i : i \in T}
<1>1. \A x, y \in Nat : y < x => <<y, x>> \in LT
  BY DEF OpToRel
<1>2. IsWellFoundedOn(LT, Nat)
  BY NatLessThanWellFounded
<1>3. \A i \in T : i \in Int /\ n - i \in Nat
  OBVIOUS
<1>4. D \subseteq Nat /\ D # {}
  BY <1>3, Zenon
<1> HIDE DEF LT
<1>5. PICK d \in D : \A e \in D : ~(<<e, d>> \in LT)
  BY <1>2, <1>4, WFMin, Zenon
<1>6. PICK x \in T : d = n - x
  BY <1>5
<1>7. \A y \in T : ~(n - y < n - x)
  BY <1>1, <1>3, <1>5, <1>6, Zenon
<1>8. \A y \in T : y <= x
  BY <1>3, <1>7
<1> QED
  BY <1>8, Zenon

-----------------------------------------------------------------------------
(* Operators of the log *)

\* Extending a log file with records gives a log file.
LEMMA ExtendType ==
  ASSUME NEW file \in LogFile \cup {NoFile},
         NEW recs \in Seq(Record)
  PROVE  Extend(file, recs) \in LogFile
<1>1. CASE file = NoFile
  BY <1>1 DEF Extend, LogFile
<1>2. CASE file # NoFile
  <2>1. file.recs \o recs \in Seq(Record)
    BY <1>2, ConcatProperties, Zenon DEF LogFile
  <2> QED
    BY <1>2, <2>1 DEF Extend, LogFile
<1> QED
  BY <1>1, <1>2

\* So does writing out the buffer, unless there is neither file nor record.
LEMMA FlushLogType ==
  ASSUME NEW file \in LogFile \cup {NoFile},
         NEW recs \in Seq(Record)
  PROVE  FlushLog(file, recs) \in LogFile \cup {NoFile}
  BY ExtendType DEF FlushLog

\* An append leaves buffer and log file well formed.
LEMMA AppendLogType ==
  ASSUME TypeOK, NEW rec \in Record, AppendLog(rec)
  PROVE  /\ buf' \in Seq(Record)
         /\ walFile' \in LogFile \cup {NoFile}
<1>1. Append(buf, rec) \in Seq(Record) /\ <<>> \in Seq(Record)
  BY DEF TypeOK
<1>2. CASE buf' = Append(buf, rec) /\ UNCHANGED walFile
  BY <1>1, <1>2 DEF TypeOK
<1>3. CASE walFile' = FlushLog(walFile, Append(buf, rec)) /\ buf' = <<>>
  BY <1>1, <1>3, FlushLogType DEF TypeOK
<1> QED
  BY <1>2, <1>3 DEF AppendLog

LEMMA NoRecordsType == <<>> \in Seq(Record)
  OBVIOUS

LEMMA MarkerType == Marker \in Record /\ Fragment \in Record
  BY DEF Record

\* The store a log describes is a store.
LEMMA ReplayType ==
  ASSUME NEW recs \in Seq(Record)
  PROVE  Replay(recs) \in Store
<1> SUFFICES ASSUME NEW k \in Keys
             PROVE  Replay(recs)[k] \in Values
  BY DEF Replay, Store
<1> DEFINE idx == {i \in DOMAIN recs : recs[i].key = k}
           last == CHOOSE i \in idx : \A j \in idx : j <= i
<1>1. CASE idx = {}
  BY <1>1 DEF Replay, Values
<1>2. CASE \E i \in idx : \A j \in idx : j <= i
  <2>1. last \in idx
    BY <1>2
  <2>2. recs[last] \in Record
    BY <2>1
  <2>3. Replay(recs)[k] = recs[last].val
    BY <1>2, <2>1 DEF Replay
  <2>4. recs[last].key = k
    BY <2>1
  <2> QED
    BY <2>2, <2>3, <2>4, KvAssumption DEF Record, Marker, Fragment
<1>3. CASE idx # {}
  <2>1. Len(recs) \in Nat /\ idx \subseteq 1..Len(recs)
    OBVIOUS
  <2> QED
    BY <1>2, <1>3, <2>1, GreatestPosition
<1> QED
  BY <1>1, <1>3

\* A prefix of records is records.
LEMMA PrefixType ==
  ASSUME NEW recs \in Seq(Record), NEW p \in Prefixes(recs)
  PROVE  p \in Seq(Record)
<1>1. PICK n \in 0..Len(recs) : p = SubSeq(recs, 1, n)
  BY DEF Prefixes
<1>2. \A i \in 1..n : recs[i] \in Record
  BY <1>1
<1> QED
  BY <1>1, <1>2, SubSeqProperties

\* And so is a prefix with a part of one more.
LEMMA BeginningType ==
  ASSUME NEW recs \in Seq(Record), NEW p \in Beginnings(recs)
  PROVE  p \in Seq(Record)
<1>1. CASE p \in Prefixes(recs)
  BY <1>1, PrefixType
<1>2. ASSUME NEW q \in Prefixes(recs), p = Append(q, Fragment)
      PROVE  p \in Seq(Record)
  <2>1. q \in Seq(Record)
    BY PrefixType
  <2> QED
    BY <1>2, <2>1, MarkerType
<1> QED
  BY <1>1, <1>2 DEF Beginnings

\* A failing log write leaves buffer and file well formed.
LEMMA LogWriteFailsType ==
  ASSUME TypeOK, NEW pending \in Seq(Record), LogWriteFails(pending)
  PROVE  buf' \in Seq(Record) /\ walFile' \in LogFile \cup {NoFile}
<1>1. ASSUME NEW p \in Beginnings(pending)
      PROVE  Extend(walFile, p) \in LogFile
  BY BeginningType, ExtendType DEF TypeOK
<1> QED
  BY <1>1 DEF LogWriteFails, TypeOK

\* However a log is read, records are found, as many as it has.
LEMMA ReadingType ==
  ASSUME NEW recs \in Seq(Record), NEW read \in Readings(recs)
  PROVE  read \in Seq(Record) /\ DOMAIN read = DOMAIN recs
<1>1. PICK S \in InStep(recs) :
        read \in {[i \in DOMAIN recs |-> IF i \in Unread(recs, S) THEN f[i] ELSE recs[i]] :
                    f \in Misread(recs, Unread(recs, S))}
  BY DEF Readings
<1>2. PICK f \in Misread(recs, Unread(recs, S)) :
        read = [i \in DOMAIN recs |-> IF i \in Unread(recs, S) THEN f[i] ELSE recs[i]]
  BY <1>1
<1>3. f \in [Unread(recs, S) -> Record]
  BY DEF Misread
<1>4. Len(recs) \in Nat /\ DOMAIN recs = 1..Len(recs)
  OBVIOUS
<1>5. \A i \in DOMAIN recs : read[i] \in Record
  <2>1. \A i \in DOMAIN recs : recs[i] \in Record
    OBVIOUS
  <2> QED
    BY <1>2, <1>3, <2>1
<1> QED
  BY <1>2, <1>4, <1>5, SeqDef

\* A log with no fragment in front of a record can be read in one way only, as it
\* was written: the reader is in step at the first record, and at each next one.
LEMMA WholeLogIsRead ==
  ASSUME NEW recs \in Seq(Record),
         \A i \in DOMAIN recs : recs[i] = Fragment => i = Len(recs),
         NEW read \in Readings(recs)
  PROVE  read = recs
<1>1. PICK S \in InStep(recs) :
        read \in {[i \in DOMAIN recs |-> IF i \in Unread(recs, S) THEN f[i] ELSE recs[i]] :
                    f \in Misread(recs, Unread(recs, S))}
  BY DEF Readings
<1>2. Len(recs) \in Nat /\ DOMAIN recs = 1..Len(recs)
  OBVIOUS
<1> DEFINE late == DOMAIN recs \ S
<1>3. late = {}
  <2> SUFFICES ASSUME late # {}
               PROVE  FALSE
    OBVIOUS
  <2> DEFINE LT == OpToRel(<, Nat)
  <2>1. late \subseteq Nat
    BY <1>2
  <2>2. \A x, y \in Nat : y < x => <<y, x>> \in LT
    BY DEF OpToRel
  <2>0. IsWellFoundedOn(LT, Nat)
    BY NatLessThanWellFounded
  <2> HIDE DEF LT, late
  <2>3. PICK i \in late : \A j \in late : ~(<<j, i>> \in LT)
    BY <2>1, <2>0, WFMin, Zenon
  <2> USE DEF late
  <2>4. i \in 1..Len(recs) /\ i \notin S
    BY <1>2
  <2>5. i # 1
    BY <2>4, <1>2 DEF InStep
  <2>6. i - 1 \in 1..Len(recs) /\ i - 1 < i /\ i - 1 \in Nat
    BY <1>2, <2>4, <2>5
  <2>7. i - 1 \in S
    BY <1>2, <2>1, <2>2, <2>3, <2>6
  <2>8. recs[i - 1] # Fragment
    BY <1>2, <2>4, <2>6
  <2> QED
    BY <1>2, <2>4, <2>7, <2>8 DEF InStep
<1>4. Unread(recs, S) = {}
  BY <1>3 DEF Unread
<1>5. read = [i \in DOMAIN recs |-> recs[i]]
  BY <1>1, <1>4
<1> QED
  BY <1>2, <1>5

\* What a crash may find of a log write in progress is a log file.
LEMMA TornWriteType ==
  ASSUME TypeOK, NEW file \in AfterTornWrite
  PROVE  file \in LogFile
<1>1. InFlight \subseteq Seq(Record)
  <2> SUFFICES ASSUME NEW recs \in InFlight
               PROVE  recs \in Seq(Record)
    OBVIOUS
  <2>1. \A t \in Threads : Append(buf, op[t]) \in Seq(Record)
    BY DEF TypeOK
  <2>2. Append(buf, Marker) \in Seq(Record) /\ buf \in Seq(Record)
    BY MarkerType DEF TypeOK
  <2>3. PICK t \in Threads :
          \/ recs = Append(buf, op[t])
          \/ recs = buf
          \/ recs = Append(buf, Marker)
    BY DEF InFlight
  <2> QED
    BY <2>1, <2>2, <2>3
<1>2. PICK recs \in InFlight : \E p \in Beginnings(recs) : file = Extend(walFile, p)
  BY DEF AfterTornWrite
<1>3. ASSUME NEW p \in Beginnings(recs)
      PROVE  p \in Seq(Record)
  BY <1>1, <1>2, BeginningType
<1> QED
  BY <1>2, <1>3, ExtendType DEF TypeOK

-----------------------------------------------------------------------------
(* Type correctness *)

LEMMA EmptyType == Empty \in Store
  BY DEF Empty, Store, Values

\* Noting an event leaves the history a set of events.
LEMMA EventsType ==
  ASSUME NEW condition, NEW event \in Events, TypeOK
  PROVE  events \cup If(condition, event) \subseteq Events
  BY DEF If, TypeOK

LEMMA TypeInit == Init => TypeOK
<1> SUFFICES ASSUME Init
             PROVE  TypeOK
  OBVIOUS
<1>1. walFile \in LogFile \cup {NoFile}
  BY DEF Init, LogFile
<1>2. {walOn, edgeWal, inited, edgeDirty} \subseteq BOOLEAN /\ events \subseteq Events
  BY KvAssumption DEF Init
<1>3. /\ pc \in [Threads -> Labels]
      /\ op \in [Threads -> Record]
      /\ fd \in [Threads -> Handles]
      /\ since \in [Threads -> SUBSET Store]
  BY MarkerType DEF Init, Labels, Handles
<1>4. writes \in 0..MaxWrites /\ crashes \in 0..MaxCrashes
  BY KvAssumption DEF Init
<1> QED
  BY <1>1, <1>2, <1>3, <1>4, EmptyType DEF Init, TypeOK

LEMMA TypeWrites ==
  ASSUME TypeOK, NEW t \in Threads, KvStep(t)
  PROVE  TypeOK'
<1>1. ASSUME NEW k \in Keys, NEW v \in Values, PutStore(k, v), writes < MaxWrites
      PROVE  /\ mem' \in Store
             /\ inited' \in BOOLEAN
             /\ past' \subseteq Store
             /\ since' \in [Threads -> SUBSET Store]
             /\ writes' \in 0..MaxWrites
  <2>1. mem' \in Store
    BY <1>1 DEF PutStore, TypeOK, Store
  <2>2. past' \subseteq Store
    BY <1>1, <2>1 DEF PutStore, TypeOK
  <2>3. \A u \in Threads : since[u] \subseteq Store /\ since[u] \cup {mem'} \subseteq Store
    BY <2>1 DEF TypeOK
  <2>4. since' \in [Threads -> SUBSET Store]
    BY <1>1, <2>3 DEF PutStore
  <2>5. writes' \in 0..MaxWrites /\ inited' \in BOOLEAN
    BY <1>1, KvAssumption DEF PutStore, TypeOK
  <2> QED
    BY <2>1, <2>2, <2>4, <2>5
<1>2. ASSUME NEW k \in Keys, NEW v \in Values, KvWrite(t, k, v)
      PROVE  TypeOK'
  <2>1. KvRecord(k, v) \in Record
    BY DEF KvRecord, Record
  <2> QED
    BY <1>1, <1>2, <2>1 DEF KvWrite, TypeOK, Labels, confVars, fileVars
<1>3. ASSUME NEW k \in Keys, NEW v \in Values, KvWriteV3(t, k, v)
      PROVE  TypeOK'
  BY <1>1, <1>3 DEF KvWriteV3, TypeOK, confVars, fileVars
<1>4. CASE KvAppend(t)
  <2>1. op[t] \in Record
    BY DEF TypeOK
  <2> QED
    BY <1>4, <2>1, AppendLogType DEF KvAppend, TypeOK, Labels, confVars, histVars
<1>5. CASE KvAppendFails(t)
  <2>1. buf \in Seq(Record) /\ Append(buf, op[t]) \in Seq(Record)
    BY DEF TypeOK
  <2>2. buf' \in Seq(Record) /\ walFile' \in LogFile \cup {NoFile}
    BY <1>5, <2>1, LogWriteFailsType DEF KvAppendFails, TypeOK
  <2> QED
    BY <1>5, <2>2, MarkerType DEF KvAppendFails, TypeOK, Labels, confVars, histVars
<1>6. CASE KvEmit(t)
  <2>1. mem[op[t].key] \in Values \/ op[t].key \notin Keys
    BY DEF TypeOK, Store
  <2>2. view' \in Store
    BY <1>6, <2>1 DEF KvEmit, TypeOK, Store
  <2> QED
    BY <1>6, <2>2, MarkerType DEF KvEmit, TypeOK, Labels, confVars, memVars, fileVars
<1>7. CASE InsertEdge(t)
  <2>1. CASE edgeWal
    BY <1>7, <2>1, MarkerType, AppendLogType DEF InsertEdge, TypeOK, confVars, histVars
  <2>2. CASE ~edgeWal
    BY <1>7, <2>2 DEF InsertEdge, TypeOK, confVars, histVars
  <2> QED
    BY <2>1, <2>2
<1> QED
  BY <1>2, <1>3, <1>4, <1>5, <1>6, <1>7 DEF KvStep

LEMMA TypeFlush ==
  ASSUME TypeOK, NEW t \in Threads, FlushStep(t)
  PROVE  TypeOK'
<1>1. CASE FlushStart(t)
  BY <1>1 DEF FlushStart, Goto, TypeOK, Labels, confVars, memVars, fileVars, histVars
<1>2. CASE Close(t)
  BY <1>2 DEF Close, Goto, TypeOK, Labels, memVars, fileVars, histVars
<1>3. CASE EdgeFlush(t)
  <2>1. /\ buf' \in Seq(Record)
        /\ walFile' \in LogFile \cup {NoFile}
    BY <1>3, NoRecordsType, Zenon DEF EdgeFlush, TypeOK
  <2>2. edgeDirty' \in BOOLEAN /\ pc' \in [Threads -> Labels]
    BY <1>3 DEF EdgeFlush, Goto, TypeOK, Labels
  <2>3. events' \subseteq Events
    BY <1>3, EventsType DEF EdgeFlush, Events
  <2> QED
    BY <1>3, <2>1, <2>2, <2>3 DEF EdgeFlush, TypeOK, histVars
<1>4. ASSUME since' = [since EXCEPT ![t] = {mem}]
      PROVE  since' \in [Threads -> SUBSET Store]
  BY <1>4 DEF TypeOK
<1>5. CASE CkptSkip(t)
  BY <1>4, <1>5 DEF CkptSkip, Goto, TypeOK, Labels, confVars, memVars, fileVars
<1>6. CASE CkptCreate(t)
  BY <1>4, <1>6 DEF CkptCreate, Goto, TypeOK, Labels, Handles, confVars, memVars
<1>7. CASE CkptWrite(t)
  BY <1>7 DEF CkptWrite, Goto, TypeOK, Labels, confVars, memVars, histVars
<1>8. CASE CkptRename(t)
  BY <1>8 DEF CkptRename, Goto, TypeOK, Labels, Handles, confVars, memVars, histVars
<1>9. CASE CkptFails(t)
  BY <1>9 DEF CkptFails, Goto, TypeOK, Labels, Handles, confVars, memVars, fileVars, histVars
<1>10. CASE CkptRecord(t)
  BY <1>10, MarkerType, AppendLogType
  DEF CkptRecord, Goto, TypeOK, Labels, confVars, histVars
<1>11. ASSUME FlushReturns(t)
       PROVE  /\ pc' \in [Threads -> Labels]
              /\ past' \subseteq Store
              /\ since' \in [Threads -> SUBSET Store]
  BY <1>11 DEF FlushReturns, Goto, TypeOK, Labels
<1>12. CASE NoLogToFlush(t)
  BY <1>11, <1>12 DEF NoLogToFlush, TypeOK, confVars, memVars, fileVars
<1>13. CASE WalFlush(t)
  <2>1. walFile' \in LogFile \cup {NoFile} /\ buf' \in Seq(Record)
    BY <1>13, FlushLogType DEF WalFlush, TypeOK
  <2> QED
    BY <1>13, <2>1 DEF WalFlush, Goto, TypeOK, Labels, confVars, histVars
<1>14. CASE WalTruncate(t)
  BY <1>11, <1>14 DEF WalTruncate, TypeOK, confVars, memVars
<1>15. CASE LogFails(t)
  <2>1. buf \in Seq(Record) /\ Append(buf, Marker) \in Seq(Record)
    BY MarkerType DEF TypeOK
  <2>2. buf' \in Seq(Record) /\ walFile' \in LogFile \cup {NoFile}
    BY <1>15, <2>1, LogWriteFailsType DEF LogFails
  <2>3. since' \in [Threads -> SUBSET Store]
    BY <1>15 DEF LogFails, TypeOK
  <2> QED
    BY <1>15, <2>2, <2>3 DEF LogFails, Goto, TypeOK, Labels, confVars
<1> QED
  BY <1>1, <1>2, <1>3, <1>5, <1>6, <1>7, <1>8, <1>9, <1>10, <1>12, <1>13, <1>14, <1>15
  DEF FlushStep

LEMMA TypeStop ==
  ASSUME TypeOK, Crash \/ Closed
  PROVE  TypeOK'
<1> MemoryLost
  BY DEF Crash, Closed
<1>1. /\ pc' \in [Threads -> Labels]
      /\ op' \in [Threads -> Record]
      /\ fd' \in [Threads -> Handles]
      /\ since' \in [Threads -> SUBSET Store]
      /\ mem' \in Store
      /\ session' \in {"up", "closing", "down"}
      /\ inited' \in BOOLEAN /\ edgeDirty' \in BOOLEAN
  BY MarkerType, EmptyType DEF MemoryLost, Labels, Handles
<1> buf' \in Seq(Record)
  BY NoRecordsType, Zenon DEF Crash, Closed, MemoryLost
<1>2. CASE Crash
  <2>1. walFile' \in LogFile \cup {NoFile}
    BY <1>2, TornWriteType DEF Crash, TypeOK
  <2>2. crashes' \in 0..MaxCrashes
    BY <1>2, KvAssumption DEF Crash, TypeOK
  <2>3. UNCHANGED <<events, walOn, edgeWal, base, view, past, writes, ckpt, temp>>
    BY <1>2 DEF Crash, MemoryLost
  <2> QED
    BY <1>1, <2>1, <2>2, <2>3 DEF TypeOK
<1>3. CASE Closed
  <2>1. UNCHANGED <<events, walOn, edgeWal, base, view, past, writes, fileVars, crashes>>
    BY <1>3 DEF Closed, MemoryLost
  <2> QED
    BY <1>1, <2>1 DEF TypeOK, fileVars
<1> QED
  BY <1>2, <1>3

LEMMA TypeOpen ==
  ASSUME TypeOK, OpenRefused \/ Open
  PROVE  TypeOK'
<1>1. CASE OpenRefused
  BY <1>1 DEF OpenRefused, TypeOK, Events, memVars, fileVars, histVars
<1>2. CASE Open
  <2>1. FileRecords \in Seq(Record)
    BY DEF FileRecords, TypeOK, LogFile
  <2> DEFINE Found(read) ==
        /\ walFile' = IF walFile = NoFile THEN NoFile ELSE [walFile EXCEPT !.recs = read]
        /\ \/ Opened(Replay(read), TRUE) /\ UNCHANGED ckpt
           \/ Opened(Empty, FALSE) /\ ckpt' = NoFile
           \/ ckpt \notin {NoFile, Torn} /\ Opened(ckpt, TRUE) /\ UNCHANGED ckpt
  <2>2. \E read \in Readings(FileRecords) : Found(read)
    BY <1>2 DEF Open
  <2>3. PICK read \in Readings(FileRecords) : Found(read)
    BY <2>2
  <2>4. read \in Seq(Record)
    BY <2>1, ReadingType
  <2>5. walFile' \in LogFile \cup {NoFile}
    BY <2>3, <2>4 DEF TypeOK, LogFile
  <2>6. /\ {base', mem', view'} \subseteq Store /\ past' \subseteq Store
        /\ inited' \in BOOLEAN
        /\ ckpt' \in Store \cup {NoFile, Torn}
    BY <2>3, <2>4, ReplayType, EmptyType DEF Opened, TypeOK
  <2>7. /\ session' \in {"up", "closing", "down"}
        /\ walOn' \in BOOLEAN /\ edgeWal' \in BOOLEAN /\ edgeDirty' \in BOOLEAN
    BY <1>2 DEF Open
  <2> buf' \in Seq(Record)
    BY <1>2, NoRecordsType, Zenon DEF Open
  <2>8. UNCHANGED <<temp, pc, op, fd, since, writes, crashes>>
    BY <1>2 DEF Open
  <2>9. events' \subseteq Events
    BY <1>2 DEF Open, TypeOK, Events, If
  <2> HIDE DEF Found
  <2> QED
    BY <2>5, <2>6, <2>7, <2>8, <2>9 DEF TypeOK
<1> QED
  BY <1>1, <1>2

LEMMA TypeStep ==
  ASSUME TypeOK, [Next]_vars
  PROVE  TypeOK'
<1>1. CASE Next
  BY <1>1, TypeWrites, TypeFlush, TypeStop, TypeOpen DEF Next
<1>2. CASE UNCHANGED vars
  BY <1>2 DEF vars, TypeOK
<1> QED
  BY <1>1, <1>2

\* Every reachable state is well formed: in particular the store, whatever a
\* crash cuts short and whichever of log and checkpoint recovery reads, gives
\* each key a value or the tombstone.
THEOREM TypeCorrect == Spec => []TypeOK
<1>1. TypeOK /\ [Next]_vars => TypeOK'
  BY TypeStep
<1> QED
  BY <1>1, TypeInit, PTL DEF Spec

-----------------------------------------------------------------------------
(* One flush at a time: the checkpoint is replaced atomically *)

OneFlusher == \A t, u \in Flushers : t = u

FlushLabels == Labels \ {"idle", "append", "emit"}

\* Flushes do not overlap: in a running backend they are calls of the one
\* flusher, in a closing one there is only Drop's.
FlushesAlone ==
  /\ \A t \in Threads : pc[t] \in FlushLabels => session = "closing" \/ t \in Flushers
  /\ \A t, u \in Threads : pc[t] \in FlushLabels /\ pc[u] \in FlushLabels => t = u

\* A handle is open between CkptCreate and the rename, refers to the temporary
\* file, and what is about to be renamed has been written completely.
HandleOwned ==
  \A t \in Threads :
    /\ fd[t] = IF pc[t] \in {"ckptWrite", "ckptRename"} THEN "temp" ELSE "none"
    /\ pc[t] = "ckptRename" => temp \in Store

CheckpointInv == TypeOK /\ FlushesAlone /\ HandleOwned /\ CheckpointNeverTorn

LEMMA CheckpointInit == Init => CheckpointInv
<1> SUFFICES ASSUME Init
             PROVE  CheckpointInv
  OBVIOUS
<1>1. \A t \in Threads : pc[t] = "idle" /\ fd[t] = "none"
  BY DEF Init
<1>2. ckpt # Torn
  BY KvAssumption DEF Init
<1> QED
  BY <1>1, <1>2, TypeInit
  DEF CheckpointInv, FlushesAlone, HandleOwned, CheckpointNeverTorn, FlushLabels

LEMMA CheckpointStep ==
  ASSUME OneFlusher, CheckpointInv, [Next]_vars
  PROVE  CheckpointInv'
<1> USE DEF CheckpointInv, FlushesAlone, HandleOwned, CheckpointNeverTorn, FlushLabels
<1>1. TypeOK'
  BY TypeStep
<1>2. ASSUME NEW t \in Threads, KvStep(t)
      PROVE  CheckpointInv'
  <2>1. UNCHANGED <<session, ckpt, temp, fd>>
    BY <1>2 DEF KvStep, KvWrite, KvWriteV3, KvAppend, KvAppendFails, KvEmit, InsertEdge,
                confVars, fileVars
  <2>2. /\ \A u \in Threads \ {t} : pc'[u] = pc[u]
        /\ pc'[t] \notin FlushLabels \/ pc'[t] = pc[t]
    BY <1>2 DEF KvStep, KvWrite, KvWriteV3, KvAppend, KvAppendFails, KvEmit, InsertEdge, TypeOK
  <2>3. pc[t] \notin FlushLabels
    BY <1>2 DEF KvStep, KvWrite, KvWriteV3, KvAppend, KvAppendFails, KvEmit, InsertEdge
  <2>4. \A u \in Threads : pc'[u] = pc[u] \/ (pc[u] \notin FlushLabels /\ pc'[u] \notin FlushLabels)
    BY <2>2, <2>3
  <2> QED
    BY <1>1, <2>1, <2>4 DEF Labels
<1>3. ASSUME NEW t \in Threads, FlushStep(t)
      PROVE  CheckpointInv'
  <2> USE DEF Goto, TypeOK
  <2>1. CASE FlushStart(t)
    BY <1>1, <2>1 DEF OneFlusher, FlushStart, confVars, fileVars
  <2>2. CASE Close(t)
    BY <1>1, <2>2 DEF Close, fileVars
  <2>3. CASE EdgeFlush(t)
    BY <1>1, <2>3 DEF EdgeFlush, Labels, confVars
  <2>4. CASE CkptSkip(t)
    BY <1>1, <2>4 DEF CkptSkip, Labels, confVars, fileVars
  <2>5. CASE CkptCreate(t)
    BY <1>1, <2>5 DEF CkptCreate, Labels, confVars
  <2>6. CASE CkptWrite(t)
    BY <1>1, <2>6 DEF CkptWrite, Labels, confVars
  <2>7. CASE CkptRename(t)
    <3>1. temp \in Store /\ temp # NoFile /\ temp # Torn
      BY <2>7, KvAssumption DEF CkptRename, Store, Values
    <3>2. \A u \in Threads \ {t} : fd[u] = "none"
      BY <2>7 DEF CkptRename, Labels
    <3>3. \A u \in Threads : fd'[u] = "none"
      BY <2>7, <3>1, <3>2 DEF CkptRename
    <3>4. \A u \in Threads : pc'[u] = IF u = t THEN "ckptRecord" ELSE pc[u]
      BY <2>7 DEF CkptRename
    <3>5. ckpt' # Torn /\ UNCHANGED session
      BY <2>7, <3>1 DEF CkptRename, confVars
    <3>6. \A u \in Threads : pc'[u] \notin {"ckptWrite", "ckptRename"}
      BY <2>7, <3>4 DEF CkptRename, Labels
    <3>7. FlushesAlone'
      BY <2>7, <3>4, <3>5 DEF CkptRename, Labels
    <3> QED
      BY <1>1, <3>3, <3>5, <3>6, <3>7
  <2>8. CASE CkptFails(t)
    BY <1>1, <2>8 DEF CkptFails, Labels, confVars, fileVars
  <2>9. CASE CkptRecord(t) \/ WalFlush(t)
    <3>1. UNCHANGED <<session, ckpt, temp, fd>>
      BY <2>9 DEF CkptRecord, WalFlush, confVars
    <3>2. \A u \in Threads \ {t} : pc'[u] = pc[u]
      BY <2>9 DEF CkptRecord, WalFlush
    <3>3. pc[t] \in {"ckptRecord", "walFlush"} /\ pc'[t] \in {"walFlush", "truncate"}
      BY <2>9 DEF CkptRecord, WalFlush
    <3> QED
      BY <1>1, <3>1, <3>2, <3>3 DEF Labels
  <2>10. CASE NoLogToFlush(t) \/ WalTruncate(t)
    BY <1>1, <2>10 DEF NoLogToFlush, WalTruncate, FlushReturns, Labels, confVars, fileVars
  <2>11. CASE LogFails(t)
    <3>1. UNCHANGED <<session, ckpt, temp, fd>>
      BY <2>11 DEF LogFails, confVars
    <3>2. pc[t] \in {"ckptRecord", "walFlush"} /\ pc' = [pc EXCEPT ![t] = "idle"]
      BY <2>11 DEF LogFails
    <3> QED
      BY <1>1, <3>1, <3>2 DEF Labels
  <2> QED
    BY <1>3, <2>1, <2>2, <2>3, <2>4, <2>5, <2>6, <2>7, <2>8, <2>9, <2>10, <2>11 DEF FlushStep
<1>4. CASE Crash \/ Closed
  BY <1>1, <1>4 DEF Crash, Closed, MemoryLost, fileVars
<1>5. CASE OpenRefused
  BY <1>1, <1>5 DEF OpenRefused, fileVars
<1>6. CASE Open
  <2>1. ckpt' # Torn
    BY <1>6, KvAssumption DEF Open
  <2>2. \A t \in Threads : pc[t] \in FlushLabels => t \in Flushers
    BY <1>6 DEF Open
  <2> QED
    BY <1>1, <1>6, <2>1, <2>2 DEF Open
<1>7. CASE UNCHANGED vars
  BY <1>1, <1>7 DEF vars
<1> QED
  BY <1>2, <1>3, <1>4, <1>5, <1>6, <1>7 DEF Next

\* When flushes are not concurrent, a crash at any point, failed checkpoint
\* writes included, finds the old checkpoint or the new one, never a torn one.
THEOREM CheckpointAtomic ==
  ASSUME OneFlusher
  PROVE  Spec => []CheckpointNeverTorn
<1>1. CheckpointInv /\ [Next]_vars => CheckpointInv'
  BY CheckpointStep
<1>2. CheckpointInv => CheckpointNeverTorn
  BY DEF CheckpointInv
<1> QED
  BY <1>1, <1>2, CheckpointInit, PTL DEF Spec

-----------------------------------------------------------------------------
(* Without a log: what a crash falls back to *)

\* The store that open() reads when there is no log.
OnDisk == IF ckpt \in {NoFile, Torn} THEN Empty ELSE ckpt

\* Nothing is ever logged.
LogUnused ==
  /\ ~walOn /\ ~edgeWal /\ walFile = NoFile
  /\ \A t \in Threads : pc[t] \notin {"append", "walFlush", "truncate"}

\* An open backend whose store was never created has no checkpoint either.
NoStoreNoCheckpoint == session # "down" /\ ~inited => mem = Empty /\ ckpt = NoFile

\* Both the visible store and the one on disk may be fallen back to.
BothRecoverable ==
  /\ OnDisk \in past
  /\ session # "down" => mem \in past

\* A flush that has copied the store keeps, until it returns, every store seen
\* since; and what it is about to publish, or has published, is among them.
FlushKeeps ==
  /\ session = "down" => \A t \in Threads : pc[t] = "idle"
  /\ \A t \in Threads :
       /\ IF Copied(t) THEN mem \in since[t] ELSE since[t] = {}
       /\ since[t] \subseteq past
       /\ pc[t] \in {"ckptWrite", "ckptRename"} => inited
       /\ pc[t] = "ckptRename" => temp \in since[t]
       /\ pc[t] = "ckptRecord" => OnDisk \in since[t]

DurableInv ==
  /\ CheckpointInv /\ LogUnused /\ NoStoreNoCheckpoint /\ BothRecoverable /\ FlushKeeps

\* While a write is between the store and its event, only its own key may be
\* unknown to the subscriber.
ViewInv ==
  session # "down" =>
    \A k \in Keys :
      view[k] = mem[k] \/ \E t \in Threads : pc[t] \in {"append", "emit"} /\ op[t].key = k

LEMMA NotStore ==
  /\ NoFile \notin Store /\ Torn \notin Store
  /\ NoFile # Torn
  BY KvAssumption DEF Store, Values

LEMMA DurableInit ==
  ASSUME ~WalEnabled, Init
  PROVE  DurableInv
<1>1. CheckpointInv
  BY CheckpointInit
<1>2. LogUnused /\ NoStoreNoCheckpoint /\ BothRecoverable /\ FlushKeeps
  BY DEF Init, LogUnused, NoStoreNoCheckpoint, BothRecoverable, FlushKeeps, OnDisk, Copied
<1> QED
  BY <1>1, <1>2 DEF DurableInv

LEMMA DurableWrites ==
  ASSUME ~IoErrors, DurableInv, NEW t \in Threads, KvStep(t)
  PROVE  (LogUnused /\ NoStoreNoCheckpoint /\ BothRecoverable /\ FlushKeeps)'
<1> USE DEF DurableInv, LogUnused, NoStoreNoCheckpoint, BothRecoverable, FlushKeeps, OnDisk
<1>1. ASSUME NEW k \in Keys, NEW v \in Values, PutStore(k, v), ~StoreLocked,
             session = "up", pc[t] = "idle",
             UNCHANGED <<confVars, fileVars>>,
             \/ UNCHANGED pc
             \/ pc' = [pc EXCEPT ![t] = "emit"]
      PROVE  (LogUnused /\ NoStoreNoCheckpoint /\ BothRecoverable /\ FlushKeeps)'
  <2>1. \A u \in Threads : pc'[u] = pc[u] \/ (u = t /\ pc'[u] = "emit")
    BY <1>1 DEF CheckpointInv, TypeOK
  <2>2. \A u \in Threads : pc[u] \notin {"ckptWrite", "ckptRename"}
    BY <1>1 DEF StoreLocked
  <2>3. /\ UNCHANGED <<session, walOn, edgeWal, walFile, ckpt, temp>>
        /\ session = "up"
    BY <1>1 DEF confVars, fileVars
  <2>4. inited' /\ past' = past \cup {mem'}
    BY <1>1 DEF PutStore
  <2>5. \A u \in Threads : since'[u] = IF Copied(u) THEN since[u] \cup {mem'} ELSE since[u]
    BY <1>1 DEF PutStore
  <2>6. \A u \in Threads : Copied(u)' <=> Copied(u)
    BY <1>1, <2>1 DEF Copied
  <2>7. LogUnused' /\ NoStoreNoCheckpoint'
    BY <1>1, <2>1, <2>3, <2>4
  <2>8. BothRecoverable'
    BY <2>3, <2>4
  <2>9. FlushKeeps'
    <3>1. ASSUME NEW u \in Threads
          PROVE  /\ IF Copied(u)' THEN mem' \in since'[u] ELSE since'[u] = {}
                 /\ since'[u] \subseteq past'
                 /\ pc'[u] \notin {"ckptWrite", "ckptRename"}
                 /\ pc'[u] = "ckptRecord" => OnDisk' \in since'[u]
      BY <2>1, <2>2, <2>3, <2>4, <2>5, <2>6
    <3> QED
      BY <2>3, <3>1
  <2> QED
    BY <2>7, <2>8, <2>9
<1>2. ASSUME NEW k \in Keys, NEW v \in Values, KvWrite(t, k, v) \/ KvWriteV3(t, k, v)
      PROVE  (LogUnused /\ NoStoreNoCheckpoint /\ BothRecoverable /\ FlushKeeps)'
  BY <1>1, <1>2 DEF KvWrite, KvWriteV3
<1>3. CASE KvAppend(t) \/ KvAppendFails(t)
  BY <1>3 DEF KvAppend, KvAppendFails
<1>4. CASE KvEmit(t)
  <2>1. UNCHANGED <<confVars, memVars, fileVars, past, since>>
    BY <1>4 DEF KvEmit
  <2>2. /\ \A u \in Threads : pc'[u] = pc[u] \/ (u = t /\ pc'[u] = "idle")
        /\ \A u \in Threads : Copied(u)' <=> Copied(u)
    BY <1>4 DEF KvEmit, CheckpointInv, TypeOK, Copied
  <2> QED
    BY <2>1, <2>2 DEF confVars, memVars, fileVars
<1>5. CASE InsertEdge(t)
  <2>1. /\ UNCHANGED <<session, walOn, edgeWal, mem, inited, walFile, ckpt, temp>>
        /\ UNCHANGED <<pc, past, since>>
    BY <1>5 DEF InsertEdge, confVars, histVars
  <2> QED
    BY <2>1 DEF Copied
<1> QED
  BY <1>2, <1>3, <1>4, <1>5 DEF KvStep

LEMMA DurableFlush ==
  ASSUME ~IoErrors, DurableInv, NEW t \in Threads, FlushStep(t)
  PROVE  (LogUnused /\ NoStoreNoCheckpoint /\ BothRecoverable /\ FlushKeeps)'
<1> USE DEF DurableInv, LogUnused, NoStoreNoCheckpoint, BothRecoverable, FlushKeeps, OnDisk
<1> pc \in [Threads -> Labels] /\ since \in [Threads -> SUBSET Store]
  BY DEF CheckpointInv, TypeOK
<1>1. CASE FlushStart(t) \/ Close(t) \/ EdgeFlush(t)
  <2>1. /\ UNCHANGED <<walOn, edgeWal, mem, inited, walFile, ckpt, temp, past, since>>
        /\ session' = "down" <=> session = "down"
        /\ session = "down" => pc' = pc
    BY <1>1 DEF FlushStart, Close, EdgeFlush, confVars, memVars, fileVars, histVars
  <2>2. \A u \in Threads : pc'[u] = pc[u] \/ (u = t /\ pc'[u] \in {"edgeFlush", "ckptCreate"})
    BY <1>1 DEF FlushStart, Close, EdgeFlush, Goto
  <2>3. \A u \in Threads : Copied(u)' <=> Copied(u)
    BY <1>1, <2>2 DEF Copied, FlushStart, Close, EdgeFlush
  <2> QED
    BY <2>1, <2>2, <2>3
<1>2. CASE CkptSkip(t) \/ CkptCreate(t)
  <2>1. /\ UNCHANGED <<session, walOn, edgeWal, mem, inited, walFile, ckpt, past>>
        /\ since' = [since EXCEPT ![t] = {mem}]
        /\ session # "down"
    BY <1>2 DEF CkptSkip, CkptCreate, confVars, memVars, fileVars
  <2>2. \A u \in Threads : pc'[u] = pc[u] \/ (u = t /\ pc'[u] \in {"ckptRecord", "ckptWrite"})
    BY <1>2 DEF CkptSkip, CkptCreate, Goto
  <2>3. pc'[t] = "ckptRecord" => OnDisk' = mem
    BY <1>2, <2>1 DEF CkptSkip, CkptCreate, Goto
  <2>4. \A u \in Threads \ {t} : pc[u] # "ckptRename"
    BY <1>2 DEF CheckpointInv, FlushesAlone, FlushLabels, CkptSkip, CkptCreate, Labels
  <2>5. ASSUME NEW u \in Threads
        PROVE  /\ IF Copied(u)' THEN mem' \in since'[u] ELSE since'[u] = {}
               /\ since'[u] \subseteq past'
               /\ pc'[u] \in {"ckptWrite", "ckptRename"} => inited'
               /\ pc'[u] = "ckptRename" => temp' \in since'[u]
               /\ pc'[u] = "ckptRecord" => OnDisk' \in since'[u]
    <3>1. CASE u = t
      <4>1. since'[t] = {mem} /\ mem \in past
        BY <2>1
      <4>2. \/ pc'[t] = "ckptRecord"
            \/ pc'[t] = "ckptWrite" /\ inited
        BY <1>2 DEF CkptSkip, CkptCreate, Goto
      <4>3. Copied(t)'
        BY <4>2 DEF Copied
      <4> QED
        BY <2>1, <2>3, <3>1, <4>1, <4>2, <4>3
    <3>2. CASE u # t
      BY <2>1, <2>2, <2>4, <3>2 DEF Copied
    <3> QED
      BY <3>1, <3>2
  <2> QED
    BY <2>1, <2>2, <2>5
<1>3. CASE CkptWrite(t)
  <2>1. /\ UNCHANGED <<session, walOn, edgeWal, mem, inited, walFile, ckpt, past, since>>
        /\ temp' = mem
    BY <1>3, NotStore DEF CkptWrite, CheckpointInv, HandleOwned, confVars, memVars, histVars
  <2>2. \A u \in Threads : pc'[u] = IF u = t THEN "ckptRename" ELSE pc[u]
    BY <1>3 DEF CkptWrite, Goto
  <2>3. \A u \in Threads \ {t} : pc[u] # "ckptRename"
    BY <1>3 DEF CheckpointInv, FlushesAlone, FlushLabels, CkptWrite, Labels
  <2>4. mem \in since[t]
    BY <1>3 DEF CkptWrite, Copied
  <2>5. \A u \in Threads : Copied(u)' <=> Copied(u)
    BY <1>3, <2>2 DEF Copied, CkptWrite
  <2> QED
    BY <1>3, <2>1, <2>2, <2>3, <2>4, <2>5 DEF CkptWrite
<1>4. CASE CkptRename(t)
  <2>1. temp \in Store /\ temp \in since[t]
    BY <1>4 DEF CkptRename, CheckpointInv, HandleOwned
  <2>2. /\ UNCHANGED <<session, walOn, edgeWal, mem, inited, walFile, past, since>>
        /\ ckpt' = temp
    BY <1>4, <2>1, NotStore DEF CkptRename, confVars, memVars, histVars
  <2>3. OnDisk' = temp
    BY <2>1, <2>2, NotStore
  <2>4. \A u \in Threads : pc'[u] = IF u = t THEN "ckptRecord" ELSE pc[u]
    BY <1>4 DEF CkptRename, Goto
  <2>5. \A u \in Threads \ {t} : pc[u] \notin {"ckptRename", "ckptRecord"}
    BY <1>4 DEF CheckpointInv, FlushesAlone, FlushLabels, CkptRename, Labels
  <2>6. \A u \in Threads : Copied(u)' <=> Copied(u)
    BY <1>4, <2>4 DEF Copied, CkptRename
  <2>7. inited /\ session # "down"
    BY <1>4 DEF CkptRename
  <2>8. LogUnused' /\ NoStoreNoCheckpoint' /\ BothRecoverable'
    BY <2>1, <2>2, <2>3, <2>4, <2>7
  <2>9. FlushKeeps'
    BY <2>1, <2>2, <2>3, <2>4, <2>5, <2>6, <2>7
  <2> QED
    BY <2>8, <2>9
<1>5. CASE NoLogToFlush(t)
  <2>1. /\ UNCHANGED <<session, walOn, edgeWal, mem, inited, walFile, ckpt, temp>>
        /\ past' = past \cap since[t] /\ since' = [since EXCEPT ![t] = {}]
        /\ pc[t] = "ckptRecord"
    BY <1>5 DEF NoLogToFlush, FlushReturns, confVars, memVars, fileVars
  <2>2. \A u \in Threads : pc'[u] = IF u = t THEN "idle" ELSE pc[u]
    BY <1>5 DEF NoLogToFlush, FlushReturns, Goto
  <2>3. \A u \in Threads \ {t} : ~Copied(u) /\ pc[u] \notin {"ckptRename", "ckptRecord"}
    BY <2>1 DEF CheckpointInv, FlushesAlone, FlushLabels, Copied, Labels
  <2>4. mem \in since[t] /\ OnDisk \in since[t]
    BY <2>1 DEF Copied
  <2>5. \A u \in Threads : ~Copied(u)' /\ since'[u] = {}
    BY <2>1, <2>2, <2>3 DEF Copied
  <2> QED
    BY <2>1, <2>2, <2>3, <2>4, <2>5
<1> QED
  BY <1>1, <1>2, <1>3, <1>4, <1>5
  DEF FlushStep, CkptFails, LogFails, CkptRecord, WalFlush, WalTruncate

\* Without a log there is nothing to read.
LEMMA NothingToRead ==
  ASSUME walFile = NoFile, NEW read \in Readings(FileRecords)
  PROVE  KvIndices(read) = {} /\ KvIndices(FileRecords) = {}
<1>1. FileRecords = <<>>
  BY DEF FileRecords
<1>2. DOMAIN read = DOMAIN FileRecords
  BY <1>1, NoRecordsType, ReadingType
<1> QED
  BY <1>1, <1>2 DEF KvIndices

LEMMA DurableStop ==
  ASSUME DurableInv, Crash \/ Closed
  PROVE  (LogUnused /\ NoStoreNoCheckpoint /\ BothRecoverable /\ FlushKeeps)'
<1> USE DEF DurableInv, LogUnused, NoStoreNoCheckpoint, BothRecoverable, FlushKeeps, OnDisk
<1>1. /\ session' = "down" /\ UNCHANGED <<walOn, edgeWal, past, ckpt>>
      /\ \A t \in Threads : pc'[t] = "idle" /\ since'[t] = {}
  BY DEF Crash, Closed, MemoryLost, fileVars
<1>2. walFile' = NoFile
  <2>1. InFlight = {}
    BY DEF InFlight
  <2>2. AfterTornWrite = {}
    BY <2>1 DEF AfterTornWrite
  <2> QED
    BY <2>2 DEF Crash, Closed, fileVars
<1>3. \A t \in Threads : ~Copied(t)'
  BY <1>1 DEF Copied
<1> QED
  BY <1>1, <1>2, <1>3

LEMMA DurableOpen ==
  ASSUME DurableInv, OpenRefused \/ Open
  PROVE  (LogUnused /\ NoStoreNoCheckpoint /\ BothRecoverable /\ FlushKeeps)'
<1> USE DEF DurableInv, LogUnused, NoStoreNoCheckpoint, BothRecoverable, FlushKeeps
<1>1. Open
  BY DEF OpenRefused
<1>2. \A read \in Readings(FileRecords) : KvIndices(read) = {}
  BY NothingToRead
<1>3. /\ session = "down" /\ UNCHANGED <<temp, pc, since>>
      /\ ~walOn' /\ ~edgeWal' /\ walFile' = NoFile
  BY <1>1 DEF Open
<1>4. \A t \in Threads : pc[t] = "idle" /\ since[t] = {} /\ ~Copied(t)'
  BY <1>3 DEF Copied
<1>5. mem' = OnDisk /\ past' = {OnDisk} /\ OnDisk' = OnDisk
  BY <1>1, <1>2 DEF Open, Opened, OnDisk
<1>6. inited' \/ (mem' = Empty /\ ckpt' = NoFile)
  BY <1>1, <1>2 DEF Open, Opened
<1> QED
  BY <1>3, <1>4, <1>5, <1>6

LEMMA DurableStep ==
  ASSUME OneFlusher, ~IoErrors, DurableInv, [Next]_vars
  PROVE  DurableInv'
<1>1. CheckpointInv'
  BY CheckpointStep DEF DurableInv
<1>2. (LogUnused /\ NoStoreNoCheckpoint /\ BothRecoverable /\ FlushKeeps)'
  <2>1. CASE Next
    BY <2>1, DurableWrites, DurableFlush, DurableStop, DurableOpen DEF Next
  <2>2. CASE UNCHANGED vars
    BY <2>2 DEF vars, DurableInv, LogUnused, NoStoreNoCheckpoint, BothRecoverable,
                FlushKeeps, OnDisk, Copied
  <2> QED
    BY <2>1, <2>2
<1> QED
  BY <1>1, <1>2 DEF DurableInv

LEMMA DurableInitMaps ==
  ASSUME Init
  PROVE  Durable!Init
  BY DEF Init, Durable!Init, Empty, Durable!Empty

LEMMA DurableStepMaps ==
  ASSUME ~IoErrors, DurableInv, [Next]_vars
  PROVE  [Durable!Next]_(Durable!vars)
<1> USE DEF DurableInv, Durable!vars
<1>1. ASSUME NEW k \in Keys, NEW v \in Values, session = "up", PutStore(k, v), UNCHANGED session
      PROVE  Durable!Next
  BY <1>1 DEF PutStore, Durable!Next, Durable!Write, Values
<1>2. ASSUME NEW t \in Threads, KvStep(t)
      PROVE  [Durable!Next]_(Durable!vars)
  <2>1. ASSUME NEW k \in Keys, NEW v \in Values, KvWrite(t, k, v) \/ KvWriteV3(t, k, v)
        PROVE  Durable!Next
    BY <1>1, <2>1 DEF KvWrite, KvWriteV3, confVars
  <2>2. CASE KvAppend(t) \/ KvAppendFails(t) \/ KvEmit(t) \/ InsertEdge(t)
    BY <2>2 DEF KvAppend, KvAppendFails, KvEmit, InsertEdge, confVars, memVars, histVars
  <2> QED
    BY <1>2, <2>1, <2>2 DEF KvStep
<1>3. ASSUME NEW t \in Threads, FlushStep(t)
      PROVE  [Durable!Next]_(Durable!vars)
  <2>1. CASE NoLogToFlush(t)
    <3>1. pc[t] = "ckptRecord" /\ mem \in since[t]
      BY <2>1 DEF NoLogToFlush, FlushKeeps, Copied
    <3>2. session # "down" /\ mem \in past
      BY <3>1 DEF FlushKeeps, BothRecoverable
    <3>3. past' = past \cap since[t] /\ UNCHANGED <<session, mem>>
      BY <2>1 DEF NoLogToFlush, FlushReturns, confVars, memVars
    <3> QED
      BY <3>1, <3>2, <3>3 DEF Durable!Next, Durable!Flush
  <2>2. CASE ~NoLogToFlush(t)
    <3>1. ~WalTruncate(t)
      BY DEF WalTruncate, LogUnused
    <3>2. UNCHANGED <<mem, past>> /\ (session # "down" <=> session' # "down")
      BY <1>3, <2>2, <3>1
      DEF FlushStep, FlushStart, Close, EdgeFlush, CkptSkip, CkptCreate, CkptWrite, CkptRename,
          CkptFails, LogFails, CkptRecord, WalFlush, confVars, memVars, histVars
    <3> QED
      BY <3>2
  <2> QED
    BY <2>1, <2>2
<1>4. CASE Crash \/ Closed
  <2>1. session # "down" /\ session' = "down" /\ mem' = Empty /\ UNCHANGED past
    BY <1>4 DEF Crash, Closed, MemoryLost
  <2> QED
    BY <2>1 DEF Durable!Next, Durable!Stop, Empty, Durable!Empty
<1>5. CASE OpenRefused
  BY <1>5 DEF OpenRefused, LogUnused
<1>6. CASE Open
  <2>1. \A read \in Readings(FileRecords) : KvIndices(read) = {}
    BY NothingToRead DEF LogUnused
  <2>2. mem' = OnDisk /\ past' = {OnDisk} /\ session = "down" /\ session' = "up"
    BY <1>6, <2>1 DEF Open, Opened, OnDisk
  <2>3. OnDisk \in past
    BY DEF BothRecoverable
  <2> QED
    BY <2>2, <2>3 DEF Durable!Next, Durable!Reopen
<1>7. CASE UNCHANGED vars
  BY <1>7 DEF vars
<1> QED
  BY <1>2, <1>3, <1>4, <1>5, <1>6, <1>7 DEF Next

\* Without a log, with flushes that do not overlap and files that can be
\* written, the engine implements KvDurable: however calls interleave and
\* whenever the process dies, open() shows a store that was visible at some
\* moment since the last completed flush began, and nothing older later.
THEOREM DurableWithoutLog ==
  ASSUME OneFlusher, ~WalEnabled, ~IoErrors
  PROVE  Spec => Durable!Spec /\ RecoversRecentStore
<1>1. Init => DurableInv /\ Durable!Init
  BY DurableInit, DurableInitMaps
<1>2. DurableInv /\ [Next]_vars => DurableInv'
  BY DurableStep
<1>3. DurableInv /\ [Next]_vars => [Durable!Next]_(Durable!vars)
  BY DurableStepMaps
<1>4. DurableInv /\ [Next]_vars => [Durable!Next \/ Spoilt']_(Durable!vars)
  BY <1>3
<1> QED
  BY <1>1, <1>2, <1>3, <1>4, PTL DEF Spec, Durable!Spec, RecoversRecentStore

-----------------------------------------------------------------------------
(* What a subscriber knows *)

LEMMA ViewWrites ==
  ASSUME ~V3Api, ~IoErrors, TypeOK, ViewInv, NEW t \in Threads, KvStep(t)
  PROVE  ViewInv'
<1> USE DEF ViewInv
<1> SUFFICES ASSUME session' # "down", NEW j \in Keys
             PROVE  \/ view'[j] = mem'[j]
                    \/ \E u \in Threads : pc'[u] \in {"append", "emit"} /\ op'[u].key = j
  OBVIOUS
<1>1. session # "down"
  BY DEF KvStep, KvWrite, KvWriteV3, KvAppend, KvAppendFails, KvEmit, InsertEdge, confVars
<1>2. ASSUME NEW k \in Keys, NEW v \in Values, KvWrite(t, k, v)
      PROVE  \/ view'[j] = mem'[j]
             \/ \E u \in Threads : pc'[u] \in {"append", "emit"} /\ op'[u].key = j
  <2>1. pc'[t] \in {"append", "emit"} /\ op'[t].key = k
    BY <1>2 DEF KvWrite, KvRecord, TypeOK
  <2>2. CASE j = k
    BY <2>1, <2>2
  <2>3. CASE j # k
    <3>1. mem'[j] = mem[j] /\ view' = view
      BY <1>2, <2>3 DEF KvWrite, PutStore, TypeOK, Store
    <3>2. \A u \in Threads : pc[u] \in {"append", "emit"} => pc'[u] = pc[u] /\ op'[u] = op[u]
      BY <1>2 DEF KvWrite, TypeOK
    <3> QED
      BY <1>1, <3>1, <3>2
  <2> QED
    BY <2>2, <2>3
<1>3. CASE KvAppend(t)
  <2>1. UNCHANGED <<view, mem, op>> /\ pc' = [pc EXCEPT ![t] = "emit"]
    BY <1>3 DEF KvAppend, histVars
  <2>2. \A u \in Threads : pc[u] \in {"append", "emit"} => pc'[u] \in {"append", "emit"}
    BY <2>1 DEF TypeOK
  <2> QED
    BY <1>1, <2>1, <2>2
<1>4. CASE KvEmit(t)
  <2>1. /\ UNCHANGED mem
        /\ \A u \in Threads \ {t} : pc'[u] = pc[u] /\ op'[u] = op[u]
        /\ view' = [view EXCEPT ![op[t].key] = mem[op[t].key]]
    BY <1>4 DEF KvEmit, TypeOK, memVars
  <2>2. CASE op[t].key = j
    BY <2>1, <2>2 DEF TypeOK, Store
  <2>3. CASE op[t].key # j
    <3>1. view'[j] = view[j]
      BY <2>1, <2>3 DEF TypeOK, Store
    <3> QED
      BY <1>1, <2>1, <2>3, <3>1
  <2> QED
    BY <2>2, <2>3
<1>5. CASE InsertEdge(t)
  BY <1>1, <1>5 DEF InsertEdge, histVars
<1> QED
  BY <1>2, <1>3, <1>4, <1>5 DEF KvStep, KvWriteV3, KvAppendFails

LEMMA ViewStep ==
  ASSUME ~V3Api, ~IoErrors, TypeOK, ViewInv, [Next]_vars
  PROVE  ViewInv'
<1>1. ASSUME NEW t \in Threads, FlushStep(t)
      PROVE  ViewInv'
  <2>1. UNCHANGED <<view, mem, op>> /\ (session' # "down" => session # "down")
    BY <1>1
    DEF FlushStep, FlushStart, Close, EdgeFlush, CkptSkip, CkptCreate, CkptWrite, CkptRename,
        CkptFails, LogFails, CkptRecord, NoLogToFlush, WalFlush, WalTruncate, confVars, memVars, histVars
  <2>2. \A u \in Threads \ {t} : pc'[u] = pc[u]
    BY <1>1
    DEF FlushStep, FlushStart, Close, EdgeFlush, CkptSkip, CkptCreate, CkptWrite, CkptRename,
        CkptFails, LogFails, CkptRecord, NoLogToFlush, WalFlush, WalTruncate, FlushReturns, Goto, TypeOK
  <2>3. pc[t] \notin {"append", "emit"}
    BY <1>1
    DEF FlushStep, FlushStart, Close, EdgeFlush, CkptSkip, CkptCreate, CkptWrite, CkptRename,
        CkptFails, LogFails, CkptRecord, NoLogToFlush, WalFlush, WalTruncate
  <2> QED
    BY <2>1, <2>2, <2>3 DEF ViewInv
<1>2. CASE Crash \/ Closed
  BY <1>2 DEF Crash, Closed, MemoryLost, ViewInv
<1>3. CASE OpenRefused
  BY <1>3 DEF OpenRefused, memVars, histVars, ViewInv
<1>4. CASE Open
  <2>1. view' = mem'
    BY <1>4 DEF Open, Opened
  <2> QED
    BY <2>1 DEF ViewInv
<1>5. CASE UNCHANGED vars
  BY <1>5 DEF vars, ViewInv
<1> QED
  BY <1>1, <1>2, <1>3, <1>4, <1>5, ViewWrites DEF Next

\* However writers interleave between the store and their events, with or
\* without a log, whenever no write is in progress a subscriber that reread
\* every key it was told of knows the whole store.
THEOREM SubscriberKnowsStore ==
  ASSUME ~V3Api, ~IoErrors
  PROVE  Spec => []SubscriberConverges
<1>1. Init => ViewInv
  BY DEF Init, ViewInv
<1>2. TypeOK /\ ViewInv /\ [Next]_vars => ViewInv'
  BY ViewStep
<1>3. TypeOK /\ ViewInv => SubscriberConverges
  BY DEF ViewInv, SubscriberConverges, TypeOK, Store
<1> QED
  BY <1>1, <1>2, <1>3, TypeCorrect, PTL DEF Spec

-----------------------------------------------------------------------------
(* One writer: the log has the order of the store *)

OneThread == \A t, u \in Threads : t = u

\* A record put at the end of a log decides about its own key and no other.
LEMMA ReplayAppended ==
  ASSUME NEW recs \in Seq(Record), NEW rec \in Record, NEW k \in Keys
  PROVE  /\ rec.key = k => Replay(Append(recs, rec))[k] = rec.val
         /\ rec.key # k => /\ Replay(Append(recs, rec))[k] = Replay(recs)[k]
                           /\ Mentions(Append(recs, rec), k) <=> Mentions(recs, k)
<1> DEFINE longer == Append(recs, rec)
           n == Len(recs)
           old == {i \in DOMAIN recs : recs[i].key = k}
           idx == {i \in DOMAIN longer : longer[i].key = k}
<1>1. /\ n \in Nat
      /\ DOMAIN recs = 1..n /\ DOMAIN longer = 1..(n + 1)
      /\ longer[n + 1] = rec
      /\ \A i \in 1..n : longer[i] = recs[i]
  OBVIOUS
<1>2. Replay(longer)[k] = IF idx = {} THEN Null
                          ELSE longer[CHOOSE i \in idx : \A j \in idx : j <= i].val
  BY DEF Replay
<1>3. Replay(recs)[k] = IF old = {} THEN Null
                        ELSE recs[CHOOSE i \in old : \A j \in old : j <= i].val
  BY DEF Replay
<1> HIDE DEF longer, n
<1>4. ASSUME rec.key = k
      PROVE  Replay(longer)[k] = rec.val
  <2>1. n + 1 \in idx /\ \A j \in idx : j <= n + 1
    BY <1>1, <1>4
  <2>2. (CHOOSE i \in idx : \A j \in idx : j <= i) = n + 1
    <3>1. \A i \in idx : (\A j \in idx : j <= i) => i = n + 1
      BY <1>1, <2>1
    <3> QED
      BY <2>1, <3>1
  <2> QED
    BY <1>1, <1>2, <2>1, <2>2
<1>5. ASSUME rec.key # k
      PROVE  Replay(longer)[k] = Replay(recs)[k] /\ (Mentions(longer, k) <=> Mentions(recs, k))
  <2>1. idx = old
    BY <1>1, <1>5
  <2>2. Mentions(longer, k) <=> Mentions(recs, k)
    BY <2>1 DEF Mentions
  <2>3. CASE old = {}
    BY <1>2, <1>3, <2>1, <2>2, <2>3
  <2>4. CASE old # {}
    <3>1. \E i \in old : \A j \in old : j <= i
      BY <1>1, <2>4, GreatestPosition
    <3>2. (CHOOSE i \in old : \A j \in old : j <= i) \in old
      BY <3>1
    <3>3. longer[CHOOSE i \in old : \A j \in old : j <= i] = recs[CHOOSE i \in old : \A j \in old : j <= i]
      BY <1>1, <3>2
    <3> QED
      BY <1>2, <1>3, <2>1, <2>2, <2>4, <3>3
  <2> QED
    BY <2>3, <2>4
<1> QED
  BY <1>4, <1>5 DEF longer

\* An append puts the record at the end of the log, in the file or the buffer.
LEMMA AppendedToLog ==
  ASSUME TypeOK, NEW rec \in Record, AppendLog(rec)
  PROVE  LoggedRecords \in Seq(Record) /\ LoggedRecords' = Append(LoggedRecords, rec)
<1>1. /\ buf \in Seq(Record) /\ FileRecords \in Seq(Record)
      /\ walFile \in LogFile \cup {NoFile}
  BY NoRecordsType DEF TypeOK, FileRecords, LogFile
<1>2. Append(buf, rec) \in Seq(Record) /\ Append(buf, rec) # <<>>
  BY <1>1
<1>3. Append(FileRecords \o buf, rec) = FileRecords \o Append(buf, rec)
  BY <1>1
<1>4. LoggedRecords \in Seq(Record)
  BY <1>1 DEF LoggedRecords
<1>5. CASE buf' = Append(buf, rec) /\ UNCHANGED walFile
  BY <1>3, <1>4, <1>5 DEF LoggedRecords, FileRecords
<1>6. CASE walFile' = FlushLog(walFile, Append(buf, rec)) /\ buf' = <<>>
  <2>1. walFile' = Extend(walFile, Append(buf, rec))
    BY <1>2, <1>6 DEF FlushLog
  <2>2. FileRecords' = FileRecords \o Append(buf, rec) /\ FileRecords' \in Seq(Record)
    <3>1. walFile' \in LogFile /\ walFile' # NoFile
      BY <1>1, <1>2, <2>1, ExtendType, FileAssumption
    <3>2. walFile'.recs = FileRecords \o Append(buf, rec)
      <4>1. <<>> \o Append(buf, rec) = Append(buf, rec)
        BY <1>2
      <4>2. CASE walFile = NoFile
        BY <2>1, <4>1, <4>2 DEF FileRecords, Extend
      <4>3. CASE walFile # NoFile
        BY <1>1, <2>1, <4>3 DEF FileRecords, Extend, LogFile
      <4> QED
        BY <4>2, <4>3
    <3> QED
      BY <3>1, <3>2 DEF FileRecords, LogFile
  <2>3. LoggedRecords' = FileRecords'
    BY <1>6, <2>2 DEF LoggedRecords
  <2> QED
    BY <1>3, <2>2, <2>3 DEF LoggedRecords
<1> QED
  BY <1>4, <1>5, <1>6 DEF AppendLog

\* What a log makes of a store.
LEMMA OverType ==
  ASSUME NEW store \in Store, NEW recs \in Seq(Record)
  PROVE  Over(store, recs) \in Store
BY ReplayType DEF Over, Store

LEMMA OverAppended ==
  ASSUME NEW store \in Store, NEW recs \in Seq(Record), NEW rec \in Record
  PROVE  Over(store, Append(recs, rec)) =
           [k \in Keys |-> IF rec.key = k THEN rec.val ELSE Over(store, recs)[k]]
<1> SUFFICES ASSUME NEW k \in Keys
             PROVE  (IF Mentions(Append(recs, rec), k) THEN Replay(Append(recs, rec))[k] ELSE store[k])
                      = (IF rec.key = k THEN rec.val
                         ELSE IF Mentions(recs, k) THEN Replay(recs)[k] ELSE store[k])
  BY DEF Over
<1>1. rec.key = k => Mentions(Append(recs, rec), k)
  <2>1. /\ Len(recs) + 1 \in DOMAIN Append(recs, rec)
        /\ Append(recs, rec)[Len(recs) + 1] = rec
    OBVIOUS
  <2> QED
    BY <2>1 DEF Mentions
<1> QED
  BY <1>1, ReplayAppended

LEMMA OverMarked ==
  ASSUME NEW store \in Store, NEW recs \in Seq(Record), NEW rec \in {Marker, Fragment}
  PROVE  Over(store, Append(recs, rec)) = Over(store, recs)
<1>1. \A k \in Keys : rec.key # k
  BY KvAssumption DEF Marker, Fragment
<1>2. Over(store, recs) \in Store
  BY OverType
<1>3. Over(store, Append(recs, rec)) = [k \in Keys |-> Over(store, recs)[k]]
  BY <1>1, OverAppended, MarkerType
<1> QED
  BY <1>2, <1>3 DEF Store

LEMMA OverNothing ==
  ASSUME NEW store \in Store, NEW recs \in Seq(Record), \A k \in Keys : ~Mentions(recs, k)
  PROVE  Over(store, recs) = store
BY DEF Over, Store

LEMMA EmptyLog ==
  /\ \A k : ~Mentions(<<>>, k)
  /\ \A store \in Store : Over(store, <<>>) = store
  /\ KvIndices(<<>>) = {}
<1>1. \A k : ~Mentions(<<>>, k)
  BY DEF Mentions
<1>2. KvIndices(<<>>) = {}
  BY DEF KvIndices
<1> QED
  BY <1>1, <1>2, OverNothing, NoRecordsType

\* A log without KV records mentions no key, and one with them mentions some.
LEMMA MentionedKeys ==
  ASSUME NEW recs \in Seq(Record)
  PROVE  KvIndices(recs) = {} <=> \A k \in Keys : ~Mentions(recs, k)
<1>1. \A i \in DOMAIN recs : recs[i].key \in Keys \cup {NoKey}
  <2>1. \A i \in DOMAIN recs : recs[i] \in Record
    OBVIOUS
  <2> QED
    BY <2>1 DEF Record, Marker, Fragment
<1> QED
  BY <1>1, KvAssumption DEF KvIndices, Mentions

\* The beginnings of what is buffered.
LEMMA BufferPrefixes ==
  ASSUME NEW recs \in Seq(Record), NEW rec \in Record
  PROVE  /\ <<>> \in Prefixes(recs)
         /\ recs \in Prefixes(recs)
         /\ Prefixes(<<>>) = {<<>>}
         /\ Prefixes(Append(recs, rec)) \subseteq Prefixes(recs) \cup {Append(recs, rec)}
<1> DEFINE longer == Append(recs, rec)
<1>1. /\ Len(recs) \in Nat /\ longer \in Seq(Record)
      /\ Len(longer) = Len(recs) + 1
      /\ \A i \in 1..Len(recs) : longer[i] = recs[i]
  OBVIOUS
<1> HIDE DEF longer
<1>2. \A s \in Seq(Record) : SubSeq(s, 1, 0) = <<>> /\ SubSeq(s, 1, Len(s)) = s
  OBVIOUS
<1>3. <<>> \in Prefixes(recs) /\ recs \in Prefixes(recs)
  BY <1>1, <1>2 DEF Prefixes
<1>4. Prefixes(<<>>) = {<<>>}
  <2>1. Len(<<>>) = 0 /\ SubSeq(<<>>, 1, 0) = <<>>
    OBVIOUS
  <2>2. 0..Len(<<>>) = {0}
    BY <2>1
  <2> QED
    BY <2>1, <2>2 DEF Prefixes
<1>5. ASSUME NEW p \in Prefixes(longer)
      PROVE  p \in Prefixes(recs) \cup {longer}
  <2>1. PICK n \in 0..Len(longer) : p = SubSeq(longer, 1, n)
    BY DEF Prefixes
  <2>2. CASE n = Len(longer)
    BY <1>1, <1>2, <2>1, <2>2
  <2>3. CASE n \in 0..Len(recs)
    <3>1. SubSeq(longer, 1, n) = SubSeq(recs, 1, n)
      <4>1. \A i \in 1..n : longer[i] = recs[i] /\ recs[i] \in Record /\ longer[i] \in Record
        BY <1>1, <2>3
      <4>2. /\ SubSeq(longer, 1, n) \in Seq(Record) /\ SubSeq(recs, 1, n) \in Seq(Record)
            /\ Len(SubSeq(longer, 1, n)) = n /\ Len(SubSeq(recs, 1, n)) = n
            /\ \A i \in 1..n : SubSeq(longer, 1, n)[i] = longer[i] /\ SubSeq(recs, 1, n)[i] = recs[i]
        BY <1>1, <2>3, <4>1, SubSeqProperties
      <4> QED
        BY <4>1, <4>2, SeqEqual
    <3> QED
      BY <2>1, <2>3, <3>1 DEF Prefixes
  <2> QED
    BY <1>1, <2>2, <2>3
<1> QED
  BY <1>3, <1>4, <1>5 DEF longer

\* The log continues the store it was started on into the store in memory, but
\* for the write that is between the two; without a log there is nothing of it.
LogFollows ==
  IF walOn THEN \A k \in Keys : \/ mem[k] = Over(base, LoggedRecords)[k]
                                \/ \E t \in Threads : pc[t] = "append" /\ op[t].key = k
           ELSE walFile = NoFile /\ buf = <<>>

LogInv ==
  /\ CheckpointInv
  /\ edgeWal => walOn
  /\ session = "down" => buf = <<>> /\ \A t \in Threads : pc[t] = "idle"
  /\ session # "down" => LogFollows
  /\ \A t \in Threads :
       /\ pc[t] = "append" => /\ session = "up" /\ walOn /\ inited
                              /\ op[t].key \in Keys /\ op[t].val = mem[op[t].key]
       /\ pc[t] \in {"walFlush", "truncate"} => walOn
       /\ pc[t] = "truncate" => buf = <<>>

\* A flush publishes the store in memory; a store that was never created has
\* neither a checkpoint nor a record.
SavedInv ==
  /\ session # "down" /\ ~inited =>
       mem = Empty /\ ckpt = NoFile /\ \A k \in Keys : ~Mentions(LoggedRecords, k)
  /\ \A t \in Threads :
       /\ pc[t] \in {"ckptWrite", "ckptRename"} => inited
       /\ pc[t] = "ckptRename" => temp = mem
       /\ pc[t] \in {"ckptRecord", "walFlush", "truncate"} /\ inited => ckpt = mem

LEMMA LogInit == Init => LogInv /\ SavedInv
<1> SUFFICES ASSUME Init PROVE LogInv /\ SavedInv
  OBVIOUS
<1>1. \A t \in Threads : pc[t] = "idle"
  BY DEF Init
<1>2. LoggedRecords = <<>>
  BY FileAssumption DEF Init, LoggedRecords, FileRecords
<1>3. LogFollows
  <2>1. mem = Over(base, <<>>)
    BY EmptyLog, EmptyType DEF Init
  <2> QED
    BY <1>2, <2>1 DEF LogFollows, Init
<1> QED
  BY <1>1, <1>2, <1>3, EmptyLog, CheckpointInit DEF Init, LogInv, SavedInv

LEMMA LogTypes ==
  ASSUME TypeOK
  PROVE  /\ FileRecords \in Seq(Record) /\ buf \in Seq(Record) /\ LoggedRecords \in Seq(Record)
         /\ base \in Store /\ mem \in Store
<1>1. FileRecords \in Seq(Record) /\ buf \in Seq(Record)
  BY NoRecordsType DEF TypeOK, FileRecords, LogFile
<1> QED
  BY <1>1 DEF TypeOK, LoggedRecords

\* Writing the buffer out moves its records.
LEMMA BufferWritten ==
  ASSUME TypeOK, walFile' = FlushLog(walFile, buf), buf' = <<>>
  PROVE  FileRecords' = LoggedRecords /\ LoggedRecords' = LoggedRecords
<1>1. /\ buf \in Seq(Record) /\ FileRecords \in Seq(Record) /\ LoggedRecords \in Seq(Record)
      /\ walFile \in LogFile \cup {NoFile}
  BY LogTypes DEF TypeOK
<1>2. FileRecords' = LoggedRecords
  <2>1. CASE buf = <<>>
    BY <1>1, <2>1 DEF FlushLog, FileRecords, LoggedRecords
  <2>2. CASE buf # <<>>
    <3>1. walFile' = Extend(walFile, buf)
      BY <2>2 DEF FlushLog
    <3>2. walFile' \in LogFile /\ walFile' # NoFile
      BY <1>1, <3>1, ExtendType, FileAssumption
    <3>3. walFile'.recs = FileRecords \o buf
      <4>1. <<>> \o buf = buf
        BY <1>1
      <4>2. CASE walFile = NoFile
        BY <3>1, <4>1, <4>2 DEF FileRecords, Extend
      <4>3. CASE walFile # NoFile
        BY <1>1, <3>1, <4>3 DEF FileRecords, Extend, LogFile
      <4> QED
        BY <4>2, <4>3
    <3> QED
      BY <3>2, <3>3 DEF FileRecords, LoggedRecords
  <2> QED
    BY <2>1, <2>2
<1>3. LoggedRecords' = FileRecords' \o <<>>
  BY DEF LoggedRecords
<1> QED
  BY <1>1, <1>2, <1>3

\* A marker at the end of the log says nothing about any key.
LEMMA MarkedLog ==
  ASSUME TypeOK, AppendLog(Marker), base' = base
  PROVE  /\ Over(base, LoggedRecords)' = Over(base, LoggedRecords)
         /\ \A k \in Keys : Mentions(LoggedRecords', k) <=> Mentions(LoggedRecords, k)
<1>1. LoggedRecords \in Seq(Record) /\ LoggedRecords' = Append(LoggedRecords, Marker)
  BY AppendedToLog, MarkerType
<1>2. \A k \in Keys : Marker.key # k
  BY KvAssumption DEF Marker
<1> QED
  BY <1>1, <1>2, OverMarked, LogTypes, ReplayAppended, MarkerType

LEMMA LogWrites ==
  ASSUME OneThread, ~V3Api, ~IoErrors, LogInv, SavedInv, NEW t \in Threads, KvStep(t),
         CheckpointInv'
  PROVE  LogInv' /\ SavedInv'
<1>1. /\ \A u \in Threads : u = t
      /\ TypeOK /\ session # "down" /\ LogFollows
      /\ session' = session /\ UNCHANGED <<walOn, edgeWal, base, ckpt, temp>>
  BY DEF OneThread, LogInv, CheckpointInv, KvStep, KvWrite, KvWriteV3, KvAppend, KvAppendFails,
         KvEmit, InsertEdge, confVars, fileVars
<1>2. ASSUME NEW k \in Keys, NEW v \in Values, KvWrite(t, k, v)
      PROVE  LogInv' /\ SavedInv'
  <2>1. /\ pc[t] = "idle" /\ session = "up"
        /\ mem' = [mem EXCEPT ![k] = v] /\ inited' = TRUE
        /\ op'[t] = KvRecord(k, v)
        /\ pc'[t] = IF walOn THEN "append" ELSE "emit"
        /\ UNCHANGED <<buf, walFile>>
    BY <1>1, <1>2 DEF KvWrite, PutStore, TypeOK, fileVars
  <2>2. op'[t].key = k /\ op'[t].val = v
    BY <2>1 DEF KvRecord
  <2>3. mem'[k] = v /\ \A j \in Keys \ {k} : mem'[j] = mem[j]
    BY <1>1, <2>1 DEF TypeOK, Store
  <2>4. LoggedRecords' = LoggedRecords
    BY <2>1 DEF LoggedRecords, FileRecords
  <2>5. LogFollows'
    BY <1>1, <2>1, <2>2, <2>3, <2>4 DEF LogFollows
  <2>6. LogInv'
    BY <1>1, <2>1, <2>2, <2>3, <2>5 DEF LogInv
  <2>7. SavedInv'
    BY <1>1, <2>1 DEF SavedInv
  <2> QED
    BY <2>6, <2>7
<1>3. CASE KvAppend(t)
  <2>1. /\ pc[t] = "append" /\ pc'[t] = "emit" /\ AppendLog(op[t])
        /\ UNCHANGED <<mem, inited, op>>
        /\ walOn /\ inited /\ op[t].key \in Keys /\ op[t].val = mem[op[t].key]
        /\ op[t] \in Record
    BY <1>1, <1>3 DEF KvAppend, LogInv, TypeOK, histVars
  <2>2. LoggedRecords \in Seq(Record) /\ LoggedRecords' = Append(LoggedRecords, op[t])
    BY <1>1, <2>1, AppendedToLog
  <2>3. \A k \in Keys : Over(base, LoggedRecords)'[k] =
                          IF op[t].key = k THEN op[t].val ELSE Over(base, LoggedRecords)[k]
    BY <1>1, <2>1, <2>2, OverAppended, LogTypes
  <2>4. LogFollows'
    BY <1>1, <2>1, <2>3 DEF LogFollows
  <2>5. LogInv'
    BY <1>1, <2>1, <2>4 DEF LogInv
  <2>6. SavedInv'
    BY <1>1, <2>1 DEF SavedInv
  <2> QED
    BY <2>5, <2>6
<1>4. CASE KvEmit(t)
  <2>1. /\ pc[t] = "emit" /\ pc'[t] = "idle"
        /\ UNCHANGED <<mem, inited, buf, walFile>>
    BY <1>1, <1>4 DEF KvEmit, memVars, fileVars, TypeOK
  <2>2. LoggedRecords' = LoggedRecords
    BY <2>1 DEF LoggedRecords, FileRecords
  <2>3. LogFollows'
    BY <1>1, <2>1, <2>2 DEF LogFollows
  <2>4. LogInv'
    BY <1>1, <2>1, <2>3 DEF LogInv
  <2>5. SavedInv'
    BY <1>1, <2>1, <2>2 DEF SavedInv
  <2> QED
    BY <2>4, <2>5
<1>5. CASE InsertEdge(t)
  <2>1. /\ UNCHANGED <<mem, inited, pc, op>> /\ pc[t] = "idle"
        /\ IF edgeWal THEN AppendLog(Marker) ELSE UNCHANGED <<buf, walFile>>
    BY <1>5 DEF InsertEdge, histVars
  <2>2. edgeWal => walOn
    BY DEF LogInv
  <2>3. /\ Over(base, LoggedRecords)' = Over(base, LoggedRecords)
        /\ \A k \in Keys : Mentions(LoggedRecords', k) <=> Mentions(LoggedRecords, k)
    <3>1. CASE edgeWal
      BY <1>1, <2>1, <3>1, MarkedLog
    <3>2. CASE ~edgeWal
      BY <1>1, <2>1, <3>2 DEF LoggedRecords, FileRecords
    <3> QED
      BY <3>1, <3>2
  <2>4. LogFollows'
    BY <1>1, <2>1, <2>2, <2>3 DEF LogFollows
  <2>5. LogInv'
    BY <1>1, <2>1, <2>4 DEF LogInv
  <2>6. SavedInv'
    BY <1>1, <2>1, <2>3 DEF SavedInv
  <2> QED
    BY <2>5, <2>6
<1> QED
  BY <1>2, <1>3, <1>4, <1>5 DEF KvStep, KvWriteV3, KvAppendFails

\* A flush leaves the store in memory alone; the log follows it if its records
\* keep saying the same, or if it starts afresh.
LEMMA LogFollowsOn ==
  ASSUME OneThread, LogInv, NEW t \in Threads, pc[t] # "append", session # "down",
         UNCHANGED <<walOn, mem, op>>,
         pc'[t] # "append",
         \/ UNCHANGED <<walFile, buf, base>>
         \/ walOn /\ Over(base, LoggedRecords)' = Over(base, LoggedRecords)
         \/ walOn /\ LoggedRecords' = <<>> /\ base' = mem
  PROVE  LogFollows'
<1>1. /\ \A u \in Threads : u = t
      /\ LogFollows /\ TypeOK
  BY DEF OneThread, LogInv, CheckpointInv
<1>2. CASE UNCHANGED <<walFile, buf, base>>
  <2>1. LoggedRecords' = LoggedRecords
    BY <1>2 DEF LoggedRecords, FileRecords
  <2> QED
    BY <1>1, <1>2, <2>1 DEF LogFollows
<1>3. CASE walOn /\ Over(base, LoggedRecords)' = Over(base, LoggedRecords)
  BY <1>1, <1>3 DEF LogFollows
<1>4. CASE walOn /\ LoggedRecords' = <<>> /\ base' = mem
  <2>1. Over(base', LoggedRecords') = mem'
    BY <1>1, <1>4, EmptyLog, LogTypes
  <2> QED
    BY <1>4, <2>1 DEF LogFollows
<1> QED
  BY <1>2, <1>3, <1>4

LEMMA LogFlush ==
  ASSUME OneThread, ~IoErrors, LogInv, SavedInv, NEW t \in Threads, FlushStep(t), CheckpointInv'
  PROVE  LogInv' /\ SavedInv'
<1>1. /\ \A u \in Threads : u = t
      /\ TypeOK /\ session # "down" /\ session' # "down" /\ pc[t] # "append"
      /\ UNCHANGED <<walOn, edgeWal, mem, inited, op>>
      /\ pc \in [Threads -> Labels]
  BY DEF OneThread, LogInv, CheckpointInv, TypeOK, FlushStep, FlushStart, Close, EdgeFlush,
         CkptSkip, CkptCreate, CkptWrite, CkptRename, CkptFails, LogFails, CkptRecord, NoLogToFlush, WalFlush,
         WalTruncate, confVars, memVars, fileVars, histVars
<1>2. CASE FlushStart(t) \/ Close(t)
  <2>1. /\ UNCHANGED <<buf, walFile, base, ckpt, temp>>
        /\ pc'[t] = "edgeFlush"
    BY <1>1, <1>2 DEF FlushStart, Close, Goto, confVars, memVars, fileVars
  <2>2. LoggedRecords' = LoggedRecords
    BY <2>1 DEF LoggedRecords, FileRecords
  <2> QED
    BY <1>1, <2>1, <2>2, LogFollowsOn DEF LogInv, SavedInv
<1>3. CASE EdgeFlush(t)
  <2>1. /\ UNCHANGED <<ckpt, temp>> /\ pc'[t] = "ckptCreate"
    BY <1>1, <1>3 DEF EdgeFlush, Goto
  <2>2. CASE edgeDirty /\ edgeWal
    <3>1. LoggedRecords' = <<>> /\ base' = mem /\ buf' = <<>>
      BY <1>3, <2>2 DEF EdgeFlush, LoggedRecords, FileRecords
    <3>2. walOn
      BY <2>2 DEF LogInv
    <3> QED
      BY <1>1, <2>1, <3>1, <3>2, LogFollowsOn, EmptyLog DEF LogInv, SavedInv
  <2>3. CASE ~(edgeDirty /\ edgeWal)
    <3>1. UNCHANGED <<buf, walFile, base>>
      BY <1>3, <2>3 DEF EdgeFlush
    <3>2. LoggedRecords' = LoggedRecords
      BY <3>1 DEF LoggedRecords, FileRecords
    <3> QED
      BY <1>1, <2>1, <3>1, <3>2, LogFollowsOn DEF LogInv, SavedInv
  <2> QED
    BY <2>2, <2>3
<1>4. CASE CkptSkip(t) \/ CkptCreate(t) \/ CkptWrite(t) \/ CkptRename(t)
  <2>1. UNCHANGED <<buf, walFile, base>>
    BY <1>4 DEF CkptSkip, CkptCreate, CkptWrite, CkptRename, confVars, memVars, fileVars
  <2>2. LoggedRecords' = LoggedRecords
    BY <2>1 DEF LoggedRecords, FileRecords
  <2>3. pc'[t] \in {"ckptRecord", "ckptWrite", "ckptRename"}
    BY <1>1, <1>4 DEF CkptSkip, CkptCreate, CkptWrite, CkptRename, Goto
  <2>4. LogInv'
    BY <1>1, <2>1, <2>3, LogFollowsOn DEF LogInv
  <2>5. CASE CkptSkip(t) \/ CkptCreate(t)
    <3>1. ckpt' = ckpt /\ IF pc'[t] = "ckptRecord" THEN ~inited ELSE inited /\ pc'[t] = "ckptWrite"
      BY <1>1, <2>5 DEF CkptSkip, CkptCreate, Goto, fileVars
    <3> QED
      BY <1>1, <2>2, <2>4, <3>1 DEF SavedInv
  <2>6. CASE CkptWrite(t)
    <3>1. inited /\ fd[t] = "temp"
      BY <2>6 DEF CkptWrite, SavedInv, LogInv, CheckpointInv, HandleOwned
    <3>2. temp' = mem /\ pc'[t] = "ckptRename"
      BY <1>1, <2>6, <3>1 DEF CkptWrite, Goto
    <3> QED
      BY <1>1, <2>4, <3>1, <3>2 DEF SavedInv
  <2>7. CASE CkptRename(t)
    <3>1. inited /\ temp = mem /\ temp \in Store
      BY <2>7 DEF CkptRename, SavedInv, LogInv, CheckpointInv, HandleOwned
    <3>2. ckpt' = mem /\ pc'[t] = "ckptRecord"
      BY <1>1, <2>7, <3>1, NotStore DEF CkptRename, Goto
    <3> QED
      BY <1>1, <2>4, <3>1, <3>2 DEF SavedInv
  <2> QED
    BY <1>4, <2>5, <2>6, <2>7
<1>5. CASE CkptRecord(t)
  <2>1. /\ walOn /\ AppendLog(Marker) /\ pc[t] = "ckptRecord" /\ pc'[t] = "walFlush"
        /\ UNCHANGED <<base, ckpt, temp>>
    BY <1>1, <1>5 DEF CkptRecord, Goto, confVars
  <2> QED
    BY <1>1, <2>1, MarkedLog, LogFollowsOn DEF LogInv, SavedInv
<1>6. CASE NoLogToFlush(t)
  <2>1. UNCHANGED <<buf, walFile, base, ckpt, temp>> /\ pc'[t] = "idle"
    BY <1>1, <1>6 DEF NoLogToFlush, FlushReturns, Goto, confVars, memVars, fileVars
  <2>2. LoggedRecords' = LoggedRecords
    BY <2>1 DEF LoggedRecords, FileRecords
  <2> QED
    BY <1>1, <2>1, <2>2, LogFollowsOn DEF LogInv, SavedInv
<1>7. CASE WalFlush(t)
  <2>1. /\ pc[t] = "walFlush" /\ pc'[t] = "truncate" /\ buf' = <<>>
        /\ walFile' = FlushLog(walFile, buf)
        /\ UNCHANGED <<base, ckpt, temp>>
    BY <1>1, <1>7 DEF WalFlush, Goto, confVars
  <2>2. walOn
    BY <2>1 DEF LogInv
  <2>3. LoggedRecords' = LoggedRecords
    BY <1>1, <2>1, BufferWritten
  <2>4. Over(base, LoggedRecords)' = Over(base, LoggedRecords)
    BY <2>1, <2>3
  <2> QED
    BY <1>1, <2>1, <2>2, <2>3, <2>4, LogFollowsOn DEF LogInv, SavedInv
<1>8. CASE WalTruncate(t)
  <2>1. /\ pc[t] = "truncate" /\ pc'[t] = "idle"
        /\ walFile' = NoFile /\ base' = mem
        /\ UNCHANGED <<buf, ckpt, temp>>
    BY <1>1, <1>8 DEF WalTruncate, FlushReturns, Goto, memVars
  <2>2. walOn /\ buf = <<>>
    BY <2>1 DEF LogInv
  <2>3. LoggedRecords' = <<>>
    BY <2>1, <2>2 DEF LoggedRecords, FileRecords
  <2> QED
    BY <1>1, <2>1, <2>2, <2>3, LogFollowsOn, EmptyLog DEF LogInv, SavedInv
<1> QED
  BY <1>2, <1>3, <1>4, <1>5, <1>6, <1>7, <1>8 DEF FlushStep, CkptFails, LogFails

LEMMA LogStop ==
  ASSUME LogInv, SavedInv, Crash \/ Closed, CheckpointInv'
  PROVE  LogInv' /\ SavedInv'
<1>1. /\ session' = "down" /\ buf' = <<>> /\ UNCHANGED <<walOn, edgeWal>>
      /\ \A t \in Threads : pc'[t] = "idle"
  BY DEF Crash, Closed, MemoryLost
<1> QED
  BY <1>1 DEF LogInv, SavedInv

\* open() takes the log for what it finds in it, and starts from there.
LEMMA OpenReads ==
  ASSUME TypeOK, Open
  PROVE  \E read \in Seq(Record) :
           /\ FileRecords' = read /\ LoggedRecords' = read
           /\ base' = mem' /\ past' = {mem'}
           /\ \/ /\ KvIndices(read) # {} /\ mem' = Replay(read)
                 /\ mem' = Told \/ Spoilt'
                 /\ inited' /\ ckpt' = ckpt
              \/ /\ KvIndices(read) = {} /\ mem' = OnDisk /\ OnDisk' = OnDisk
                 /\ KvIndices(FileRecords) = {} \/ Spoilt'
                 /\ inited' \/ (mem' = Empty /\ ckpt' = NoFile)
<1> DEFINE Found(read) ==
      /\ walFile' = IF walFile = NoFile THEN NoFile ELSE [walFile EXCEPT !.recs = read]
      /\ \/ /\ KvIndices(read) # {}
            /\ Opened(Replay(read), TRUE)
            /\ events' = events \cup If(Replay(read) # Told,
                                        IF read = FileRecords THEN "hidden" ELSE "garbled")
            /\ UNCHANGED ckpt
         \/ /\ KvIndices(read) = {}
            /\ IF ckpt \in {NoFile, Torn}
               THEN Opened(Empty, FALSE) /\ ckpt' = NoFile
               ELSE Opened(ckpt, TRUE) /\ UNCHANGED ckpt
            /\ events' = events \cup If(KvIndices(FileRecords) # {}, "garbled")
<1>1. PICK read \in Readings(FileRecords) : Found(read)
  BY DEF Open
<1>2. FileRecords \in Seq(Record) /\ walFile \in LogFile \cup {NoFile}
  BY LogTypes DEF TypeOK
<1>3. read \in Seq(Record) /\ DOMAIN read = DOMAIN FileRecords
  BY <1>2, ReadingType
<1>4. FileRecords' = read
  <2>1. CASE walFile = NoFile
    <3>1. FileRecords = <<>> /\ FileRecords' = <<>>
      BY <1>1, <2>1 DEF FileRecords
    <3>2. read = <<>>
      BY <1>3, <3>1
    <3> QED
      BY <3>1, <3>2
  <2>2. CASE walFile # NoFile
    <3>1. walFile' = [walFile EXCEPT !.recs = read] /\ walFile' \in LogFile
      BY <1>1, <1>2, <1>3, <2>2 DEF LogFile
    <3>2. walFile' # NoFile /\ walFile'.recs = read
      BY <1>2, <2>2, <3>1, FileAssumption DEF LogFile
    <3> QED
      BY <3>2 DEF FileRecords
  <2> QED
    BY <2>1, <2>2
<1>5. LoggedRecords' = read
  <2>1. buf' = <<>>
    BY DEF Open
  <2> QED
    BY <1>3, <1>4, <2>1 DEF LoggedRecords
<1>6. CASE KvIndices(read) # {}
  <2>1. /\ Opened(Replay(read), TRUE) /\ ckpt' = ckpt
        /\ events' = events \cup If(Replay(read) # Told,
                                    IF read = FileRecords THEN "hidden" ELSE "garbled")
    BY <1>1, <1>6
  <2>2. Replay(read) = Told \/ Spoilt'
    BY <2>1 DEF If, Spoilt
  <2> HIDE DEF Found
  <2> QED
    BY <1>3, <1>4, <1>5, <1>6, <2>1, <2>2 DEF Opened
<1>7. CASE KvIndices(read) = {}
  <2>1. /\ IF ckpt \in {NoFile, Torn}
           THEN Opened(Empty, FALSE) /\ ckpt' = NoFile
           ELSE Opened(ckpt, TRUE) /\ UNCHANGED ckpt
        /\ events' = events \cup If(KvIndices(FileRecords) # {}, "garbled")
    BY <1>1, <1>7
  <2>2. KvIndices(FileRecords) = {} \/ Spoilt'
    BY <2>1 DEF If, Spoilt
  <2>3. mem' = OnDisk /\ OnDisk' = OnDisk /\ (inited' \/ (mem' = Empty /\ ckpt' = NoFile))
    BY <2>1 DEF Opened, OnDisk
  <2>4. base' = mem' /\ past' = {mem'}
    BY <2>1 DEF Opened
  <2> HIDE DEF Found
  <2> QED
    BY <1>3, <1>4, <1>5, <1>7, <2>2, <2>3, <2>4
<1> QED
  BY <1>6, <1>7

LEMMA LogOpen ==
  ASSUME LogInv, SavedInv, Open, TypeOK', CheckpointInv'
  PROVE  LogInv' /\ SavedInv' /\ mem' = Over(base', FileRecords')
<1>1. /\ session = "down" /\ session' = "up" /\ buf' = <<>>
      /\ UNCHANGED pc /\ (walFile = NoFile => walFile' = NoFile)
      /\ walOn' = (walFile # NoFile) /\ edgeWal' = walOn'
      /\ \A t \in Threads : pc[t] = "idle"
  BY DEF Open, LogInv
<1>2. PICK read \in Seq(Record) :
        /\ FileRecords' = read /\ LoggedRecords' = read /\ base' = mem'
        /\ KvIndices(read) # {} => mem' = Replay(read) /\ inited'
        /\ KvIndices(read) = {} => inited' \/ (mem' = Empty /\ ckpt' = NoFile)
  BY OpenReads DEF LogInv, CheckpointInv
<1>3. base' \in Store
  BY DEF TypeOK
<1>4. mem' = Over(base', read)
  <2>1. CASE KvIndices(read) # {}
    BY <1>2, <1>3, <2>1 DEF Over, Store
  <2>2. CASE KvIndices(read) = {}
    BY <1>2, <1>3, <2>2, MentionedKeys, OverNothing
  <2> QED
    BY <2>1, <2>2
<1>5. LogFollows'
  BY <1>1, <1>2, <1>4 DEF LogFollows
<1> QED
  BY <1>1, <1>2, <1>4, <1>5, MentionedKeys DEF LogInv, SavedInv

LEMMA LogStep ==
  ASSUME OneThread, ~V3Api, ~IoErrors, LogInv, SavedInv, [Next]_vars
  PROVE  LogInv' /\ SavedInv'
<1>1. CheckpointInv'
  BY CheckpointStep, KvAssumption DEF LogInv, OneThread, OneFlusher
<1>2. CASE OpenRefused
  BY <1>1, <1>2 DEF OpenRefused, LogInv, SavedInv, LogFollows, LoggedRecords, FileRecords,
                    memVars, fileVars
<1>3. CASE UNCHANGED vars
  BY <1>1, <1>3 DEF vars, LogInv, SavedInv, LogFollows, LoggedRecords, FileRecords
<1> QED
  BY <1>1, <1>2, <1>3, LogWrites, LogFlush, LogStop, LogOpen DEF Next, CheckpointInv

LEMMA LogInvariant ==
  ASSUME OneThread, ~V3Api, ~IoErrors
  PROVE  Spec => [](LogInv /\ SavedInv)
BY LogInit, LogStep, PTL DEF Spec

\* With one thread the log has the order of the store: whatever part of it is in
\* the buffer, in the file, torn off by a crash or emptied by a flush, replaying
\* it gives every key that it mentions the value the store has.
THEOREM LogHasStoreOrder ==
  ASSUME OneThread, ~V3Api, ~IoErrors
  PROVE  Spec => []LogAgreesWithStore
<1>1. LogInv => LogAgreesWithStore
  <2> SUFFICES ASSUME LogInv, session = "up",
                      \A t \in Threads : pc[t] \notin {"append", "emit"},
                      NEW k \in Keys, Mentions(LoggedRecords, k)
               PROVE  Replay(LoggedRecords)[k] = mem[k]
    BY DEF LogAgreesWithStore
  <2>1. LogFollows
    BY DEF LogInv
  <2>2. CASE walOn
    BY <2>1, <2>2 DEF LogFollows, Over
  <2>3. CASE ~walOn
    <3>1. LoggedRecords = <<>>
      BY <2>1, <2>3 DEF LogFollows, LoggedRecords, FileRecords
    <3> QED
      BY <3>1, EmptyLog
  <2> QED
    BY <2>2, <2>3
<1> QED
  BY <1>1, LogInvariant, PTL

\* With one thread a flush removes the log file only when the checkpoint holds
\* all that the file tells of, markers of edge inserts among its records or not.
THEOREM TruncateLosesNothing ==
  ASSUME OneThread, ~V3Api, ~IoErrors
  PROVE  Spec => TruncateKeepsLoggedData
<1>1. ASSUME LogInv, SavedInv, NEW t \in Threads, WalTruncate(t)
      PROVE  LogSaved
  <2>1. /\ pc[t] = "truncate" /\ \A u \in Threads : u = t
        /\ TypeOK /\ session # "down" /\ LogFollows /\ walOn /\ buf = <<>>
    BY <1>1 DEF WalTruncate, OneThread, LogInv, CheckpointInv
  <2>2. FileRecords \in Seq(Record) /\ LoggedRecords = FileRecords
    BY <2>1, LogTypes DEF LoggedRecords
  <2>3. mem = Told
    <3>1. \A k \in Keys : mem[k] = Told[k]
      BY <2>1, <2>2 DEF LogFollows, Told
    <3>2. mem \in Store /\ Told \in Store
      BY <2>1, <2>2, LogTypes, OverType DEF Told
    <3> QED
      BY <3>1, <3>2 DEF Store
  <2>4. ~inited => KvIndices(FileRecords) = {}
    BY <1>1, <2>1, <2>2, MentionedKeys DEF SavedInv
  <2> QED
    BY <1>1, <2>1, <2>3, <2>4 DEF SavedInv, LogSaved
<1>2. LogInv /\ SavedInv /\ [Next]_vars => [\A t \in Threads : WalTruncate(t) => LogSaved]_vars
  BY <1>1
<1> QED
  BY <1>2, LogInvariant, PTL DEF Spec, TruncateKeepsLoggedData

-----------------------------------------------------------------------------
(* One writer and a log: what a crash falls back to *)

\* A log that open() can read.
Headed == walFile # NoFile /\ walFile.hdr

\* What open() would read may be fallen back to: a log with KV records, however
\* much of the buffer a torn write adds to it, or else the checkpoint.
LogRecoverable == Headed => \A p \in Prefixes(buf) : Over(base, FileRecords \o p) \in past
DiskRecoverable == KvIndices(FileRecords) = {} \/ ~Headed => OnDisk \in past
SinceKept == \A t \in Threads : IF Copied(t) THEN mem \in since[t] ELSE since[t] = {}

Fallback ==
  /\ session # "down" => mem \in past
  /\ LogRecoverable /\ DiskRecoverable /\ SinceKept

FallbackInv == LogInv /\ SavedInv /\ (Spoilt \/ Fallback)

\* More records do not undo that there are some.
LEMMA RecordsStay ==
  ASSUME NEW recs \in Seq(Record), NEW more \in Seq(Record), KvIndices(recs) # {}
  PROVE  KvIndices(recs \o more) # {}
<1>1. PICK i \in DOMAIN recs : recs[i].key # NoKey
  BY DEF KvIndices
<1>2. i \in DOMAIN (recs \o more) /\ (recs \o more)[i] = recs[i]
  OBVIOUS
<1> QED
  BY <1>1, <1>2 DEF KvIndices

\* Records that join the file leave the checkpoint in charge only if it was.
LEMMA ExtendedFile ==
  ASSUME TypeOK, NEW recs \in Seq(Record), walFile' = Extend(walFile, recs)
  PROVE  /\ FileRecords' = FileRecords \o recs
         /\ Headed' <=> Headed
         /\ KvIndices(FileRecords') = {} => KvIndices(FileRecords) = {}
<1>1. walFile \in LogFile \cup {NoFile} /\ FileRecords \in Seq(Record)
  BY LogTypes DEF TypeOK
<1>2. walFile' \in LogFile /\ walFile' # NoFile
  BY <1>1, ExtendType, FileAssumption
<1>3. FileRecords' = FileRecords \o recs /\ (Headed' <=> Headed)
  <2>1. <<>> \o recs = recs
    OBVIOUS
  <2>2. CASE walFile = NoFile
    BY <1>2, <2>1, <2>2 DEF FileRecords, Extend, Headed
  <2>3. CASE walFile # NoFile
    <3>1. walFile'.hdr = walFile.hdr /\ walFile'.recs = walFile.recs \o recs
      BY <1>1, <2>3 DEF Extend, LogFile
    <3> QED
      BY <1>2, <2>3, <3>1 DEF FileRecords, Headed
  <2> QED
    BY <2>2, <2>3
<1> QED
  BY <1>1, <1>3, RecordsStay

\* An append keeps the log readable as long as its whole is.
LEMMA AppendRecoverable ==
  ASSUME TypeOK, NEW rec \in Record, AppendLog(rec), UNCHANGED <<base, ckpt, past>>,
         LogRecoverable, DiskRecoverable,
         Headed => Over(base, Append(LoggedRecords, rec)) \in past
  PROVE  LogRecoverable' /\ DiskRecoverable'
<1>1. buf \in Seq(Record) /\ FileRecords \in Seq(Record) /\ Append(buf, rec) \in Seq(Record)
  BY LogTypes
<1>2. FileRecords \o Append(buf, rec) = Append(LoggedRecords, rec)
  BY <1>1 DEF LoggedRecords
<1>3. CASE buf' = Append(buf, rec) /\ UNCHANGED walFile
  <2>1. FileRecords' = FileRecords /\ (Headed' <=> Headed)
    BY <1>3 DEF FileRecords, Headed
  <2>2. DiskRecoverable'
    BY <2>1 DEF DiskRecoverable, OnDisk
  <2>3. ASSUME Headed, NEW p \in Prefixes(Append(buf, rec))
        PROVE  Over(base, FileRecords \o p) \in past
    BY <1>1, <1>2, <2>3, BufferPrefixes DEF LogRecoverable
  <2>4. LogRecoverable'
    BY <1>3, <2>1, <2>3 DEF LogRecoverable
  <2> QED
    BY <2>2, <2>4
<1>4. CASE walFile' = FlushLog(walFile, Append(buf, rec)) /\ buf' = <<>>
  <2>1. Append(buf, rec) # <<>>
    BY <1>1
  <2>2. walFile' = Extend(walFile, Append(buf, rec))
    BY <1>4, <2>1 DEF FlushLog
  <2>3. /\ FileRecords' = Append(LoggedRecords, rec)
        /\ Headed' <=> Headed
        /\ KvIndices(FileRecords') = {} => KvIndices(FileRecords) = {}
    BY <1>1, <1>2, <2>2, ExtendedFile
  <2>4. DiskRecoverable'
    BY <2>3 DEF DiskRecoverable, OnDisk
  <2>5. Prefixes(buf') = {<<>>} /\ FileRecords' \o <<>> = FileRecords'
    BY <1>1, <1>4, <2>3, LogTypes, BufferPrefixes
  <2>6. LogRecoverable'
    BY <2>3, <2>5 DEF LogRecoverable
  <2> QED
    BY <2>4, <2>6
<1> QED
  BY <1>3, <1>4 DEF AppendLog

\* The whole log, which a marker does not change, is one of its beginnings.
LEMMA WholeLog ==
  ASSUME TypeOK, LogRecoverable, Headed
  PROVE  /\ Over(base, LoggedRecords) \in past
         /\ Over(base, Append(LoggedRecords, Marker)) \in past
         /\ Told \in past
<1>1. buf \in Seq(Record) /\ FileRecords \in Seq(Record) /\ FileRecords \o <<>> = FileRecords
  BY LogTypes
<1>2. buf \in Prefixes(buf) /\ <<>> \in Prefixes(buf)
  BY <1>1, BufferPrefixes, MarkerType
<1>3. Over(base, LoggedRecords) \in past /\ Told \in past
  BY <1>1, <1>2 DEF LogRecoverable, LoggedRecords, Told
<1> QED
  BY <1>3, OverMarked, LogTypes

LEMMA FallbackInit == Init => FallbackInv
<1> SUFFICES ASSUME Init PROVE FallbackInv
  OBVIOUS
<1>1. LogInv /\ SavedInv
  BY LogInit
<1>2. FileRecords = <<>> /\ FileRecords \o <<>> = <<>> /\ Prefixes(buf) = {<<>>}
  <2>1. FileRecords = <<>> /\ buf = <<>>
    BY FileAssumption DEF Init, FileRecords
  <2>2. Prefixes(<<>>) = {<<>>}
    BY BufferPrefixes, MarkerType, NoRecordsType
  <2>3. <<>> \o <<>> = <<>>
    OBVIOUS
  <2> QED
    BY <2>1, <2>2, <2>3
<1>3. LogRecoverable
  <2>1. Over(base, <<>>) = Empty
    BY EmptyLog, EmptyType DEF Init
  <2> QED
    BY <1>2, <2>1 DEF LogRecoverable, Init
<1>4. DiskRecoverable /\ SinceKept
  BY DEF Init, DiskRecoverable, OnDisk, SinceKept, Copied
<1> QED
  BY <1>1, <1>3, <1>4 DEF FallbackInv, Fallback, Init

LEMMA FallbackWrites ==
  ASSUME OneThread, ~V3Api, ~IoErrors, LogInv, SavedInv, LogInv', Fallback,
         NEW t \in Threads, KvStep(t)
  PROVE  Fallback'
<1>1. /\ \A u \in Threads : u = t
      /\ TypeOK /\ session # "down" /\ LogFollows /\ LogFollows'
      /\ session' = session /\ UNCHANGED <<walOn, edgeWal, base, ckpt, temp, events>>
      /\ mem \in past /\ LogRecoverable /\ DiskRecoverable /\ SinceKept
  BY DEF OneThread, LogInv, CheckpointInv, KvStep, KvWrite, KvWriteV3, KvAppend, KvAppendFails,
         KvEmit, InsertEdge, confVars, fileVars, Fallback
<1>2. ~Copied(t)
  BY DEF Copied, KvStep, KvWrite, KvWriteV3, KvAppend, KvAppendFails, KvEmit, InsertEdge
<1>3. ASSUME NEW k \in Keys, NEW v \in Values, KvWrite(t, k, v)
      PROVE  Fallback'
  <2>1. /\ past' = past \cup {mem'}
        /\ since' = [u \in Threads |-> IF Copied(u) THEN since[u] \cup {mem'} ELSE since[u]]
        /\ pc'[t] \in {"append", "emit"}
        /\ UNCHANGED <<buf, walFile>>
    BY <1>1, <1>3 DEF KvWrite, PutStore, TypeOK, fileVars
  <2>2. SinceKept'
    BY <1>1, <1>2, <2>1 DEF SinceKept, Copied
  <2>3. FileRecords' = FileRecords /\ (Headed' <=> Headed) /\ OnDisk' = OnDisk
    BY <1>1, <2>1 DEF FileRecords, Headed, OnDisk
  <2> QED
    BY <1>1, <2>1, <2>2, <2>3 DEF Fallback, LogRecoverable, DiskRecoverable
<1>4. CASE KvAppend(t)
  <2>1. /\ pc[t] = "append" /\ pc'[t] = "emit" /\ AppendLog(op[t])
        /\ UNCHANGED <<mem, past, since>> /\ walOn /\ op[t] \in Record
    BY <1>1, <1>4 DEF KvAppend, LogInv, TypeOK, histVars
  <2>2. LoggedRecords' = Append(LoggedRecords, op[t]) /\ LoggedRecords' \in Seq(Record)
    BY <1>1, <2>1, AppendedToLog
  <2>3. mem = Over(base, LoggedRecords')
    <3>1. \A k \in Keys : mem[k] = Over(base, LoggedRecords')[k]
      BY <1>1, <2>1 DEF LogFollows
    <3>2. mem \in Store /\ Over(base, LoggedRecords') \in Store
      BY <1>1, <2>2, LogTypes, OverType
    <3> QED
      BY <3>1, <3>2 DEF Store
  <2>4. LogRecoverable' /\ DiskRecoverable'
    BY <1>1, <2>1, <2>2, <2>3, AppendRecoverable
  <2>5. SinceKept'
    BY <1>1, <1>2, <2>1 DEF SinceKept, Copied
  <2> QED
    BY <1>1, <2>1, <2>4, <2>5 DEF Fallback
<1>5. CASE KvEmit(t)
  <2>1. /\ pc'[t] = "idle"
        /\ UNCHANGED <<mem, buf, walFile, past, since>>
    BY <1>1, <1>5 DEF KvEmit, memVars, fileVars, TypeOK
  <2>2. FileRecords' = FileRecords /\ (Headed' <=> Headed) /\ OnDisk' = OnDisk
    BY <1>1, <2>1 DEF FileRecords, Headed, OnDisk
  <2>3. SinceKept'
    BY <1>1, <1>2, <2>1 DEF SinceKept, Copied
  <2> QED
    BY <1>1, <2>1, <2>2, <2>3 DEF Fallback, LogRecoverable, DiskRecoverable
<1>6. CASE InsertEdge(t)
  <2>1. /\ UNCHANGED <<mem, pc, past, since>>
        /\ IF edgeWal THEN AppendLog(Marker) ELSE UNCHANGED <<buf, walFile>>
    BY <1>6 DEF InsertEdge, histVars
  <2>2. LogRecoverable' /\ DiskRecoverable'
    <3>1. CASE edgeWal
      BY <1>1, <2>1, <3>1, MarkerType, WholeLog, AppendRecoverable
    <3>2. CASE ~edgeWal
      BY <1>1, <2>1, <3>2 DEF LogRecoverable, DiskRecoverable, FileRecords, Headed, OnDisk
    <3> QED
      BY <3>1, <3>2
  <2>3. SinceKept'
    BY <1>1, <2>1 DEF SinceKept, Copied
  <2> QED
    BY <1>1, <2>1, <2>2, <2>3 DEF Fallback
<1> QED
  BY <1>3, <1>4, <1>5, <1>6 DEF KvStep, KvWriteV3, KvAppendFails

\* What a flush has published is the store in memory.
LEMMA PublishedOnDisk ==
  ASSUME TypeOK, SavedInv, session # "down", NEW t \in Threads,
         pc[t] \in {"ckptRecord", "walFlush", "truncate"}
  PROVE  OnDisk = mem
<1>1. mem \in Store
  BY DEF TypeOK
<1> QED
  BY <1>1, NotStore DEF SavedInv, OnDisk

LEMMA FallbackFlush ==
  ASSUME OneThread, ~IoErrors, LogInv, SavedInv, Fallback, NEW t \in Threads, FlushStep(t), ~Spoilt'
  PROVE  Fallback'
<1>1. /\ \A u \in Threads : u = t
      /\ TypeOK /\ session # "down" /\ session' # "down"
      /\ UNCHANGED mem
      /\ pc \in [Threads -> Labels] /\ since \in [Threads -> SUBSET Store]
      /\ mem \in past /\ LogRecoverable /\ DiskRecoverable /\ SinceKept
  BY DEF OneThread, LogInv, CheckpointInv, TypeOK, FlushStep, FlushStart, Close, EdgeFlush,
         CkptSkip, CkptCreate, CkptWrite, CkptRename, CkptFails, LogFails, CkptRecord, NoLogToFlush, WalFlush,
         WalTruncate, confVars, memVars, fileVars, histVars, Fallback
<1>2. CASE FlushStart(t) \/ Close(t)
  <2>1. /\ UNCHANGED <<buf, walFile, base, ckpt, past, since>>
        /\ pc[t] = "idle" /\ pc'[t] = "edgeFlush"
    BY <1>1, <1>2 DEF FlushStart, Close, Goto, confVars, memVars, fileVars, histVars
  <2>2. FileRecords' = FileRecords /\ (Headed' <=> Headed) /\ OnDisk' = OnDisk
    BY <2>1 DEF FileRecords, Headed, OnDisk
  <2>3. SinceKept'
    BY <1>1, <2>1 DEF SinceKept, Copied
  <2> QED
    BY <1>1, <2>1, <2>2, <2>3 DEF Fallback, LogRecoverable, DiskRecoverable
<1>3. CASE EdgeFlush(t)
  <2>1. /\ UNCHANGED <<ckpt, past, since>>
        /\ pc[t] = "edgeFlush" /\ pc'[t] = "ckptCreate"
    BY <1>1, <1>3 DEF EdgeFlush, Goto, histVars
  <2>2. SinceKept'
    BY <1>1, <2>1 DEF SinceKept, Copied
  <2>3. OnDisk' = OnDisk
    BY <2>1 DEF OnDisk
  <2>4. CASE edgeDirty /\ edgeWal
    <3>1. walFile' = NoFile
      BY <1>3, <2>4 DEF EdgeFlush
    <3>2. ~Headed'
      BY <3>1 DEF Headed
    <3>3. LogSaved
      BY <1>3, <2>4 DEF EdgeFlush, Spoilt, If
    <3>4. OnDisk \in past
      <4>1. CASE KvIndices(FileRecords) = {} \/ ~Headed
        BY <1>1, <4>1 DEF DiskRecoverable
      <4>2. CASE KvIndices(FileRecords) # {} /\ Headed
        <5>1. ckpt = Told /\ Told \in past
          BY <1>1, <3>3, <4>2, WholeLog DEF LogSaved
        <5>2. Told \in Store
          BY <1>1, LogTypes, OverType DEF Told
        <5> QED
          BY <5>1, <5>2, NotStore DEF OnDisk
      <4> QED
        BY <4>1, <4>2
    <3> QED
      BY <1>1, <2>1, <2>2, <2>3, <3>2, <3>4 DEF Fallback, LogRecoverable, DiskRecoverable
  <2>5. CASE ~(edgeDirty /\ edgeWal)
    <3>1. UNCHANGED <<buf, walFile, base>>
      BY <1>3, <2>5 DEF EdgeFlush
    <3>2. FileRecords' = FileRecords /\ (Headed' <=> Headed)
      BY <3>1 DEF FileRecords, Headed
    <3> QED
      BY <1>1, <2>1, <2>2, <2>3, <3>1, <3>2 DEF Fallback, LogRecoverable, DiskRecoverable
  <2> QED
    BY <2>4, <2>5
<1>4. CASE CkptSkip(t) \/ CkptCreate(t) \/ CkptWrite(t) \/ CkptRename(t)
  <2>1. UNCHANGED <<buf, walFile, base, past>>
    BY <1>4 DEF CkptSkip, CkptCreate, CkptWrite, CkptRename, confVars, memVars, fileVars, histVars
  <2>2. FileRecords' = FileRecords /\ (Headed' <=> Headed)
    BY <2>1 DEF FileRecords, Headed
  <2>3. SinceKept'
    <3>1. CASE CkptSkip(t) \/ CkptCreate(t)
      <4>1. since'[t] = {mem} /\ pc'[t] \in {"ckptRecord", "ckptWrite"}
        BY <1>1, <3>1 DEF CkptSkip, CkptCreate, Goto
      <4> QED
        BY <1>1, <4>1 DEF SinceKept, Copied
    <3>2. CASE CkptWrite(t) \/ CkptRename(t)
      <4>1. /\ since' = since /\ pc[t] \in {"ckptWrite", "ckptRename"}
            /\ pc'[t] \in {"ckptRename", "ckptRecord"}
        BY <1>1, <3>2 DEF CkptWrite, CkptRename, Goto, histVars
      <4> QED
        BY <1>1, <4>1 DEF SinceKept, Copied
    <3> QED
      BY <1>4, <3>1, <3>2
  <2>4. OnDisk' = OnDisk \/ OnDisk' = mem
    <3>1. CASE CkptSkip(t) \/ CkptCreate(t)
      BY <3>1 DEF CkptSkip, CkptCreate, OnDisk, fileVars
    <3>2. CASE CkptWrite(t)
      <4>1. fd[t] = "temp"
        BY <3>2 DEF CkptWrite, LogInv, CheckpointInv, HandleOwned
      <4> QED
        BY <3>2, <4>1 DEF CkptWrite, OnDisk
    <3>3. CASE CkptRename(t)
      <4>1. temp = mem /\ temp \in Store
        BY <3>3 DEF CkptRename, SavedInv, LogInv, CheckpointInv, HandleOwned
      <4> QED
        BY <3>3, <4>1, NotStore DEF CkptRename, OnDisk
    <3> QED
      BY <1>4, <3>1, <3>2, <3>3
  <2> QED
    BY <1>1, <2>1, <2>2, <2>3, <2>4 DEF Fallback, LogRecoverable, DiskRecoverable
<1>5. CASE CkptRecord(t)
  <2>1. /\ AppendLog(Marker) /\ UNCHANGED <<base, ckpt, past, since>>
        /\ pc[t] = "ckptRecord" /\ pc'[t] = "walFlush"
    BY <1>1, <1>5 DEF CkptRecord, Goto, confVars, histVars
  <2>2. LogRecoverable' /\ DiskRecoverable'
    BY <1>1, <2>1, MarkerType, WholeLog, AppendRecoverable
  <2>3. SinceKept'
    BY <1>1, <2>1 DEF SinceKept, Copied
  <2> QED
    BY <1>1, <2>1, <2>2, <2>3 DEF Fallback
<1>6. CASE WalFlush(t)
  <2>1. /\ walFile' = FlushLog(walFile, buf) /\ buf' = <<>>
        /\ UNCHANGED <<base, ckpt, past, since>>
        /\ pc[t] = "walFlush" /\ pc'[t] = "truncate"
    BY <1>1, <1>6 DEF WalFlush, Goto, confVars, histVars
  <2>2. FileRecords' = LoggedRecords /\ LoggedRecords \in Seq(Record)
    BY <1>1, <2>1, BufferWritten, LogTypes
  <2>3. /\ Headed' <=> Headed
        /\ KvIndices(FileRecords') = {} => KvIndices(FileRecords) = {}
    <3>1. CASE buf = <<>>
      BY <2>1, <3>1 DEF FlushLog, Headed, FileRecords
    <3>2. CASE buf # <<>>
      BY <1>1, <2>1, <3>2, ExtendedFile, LogTypes DEF FlushLog
    <3> QED
      BY <3>1, <3>2
  <2>4. Prefixes(buf') = {<<>>} /\ FileRecords' \o <<>> = FileRecords'
    BY <2>1, <2>2, BufferPrefixes, MarkerType
  <2>5. LogRecoverable' /\ DiskRecoverable'
    BY <1>1, <2>1, <2>2, <2>3, <2>4, WholeLog DEF LogRecoverable, DiskRecoverable, OnDisk
  <2>6. SinceKept'
    BY <1>1, <2>1 DEF SinceKept, Copied
  <2> QED
    BY <1>1, <2>1, <2>5, <2>6 DEF Fallback
<1>7. CASE NoLogToFlush(t) \/ WalTruncate(t)
  <2>1. /\ past' = past \cap since[t] /\ since'[t] = {} /\ pc'[t] = "idle"
        /\ pc[t] \in {"ckptRecord", "truncate"} /\ UNCHANGED ckpt
    BY <1>1, <1>7 DEF NoLogToFlush, WalTruncate, FlushReturns, Goto, fileVars
  <2>2. mem \in since[t]
    BY <1>1, <2>1 DEF SinceKept, Copied
  <2>3. OnDisk' = mem
    BY <1>1, <2>1, PublishedOnDisk DEF OnDisk
  <2>4. walFile' = NoFile
    BY <1>7 DEF NoLogToFlush, WalTruncate, fileVars, LogInv, LogFollows
  <2>5. ~Headed'
    BY <2>4 DEF Headed
  <2>6. SinceKept'
    BY <1>1, <2>1 DEF SinceKept, Copied
  <2> QED
    BY <1>1, <2>1, <2>2, <2>3, <2>5, <2>6 DEF Fallback, LogRecoverable, DiskRecoverable
<1> QED
  BY <1>2, <1>3, <1>4, <1>5, <1>6, <1>7 DEF FlushStep, CkptFails, LogFails

\* The whole records that a torn write leaves of those in flight tell of a store
\* that may be fallen back to.
LEMMA WholeRecoverable ==
  ASSUME OneThread, LogInv, Fallback, session # "down", Headed,
         NEW recs \in InFlight, NEW p \in Prefixes(recs)
  PROVE  p \in Seq(Record) /\ Over(base, FileRecords \o p) \in past
<1>1. /\ TypeOK /\ LogFollows /\ mem \in past /\ LogRecoverable
      /\ walOn
  BY DEF LogInv, CheckpointInv, Fallback, LogFollows, Headed
<1>2. /\ buf \in Seq(Record) /\ FileRecords \in Seq(Record) /\ LoggedRecords \in Seq(Record)
      /\ base \in Store /\ mem \in Store
  BY <1>1, LogTypes
<1>3. PICK t \in Threads :
        \/ pc[t] = "append" /\ recs = Append(buf, op[t])
        \/ recs = buf
        \/ recs = Append(buf, Marker)
  BY DEF InFlight
<1>4. CASE recs = buf
  BY <1>1, <1>2, <1>4, PrefixType DEF LogRecoverable
<1>5. CASE recs = Append(buf, Marker)
  <2>1. p \in Prefixes(buf) \/ p = Append(buf, Marker)
    BY <1>2, <1>5, BufferPrefixes, MarkerType
  <2>2. CASE p \in Prefixes(buf)
    BY <1>1, <1>2, <2>2, PrefixType DEF LogRecoverable
  <2>3. CASE p = Append(buf, Marker)
    <3>1. FileRecords \o p = Append(LoggedRecords, Marker) /\ p \in Seq(Record)
      BY <1>2, <2>3, MarkerType DEF LoggedRecords
    <3> QED
      BY <1>1, <3>1, WholeLog
  <2> QED
    BY <2>1, <2>2, <2>3
<1>6. CASE pc[t] = "append" /\ recs = Append(buf, op[t])
  <2>1. /\ op[t] \in Record /\ op[t].key \in Keys /\ op[t].val = mem[op[t].key]
        /\ \A u \in Threads : u = t
    BY <1>1, <1>6 DEF LogInv, TypeOK, OneThread
  <2>2. p \in Prefixes(buf) \/ p = Append(buf, op[t])
    BY <1>2, <1>6, <2>1, BufferPrefixes
  <2>3. CASE p \in Prefixes(buf)
    BY <1>1, <1>2, <2>3, PrefixType DEF LogRecoverable
  <2>4. CASE p = Append(buf, op[t])
    <3>1. FileRecords \o p = Append(LoggedRecords, op[t]) /\ p \in Seq(Record)
      BY <1>2, <2>1, <2>4 DEF LoggedRecords
    <3>2. Append(LoggedRecords, op[t]) \in Seq(Record)
      BY <1>2, <2>1
    <3>3. Over(base, Append(LoggedRecords, op[t])) =
            [k \in Keys |-> IF op[t].key = k THEN op[t].val ELSE Over(base, LoggedRecords)[k]]
      BY <1>2, <2>1, OverAppended
    <3>4. \A k \in Keys : mem[k] = Over(base, LoggedRecords)[k] \/ op[t].key = k
      BY <1>1, <2>1 DEF LogFollows
    <3>5. mem = [k \in Keys |-> IF op[t].key = k THEN op[t].val ELSE Over(base, LoggedRecords)[k]]
      BY <1>2, <2>1, <3>4 DEF Store
    <3>6. mem = Over(base, Append(LoggedRecords, op[t]))
      BY <3>3, <3>5
    <3> QED
      BY <1>1, <3>1, <3>6
  <2> QED
    BY <2>2, <2>3, <2>4
<1> QED
  BY <1>3, <1>4, <1>5, <1>6

\* A fragment behind them tells nothing.
LEMMA TornRecoverable ==
  ASSUME OneThread, LogInv, Fallback, session # "down", Headed,
         NEW recs \in InFlight, NEW p \in Beginnings(recs)
  PROVE  Over(base, FileRecords \o p) \in past
<1>1. FileRecords \in Seq(Record) /\ base \in Store
  BY LogTypes DEF LogInv, CheckpointInv
<1>2. ASSUME NEW q \in Prefixes(recs), p = Append(q, Fragment)
      PROVE  Over(base, FileRecords \o p) \in past
  <2>1. q \in Seq(Record) /\ Over(base, FileRecords \o q) \in past
    BY WholeRecoverable
  <2>2. FileRecords \o p = Append(FileRecords \o q, Fragment) /\ FileRecords \o q \in Seq(Record)
    BY <1>1, <1>2, <2>1, MarkerType
  <2> QED
    BY <1>1, <2>1, <2>2, OverMarked
<1> QED
  BY <1>2, WholeRecoverable DEF Beginnings

LEMMA FallbackStop ==
  ASSUME OneThread, LogInv, Fallback, Crash \/ Closed
  PROVE  Fallback'
<1>1. /\ session # "down" /\ session' = "down" /\ buf' = <<>>
      /\ UNCHANGED <<base, past, ckpt>>
      /\ \A t \in Threads : pc'[t] = "idle" /\ since'[t] = {}
      /\ TypeOK /\ LogRecoverable /\ DiskRecoverable
  BY DEF Crash, Closed, MemoryLost, fileVars, LogInv, CheckpointInv, Fallback
<1>2. SinceKept'
  BY <1>1 DEF SinceKept, Copied
<1>3. buf \in Seq(Record) /\ FileRecords \in Seq(Record) /\ FileRecords \o <<>> = FileRecords
  BY <1>1, LogTypes
<1>4. Prefixes(buf') = {<<>>}
  BY <1>1, <1>3, BufferPrefixes, MarkerType
<1>5. CASE walFile' = walFile
  <2>1. FileRecords' = FileRecords /\ (Headed' <=> Headed) /\ OnDisk' = OnDisk
    BY <1>1, <1>5 DEF FileRecords, Headed, OnDisk
  <2>2. Headed => Told \in past
    BY <1>1, WholeLog
  <2> QED
    BY <1>1, <1>2, <1>3, <1>4, <2>1, <2>2
    DEF Fallback, LogRecoverable, DiskRecoverable, Told
<1>6. CASE walFile' \in AfterTornWrite
  <2>1. PICK recs \in InFlight : \E p \in Beginnings(recs) : walFile' = Extend(walFile, p)
    BY <1>6 DEF AfterTornWrite
  <2>2. PICK p \in Beginnings(recs) : walFile' = Extend(walFile, p)
    BY <2>1
  <2>3. p \in Seq(Record)
    <3>1. recs \in Seq(Record)
      <4>1. \A t \in Threads : Append(buf, op[t]) \in Seq(Record)
        BY <1>1, <1>3 DEF TypeOK
      <4>2. Append(buf, Marker) \in Seq(Record)
        BY <1>3, MarkerType
      <4> QED
        BY <1>3, <4>1, <4>2 DEF InFlight
    <3> QED
      BY <3>1, BeginningType
  <2>4. /\ FileRecords' = FileRecords \o p
        /\ Headed' <=> Headed
        /\ KvIndices(FileRecords') = {} => KvIndices(FileRecords) = {}
    BY <1>1, <2>2, <2>3, ExtendedFile
  <2>5. Headed => Over(base, FileRecords') \in past
    BY <1>1, <2>4, TornRecoverable
  <2>6. FileRecords' \o <<>> = FileRecords'
    BY <1>3, <2>3, <2>4
  <2>7. LogRecoverable'
    BY <1>1, <1>4, <2>4, <2>5, <2>6 DEF LogRecoverable
  <2>8. DiskRecoverable'
    BY <1>1, <2>4 DEF DiskRecoverable, OnDisk
  <2> QED
    BY <1>1, <1>2, <2>7, <2>8 DEF Fallback
<1> QED
  BY <1>5, <1>6 DEF Crash, Closed, fileVars

\* open() shows a store that may be fallen back to.
LEMMA OpenedRecoverable ==
  ASSUME LogInv, Fallback, Open, ~Spoilt'
  PROVE  /\ mem' \in past /\ past' = {mem'}
         /\ KvIndices(FileRecords') = {} => OnDisk' = mem'
<1>1. /\ TypeOK /\ LogRecoverable /\ DiskRecoverable
      /\ walFile # NoFile => walFile.hdr
  BY DEF Open, LogInv, CheckpointInv, Fallback
<1>2. PICK read \in Seq(Record) :
        /\ FileRecords' = read /\ past' = {mem'}
        /\ \/ KvIndices(read) # {} /\ mem' = Told
           \/ mem' = OnDisk /\ OnDisk' = OnDisk /\ KvIndices(FileRecords) = {}
  BY <1>1, OpenReads
<1>3. CASE KvIndices(read) # {} /\ mem' = Told
  <2>1. walFile # NoFile
    <3>1. ASSUME walFile = NoFile
          PROVE  FALSE
      <4>1. walFile' = NoFile
        BY <3>1 DEF Open
      <4> QED
        BY <1>2, <1>3, <4>1, EmptyLog DEF FileRecords
    <3> QED
      BY <3>1
  <2>2. Told \in past
    BY <1>1, <2>1, WholeLog DEF Headed
  <2> QED
    BY <1>2, <1>3, <2>2
<1>4. CASE mem' = OnDisk /\ OnDisk' = OnDisk /\ KvIndices(FileRecords) = {}
  BY <1>1, <1>2, <1>4 DEF DiskRecoverable
<1> QED
  BY <1>2, <1>3, <1>4

LEMMA FallbackOpen ==
  ASSUME LogInv, LogInv', SavedInv, Fallback, Open, ~Spoilt'
  PROVE  Fallback'
<1>1. /\ session = "down" /\ session' = "up" /\ buf' = <<>>
      /\ UNCHANGED <<pc, since>>
      /\ \A t \in Threads : pc[t] = "idle"
      /\ SinceKept /\ TypeOK /\ TypeOK' /\ CheckpointInv'
      /\ walFile # NoFile => walFile.hdr
  BY DEF Open, LogInv, CheckpointInv, Fallback
<1>2. SinceKept'
  BY <1>1 DEF SinceKept, Copied
<1>3. FileRecords' \in Seq(Record) /\ FileRecords' \o <<>> = FileRecords'
  <2>1. FileRecords' \in Seq(Record)
    BY <1>1, NoRecordsType DEF TypeOK, FileRecords, LogFile
  <2> QED
    BY <2>1
<1>4. Prefixes(buf') = {<<>>}
  BY <1>1, NoRecordsType, BufferPrefixes, MarkerType
<1>5. mem' = Over(base', FileRecords')
  BY <1>1, LogOpen
<1>6. past' = {mem'} /\ (KvIndices(FileRecords') = {} => OnDisk' = mem')
  BY OpenedRecoverable
<1>7. KvIndices(FileRecords') # {} => Headed'
  <2>1. walFile' = NoFile \/ walFile'.hdr
    <3>1. CASE walFile = NoFile
      BY <3>1 DEF Open
    <3>2. CASE walFile # NoFile
      <4>1. walFile \in LogFile /\ walFile.hdr
        BY <1>1, <3>2 DEF TypeOK
      <4>2. PICK read : walFile' = [walFile EXCEPT !.recs = read]
        BY <3>2 DEF Open
      <4> QED
        BY <4>1, <4>2 DEF LogFile
    <3> QED
      BY <3>1, <3>2
  <2> QED
    BY <2>1, EmptyLog DEF Headed, FileRecords
<1>8. LogRecoverable'
  BY <1>3, <1>4, <1>5, <1>6 DEF LogRecoverable
<1>9. DiskRecoverable'
  BY <1>6, <1>7 DEF DiskRecoverable
<1> QED
  BY <1>2, <1>6, <1>8, <1>9 DEF Fallback

LEMMA FallbackStep ==
  ASSUME OneThread, ~V3Api, ~IoErrors, FallbackInv, [Next]_vars
  PROVE  FallbackInv'
<1>1. LogInv' /\ SavedInv'
  BY LogStep DEF FallbackInv
<1>2. Spoilt => Spoilt'
  <2>1. events \subseteq events'
    BY DEF Next, KvStep, KvWrite, KvWriteV3, KvAppend, KvAppendFails, KvEmit, InsertEdge,
           FlushStep, FlushStart, Close, EdgeFlush, CkptSkip, CkptCreate, CkptWrite, CkptRename,
           CkptFails, LogFails, CkptRecord, NoLogToFlush, WalFlush, WalTruncate, Crash, Closed, MemoryLost,
           OpenRefused, Open, confVars, vars
  <2> QED
    BY <2>1 DEF Spoilt
<1>3. ASSUME ~Spoilt'
      PROVE  Fallback'
  <2>1. LogInv /\ SavedInv /\ Fallback
    BY <1>2, <1>3 DEF FallbackInv
  <2>2. ASSUME OpenRefused \/ UNCHANGED vars
        PROVE  Fallback'
    <3>1. UNCHANGED <<session, base, mem, buf, walFile, ckpt, pc, past, since>>
      BY <2>2 DEF OpenRefused, vars, memVars, fileVars, histVars
    <3> QED
      BY <2>1, <3>1 DEF Fallback, LogRecoverable, DiskRecoverable, SinceKept, Headed, FileRecords,
                        OnDisk, Copied
  <2> QED
    BY <1>1, <1>3, <2>1, <2>2, FallbackWrites, FallbackFlush, FallbackStop, FallbackOpen DEF Next
<1> QED
  BY <1>1, <1>3 DEF FallbackInv

LEMMA FallbackMaps ==
  ASSUME OneThread, ~V3Api, ~IoErrors, FallbackInv, FallbackInv', [Next]_vars
  PROVE  [Durable!Next \/ Spoilt']_(Durable!vars)
<1> USE DEF Durable!vars
<1> SUFFICES ASSUME ~Spoilt'
             PROVE  [Durable!Next]_(Durable!vars)
  OBVIOUS
<1>1. ASSUME NEW t \in Threads, KvStep(t)
      PROVE  [Durable!Next]_(Durable!vars)
  <2>1. ASSUME NEW k \in Keys, NEW v \in Values, KvWrite(t, k, v)
        PROVE  Durable!Next
    BY <2>1 DEF KvWrite, PutStore, confVars, Durable!Next, Durable!Write, Values
  <2>2. CASE KvAppend(t) \/ KvEmit(t) \/ InsertEdge(t)
    BY <2>2 DEF KvAppend, KvEmit, InsertEdge, confVars, memVars, histVars
  <2> QED
    BY <1>1, <2>1, <2>2 DEF KvStep, KvWriteV3, KvAppendFails
<1>2. ASSUME NEW t \in Threads, FlushStep(t)
      PROVE  [Durable!Next]_(Durable!vars)
  <2>1. CASE NoLogToFlush(t) \/ WalTruncate(t)
    <3>1. /\ session # "down" /\ session' = session /\ mem' = mem
          /\ past' = past \cap since[t]
      BY <2>1 DEF NoLogToFlush, WalTruncate, FlushReturns, FallbackInv, LogInv, confVars, memVars
    <3>2. mem \in past'
      BY <1>1, <3>1 DEF FallbackInv, Fallback
    <3> QED
      BY <3>1, <3>2 DEF Durable!Next, Durable!Flush
  <2>2. CASE ~(NoLogToFlush(t) \/ WalTruncate(t))
    <3>1. UNCHANGED <<mem, past>> /\ (session # "down" <=> session' # "down")
      BY <1>2, <2>2
      DEF FlushStep, FlushStart, Close, EdgeFlush, CkptSkip, CkptCreate, CkptWrite, CkptRename,
          CkptFails, LogFails, CkptRecord, WalFlush, confVars, memVars, histVars
    <3> QED
      BY <3>1
  <2> QED
    BY <2>1, <2>2
<1>3. CASE Crash \/ Closed
  <2>1. session # "down" /\ session' = "down" /\ mem' = Empty /\ UNCHANGED past
    BY <1>3 DEF Crash, Closed, MemoryLost
  <2> QED
    BY <2>1 DEF Durable!Next, Durable!Stop, Empty, Durable!Empty
<1>4. CASE OpenRefused
  BY <1>4 DEF OpenRefused, memVars, histVars
<1>5. CASE Open
  <2>1. session = "down" /\ session' = "up"
    BY <1>5 DEF Open
  <2>2. Fallback
    <3>1. events \subseteq events'
      BY <1>5 DEF Open
    <3> QED
      BY <3>1 DEF FallbackInv, Spoilt
  <2>3. mem' \in past /\ past' = {mem'}
    BY <1>5, <2>2, OpenedRecoverable DEF FallbackInv
  <2> QED
    BY <2>1, <2>3 DEF Durable!Next, Durable!Reopen
<1>6. CASE UNCHANGED vars
  BY <1>6 DEF vars
<1> QED
  BY <1>1, <1>2, <1>3, <1>4, <1>5, <1>6 DEF Next

\* The one way to a log that open() reads otherwise than it was written is a
\* write that was cut short with records written behind it: a torn write at the
\* end of the file, or none, costs nothing that was written in whole.
THEOREM OnlyFragmentsGarble ==
  Spec => [][ "garbled" \in events' \ events =>
                \E i \in DOMAIN FileRecords : FileRecords[i] = Fragment /\ i # Len(FileRecords) ]_vars
<1> DEFINE Step == "garbled" \in events' \ events =>
                     \E i \in DOMAIN FileRecords : FileRecords[i] = Fragment /\ i # Len(FileRecords)
<1>1. ASSUME TypeOK, Next
      PROVE  Step
  <2> SUFFICES ASSUME \A i \in DOMAIN FileRecords : FileRecords[i] = Fragment => i = Len(FileRecords)
               PROVE  "garbled" \notin events' \ events
    OBVIOUS
  <2>1. CASE Open
    <3>1. \A read \in Readings(FileRecords) : read = FileRecords
      BY <1>1, WholeLogIsRead, LogTypes
    <3>2. \E read \in Readings(FileRecords) :
            \/ events' = events \cup If(Replay(read) # Told,
                                       IF read = FileRecords THEN "hidden" ELSE "garbled")
            \/ KvIndices(read) = {} /\ events' = events \cup If(KvIndices(FileRecords) # {}, "garbled")
      BY <2>1 DEF Open
    <3> QED
      BY <3>1, <3>2 DEF If
  <2>2. CASE ~Open
    BY <1>1, <2>2
    DEF Next, KvStep, KvWrite, KvWriteV3, KvAppend, KvAppendFails, KvEmit, InsertEdge,
        FlushStep, FlushStart, Close, EdgeFlush, CkptSkip, CkptCreate, CkptWrite, CkptRename,
        CkptFails, LogFails, CkptRecord, NoLogToFlush, WalFlush, WalTruncate, Crash, Closed,
        MemoryLost, OpenRefused, If, confVars
  <2> QED
    BY <2>1, <2>2
<1>2. TypeOK /\ [Next]_vars => [Step]_vars
  BY <1>1
<1> QED
  BY <1>2, TypeCorrect, PTL DEF Spec

\* With one thread, with a log or without, in whatever part it is buffered,
\* written, torn or emptied when the process dies, the engine implements
\* KvDurable until open() hides a store behind a log that tells only part of it,
\* or the edge store drops a log that no checkpoint has replaced.
THEOREM DurableWithLog ==
  ASSUME OneThread, ~V3Api, ~IoErrors
  PROVE  Spec => RecoversRecentStore
<1>1. Init => FallbackInv /\ Durable!Init
  BY FallbackInit, DurableInitMaps
<1>2. FallbackInv /\ [Next]_vars => FallbackInv'
  BY FallbackStep
<1>3. FallbackInv /\ FallbackInv' /\ [Next]_vars => [Durable!Next \/ Spoilt']_(Durable!vars)
  BY FallbackMaps
<1> QED
  BY <1>1, <1>2, <1>3, PTL DEF Spec, RecoversRecentStore
=============================================================================
