---- MODULE ChronoStoreProofs ----
(***************************************************************************)
(* Proofs about ChronoStore, for every set of ids, contents and faults,    *)
(* every snapshot interval and every number of writes.                     *)
(***************************************************************************)
EXTENDS ChronoStoreInv, StoreQueries, FiniteLemmas

-----------------------------------------------------------------------------
(* Type correctness.                                                       *)

LEMMA RecordTypes ==
    /\ NoRec \in Cell
    /\ Tombstone \in Rec
    /\ CompactRec \in Rec
    /\ \A r \in Rec : r # NoRec
<1>1. NoRec \in Cell
  BY DEF Cell
<1>2. Tombstone \in Rec
  BY StatusAssumption DEF Tombstone, Rec, Blank
<1>3. CompactRec \in Rec
  BY StatusAssumption DEF CompactRec, Rec, Blank
<1>4. ASSUME NEW r \in Rec PROVE r # NoRec
  BY StatusAssumption DEF Rec, NoRec
<1> QED BY <1>1, <1>2, <1>3, <1>4

LEMMA CallTypes ==
    ASSUME NEW c \in Calls
    PROVE  /\ c.rec \in Rec
           /\ c.op \in {"upsert", "delete"} => c.id \in Ids
           /\ c.op = "compact" => c.id = CompactId
           /\ c.op \in EventOps \cup {"open", "close"}
<1>1. CASE c \in UpsertCalls
  BY <1>1 DEF UpsertCalls, Rec, EventOps
<1>2. CASE c \in DeleteCalls
  BY <1>2, RecordTypes DEF DeleteCalls, EventOps
<1>3. CASE c \in {CompactCall, OpenCall, CloseCall}
  BY <1>3, RecordTypes DEF CompactCall, OpenCall, CloseCall, EventOps
<1> QED BY <1>1, <1>2, <1>3 DEF Calls, WriteCalls

LEMMA EventTypes ==
    ASSUME NEW n \in Nat, NEW c \in Calls, c.op \in EventOps, NEW h \in Seq(Payload)
    PROVE  /\ Event(n, c, h) \in Line
           /\ Hash(Event(n, c, h)) \in Seq(Payload)
<1>1. Event(n, c, h) \in Line
  BY CallTypes DEF Event, Line, EventOps
<1>2. [seq |-> n, op |-> c.op, id |-> c.id, rec |-> c.rec] \in Payload
  BY CallTypes DEF Payload, EventOps
<1> QED BY <1>1, <1>2 DEF Event, Hash

LEMMA GarbageType == Garbage \in Line
BY DEF Line

LEMMA AsReadType ==
    ASSUME NEW e \in Line
    PROVE  AsRead(e) \in Line
BY GarbageType DEF AsRead

LEMMA LineFields ==
    ASSUME NEW e \in Line
    PROVE  /\ e.seq \in Nat
           /\ e.op \in EventOps \cup {"garbage"}
           /\ e.id \in Ids \cup {CompactId}
           /\ e.op \in {"upsert", "delete"} => e.id \in Ids
           /\ e.rec \in Rec
           /\ e.prev \in Seq(Payload)
           /\ e.op = "garbage" => e = Garbage /\ e.seq = 0
<1>1. CASE e = Garbage
  BY <1>1, RecordTypes DEF Garbage, Genesis, EventOps
<1>2. CASE e # Garbage
  BY <1>2 DEF Line, EventOps
<1> QED BY <1>1, <1>2

LEMMA SentinelType ==
    ASSUME NEW n \in Nat
    PROVE  Sentinel(n) \in Line /\ Hash(Sentinel(n)) \in Seq(Payload)
<1>1. CompactCall \in Calls /\ CompactCall.op \in EventOps
  BY DEF CompactCall, Calls, WriteCalls, EventOps
<1>2. Genesis \in Seq(Payload)
  BY DEF Genesis
<1> QED BY <1>1, <1>2, EventTypes DEF Sentinel

LEMMA HashType ==
    ASSUME NEW e \in Line, e.op # "garbage"
    PROVE  Hash(e) \in Seq(Payload)
<1>1. [seq |-> e.seq, op |-> e.op, id |-> e.id, rec |-> e.rec] \in Payload
  BY LineFields DEF Payload
<1>2. e.prev \in Seq(Payload)
  BY LineFields
<1> QED BY <1>1, <1>2 DEF Hash

LEMMA AppliedType ==
    ASSUME NEW m \in [Ids -> Cell], NEW e, e.rec \in Rec,
           e.op \in {"upsert", "delete"} => e.id \in Ids
    PROVE  Applied(m, e) \in [Ids -> Cell]
<1>1. CASE e.op = "upsert"
  BY <1>1 DEF Applied, Cell
<1>2. CASE e.op = "delete" /\ m[e.id] # NoRec
  <2>1. m[e.id] \in Rec
    BY <1>2 DEF Cell
  <2>2. [m[e.id] EXCEPT !.status = "tombstone"] \in Rec
    BY <2>1, StatusAssumption DEF Rec
  <2> QED BY <1>2, <2>2 DEF Applied, Cell
<1>3. CASE e.op # "upsert" /\ ~(e.op = "delete" /\ m[e.id] # NoRec)
  BY <1>3 DEF Applied
<1> QED BY <1>1, <1>2, <1>3

LEMMA AppendLineType ==
    ASSUME wal \in Seq(Line), torn => Len(wal) > 0, NEW line \in Line
    PROVE  AppendLine(line) \in Seq(Line) /\ Len(AppendLine(line)) > 0
BY GarbageType DEF AppendLine

LEMMA TypeInit == Init => TypeOK
<1> SUFFICES ASSUME Init PROVE TypeOK
  OBVIOUS
<1>1. NoSnapshot \in Snapshot /\ Empty \in [Ids -> Cell] /\ Genesis \in Seq(Payload)
  BY RecordTypes DEF NoSnapshot, Snapshot, Empty, Genesis
<1>2. CloseCall \in Calls
  BY DEF Calls
<1>3. DiskTypes
  <2>1. <<>> \in Seq(Line)
    OBVIOUS
  <2> QED BY <1>1, <2>1 DEF Init, DiskTypes
<1>4. MemoryTypes
  BY <1>1 DEF Init, MemoryTypes
<1>5. ControlTypes
  BY <1>2, BoundsAssumption DEF Init, ControlTypes
<1> QED BY <1>3, <1>4, <1>5 DEF TypeOK

LEMMA TypeStep == TypeOK /\ [Next]_vars => TypeOK'
<1> SUFFICES ASSUME TypeOK, [Next]_vars PROVE TypeOK'
  OBVIOUS
<1>f. \A c \in Calls : FirstStep(c) \in {"append", "compact", "idle"}
                       /\ (FirstStep(c) = "append" => c.op \in {"upsert", "delete"})
  BY DEF FirstStep
<1>e. Empty \in [Ids -> Cell] /\ Genesis \in Seq(Payload) /\ CloseCall \in Calls
      /\ OpenCall \in Calls
  BY RecordTypes DEF Empty, Genesis, Calls
<1>1. CASE Write
  <2>1. PICK call \in WriteCalls : Call(call)
    BY <1>1 DEF Write
  <2>2. writes' \in 0..MaxWrites
    BY <1>1, BoundsAssumption DEF Write, TypeOK, DiskTypes, MemoryTypes, ControlTypes
  <2>3. req' \in Calls /\ pc' \in {"append", "compact", "idle", "load"}
        /\ (pc' = "append" => req'.op \in {"upsert", "delete"})
    BY <2>1, <1>f DEF Call, Calls
  <2> QED BY <2>1, <2>2, <2>3 DEF Call, TypeOK, DiskTypes, MemoryTypes, ControlTypes
<1>2. CASE Open
  <2>1. req' \in Calls /\ pc' = "load"
    BY <1>2, <1>e DEF Open, Call
  <2> QED BY <1>2, <2>1 DEF Open, Call, TypeOK, DiskTypes, MemoryTypes, ControlTypes
<1>3. CASE Close
  BY <1>3, <1>e DEF Close, TypeOK, DiskTypes, MemoryTypes, ControlTypes
<1>4. CASE LoadSnapshot
  <2>1. [id \in Ids |-> IF snap.records[id] # NoRec THEN snap.records[id] ELSE state[id]]
          \in [Ids -> Cell]
    BY DEF TypeOK, DiskTypes, MemoryTypes, ControlTypes, Snapshot
  <2> QED BY <1>4, <2>1, <1>e DEF LoadSnapshot, TypeOK, DiskTypes, MemoryTypes, ControlTypes, Snapshot
<1>5. CASE SkipLine
  BY <1>5 DEF SkipLine, TypeOK, DiskTypes, MemoryTypes, ControlTypes
<1>6. CASE ReplayLine
  <2> DEFINE e == wal[cursor + 1]
  <2>1. e \in Line /\ e.op # "garbage"
    BY <1>6 DEF ReplayLine, TypeOK, DiskTypes, MemoryTypes, ControlTypes, Skipped
  <2>2. Applied(state, e) \in [Ids -> Cell]
    BY <2>1, AppliedType, LineFields DEF TypeOK, MemoryTypes
  <2>3. Hash(e) \in Seq(Payload)
    BY <2>1, HashType
  <2>4. e.seq \in Nat
    BY <2>1, LineFields
  <2> QED BY <1>6, <2>2, <2>3, <2>4 DEF ReplayLine, TypeOK, DiskTypes, MemoryTypes, ControlTypes
<1>7. CASE Opened
  BY <1>7, <1>f DEF Opened, TypeOK, DiskTypes, MemoryTypes, ControlTypes
<1>8. CASE AppendWal \/ AppendFails \/ TornAppend
  <2>1. req \in Calls /\ req.op \in EventOps /\ seq + 1 \in Nat /\ lastHash \in Seq(Payload)
    <3>1. pc = "append"
      BY <1>8 DEF AppendWal, AppendFails, TornAppend
    <3> QED BY <3>1 DEF TypeOK, DiskTypes, MemoryTypes, ControlTypes, EventOps
  <2>2. Event(seq + 1, req, lastHash) \in Line
        /\ Hash(Event(seq + 1, req, lastHash)) \in Seq(Payload)
    BY <2>1, EventTypes
  <2>3. \A line \in Line : AppendLine(line) \in Seq(Line) /\ Len(AppendLine(line)) > 0
    BY AppendLineType DEF TypeOK, DiskTypes
  <2>7. AsRead(Event(seq + 1, req, lastHash)) \in Line
    BY <2>2, AsReadType
  <2>4. CASE AppendWal
    BY <2>4, <2>1, <2>2, <2>3, <2>7 DEF AppendWal, BuildEvent, TypeOK, DiskTypes, MemoryTypes, ControlTypes
  <2>5. CASE AppendFails
    BY <2>5, <2>1, <2>2 DEF AppendFails, BuildEvent, TypeOK, DiskTypes, MemoryTypes, ControlTypes
  <2>6. CASE TornAppend
    BY <2>6, <2>1, <2>2, <2>3, <2>7, GarbageType DEF TornAppend, BuildEvent, TypeOK, DiskTypes, MemoryTypes, ControlTypes
  <2> QED BY <1>8, <2>4, <2>5, <2>6
<1>9. CASE ApplyUpsert
  <2>1. [state EXCEPT ![req.id] = req.rec] \in [Ids -> Cell]
    BY <1>9, CallTypes DEF ApplyUpsert, TypeOK, DiskTypes, MemoryTypes, ControlTypes, Cell
  <2> QED BY <1>9, <2>1 DEF ApplyUpsert, TypeOK, DiskTypes, MemoryTypes, ControlTypes
<1>10. CASE ApplyDelete
  <2>1. state' = Applied(state, req)
    BY <1>10 DEF ApplyDelete, Applied
  <2>2. state' \in [Ids -> Cell]
    BY <2>1, AppliedType, CallTypes DEF TypeOK, DiskTypes, MemoryTypes, ControlTypes
  <2> QED BY <1>10, <2>2 DEF ApplyDelete, TypeOK, DiskTypes, MemoryTypes, ControlTypes
<1>11. CASE UpsertSnapshot \/ CloseSnapshot \/ CompactSnapshot
  <2>1. snap' \in Snapshot
    BY <1>11 DEF UpsertSnapshot, CloseSnapshot, CompactSnapshot, WriteSnapshot,
                 Snapshot, TypeOK, DiskTypes, MemoryTypes, ControlTypes
  <2>2. CASE UpsertSnapshot
    BY <2>1, <2>2 DEF UpsertSnapshot, TypeOK, DiskTypes, MemoryTypes, ControlTypes
  <2>3. CASE CloseSnapshot
    BY <2>1, <2>3 DEF CloseSnapshot, TypeOK, DiskTypes, MemoryTypes, ControlTypes
  <2>4. CASE CompactSnapshot
    BY <2>1, <2>4 DEF CompactSnapshot, TypeOK, DiskTypes, MemoryTypes, ControlTypes
  <2> QED BY <1>11, <2>2, <2>3, <2>4
<1>12. CASE SnapshotFails
  BY <1>12 DEF SnapshotFails, TypeOK, DiskTypes, MemoryTypes, ControlTypes
<1>13. CASE Truncate \/ TruncateFails
  <2>1. seq + 1 \in Nat
    BY DEF TypeOK, MemoryTypes
  <2>2. Hash(Sentinel(seq + 1)) \in Seq(Payload)
    BY <2>1, SentinelType
  <2>3. CASE Truncate
    <3>1. <<>> \in Seq(Line)
      OBVIOUS
    <3> QED BY <2>1, <2>2, <2>3, <3>1 DEF Truncate, BuildSentinel, TypeOK, DiskTypes, MemoryTypes, ControlTypes
  <2>4. CASE TruncateFails
    BY <2>1, <2>2, <2>4 DEF TruncateFails, BuildSentinel, TypeOK, DiskTypes, MemoryTypes, ControlTypes
  <2> QED BY <1>13, <2>3, <2>4
<1>14. CASE WriteSentinel \/ TornSentinel
  <2>1. \A line \in Line : <<line>> \in Seq(Line) /\ Len(<<line>>) > 0
    OBVIOUS
  <2>2. Sentinel(seq) \in Line /\ Garbage \in Line
    BY SentinelType, GarbageType DEF TypeOK, MemoryTypes
  <2>3. wal' \in Seq(Line) /\ Len(wal') > 0
    BY <1>14, <2>1, <2>2 DEF WriteSentinel, TornSentinel
  <2>4. CASE WriteSentinel
    BY <2>3, <2>4 DEF WriteSentinel, TypeOK, DiskTypes, MemoryTypes, ControlTypes
  <2>5. CASE TornSentinel
    BY <2>3, <2>5 DEF TornSentinel, TypeOK, DiskTypes, MemoryTypes, ControlTypes
  <2> QED BY <1>14, <2>4, <2>5
<1>15. CASE SentinelFails
  BY <1>15 DEF SentinelFails, TypeOK, DiskTypes, MemoryTypes, ControlTypes
<1>16. CASE Crash
  <2>d. DiskTypes'
    BY <1>16, <1>e DEF Crash, TypeOK, DiskTypes, MemoryTypes, ControlTypes
  <2>m. MemoryTypes'
    BY <1>16, <1>e DEF Crash, TypeOK, DiskTypes, MemoryTypes, ControlTypes
  <2>c. ControlTypes'
    BY <1>16, <1>e DEF Crash, TypeOK, DiskTypes, MemoryTypes, ControlTypes
  <2> QED BY <2>d, <2>m, <2>c DEF TypeOK
<1>17. CASE RotSnapshot
  <2>1. snap' \in Snapshot
    BY <1>17 DEF RotSnapshot, Snapshot, TypeOK, DiskTypes, MemoryTypes, ControlTypes
  <2> QED BY <1>17, <2>1 DEF RotSnapshot, TypeOK, DiskTypes, MemoryTypes, ControlTypes
<1>18. CASE UNCHANGED vars
  BY <1>18 DEF vars, TypeOK, DiskTypes, MemoryTypes, ControlTypes
<1>19. CASE ReadFails
  <2>1. struck' \subseteq Faults \cup {"split_line"}
    BY <1>19 DEF ReadFails, TypeOK, ControlTypes
  <2>2. CASE SnapshotUnread
    BY <1>e, <2>1, <2>2 DEF SnapshotUnread, TypeOK, DiskTypes, MemoryTypes, ControlTypes
  <2>3. CASE LogUnread
    BY <1>f, <2>1, <2>3 DEF LogUnread, TypeOK, DiskTypes, MemoryTypes, ControlTypes
  <2> QED BY <1>19, <2>2, <2>3 DEF ReadFails
<1> QED BY <1>1, <1>2, <1>3, <1>4, <1>5, <1>6, <1>7, <1>8, <1>9, <1>10, <1>11, <1>12,
           <1>13, <1>14, <1>15, <1>16, <1>17, <1>18, <1>19 DEF Next, Informed, Step, Failure

\* Type correctness of the store: every variable keeps a value of its type.
THEOREM TypeCorrect == Spec => []TypeOK
BY TypeInit, TypeStep, PTL DEF Spec

LEMMA TypeInformed == TypeOK /\ [Informed]_vars => TypeOK'
BY TypeStep DEF Next

\* What has struck stays struck.
LEMMA StruckStays == [Informed]_vars => struck \subseteq struck'
BY DEF Informed, Step, Failure, Write, Open, Close, Call, LoadSnapshot,
       SkipLine, ReplayLine, Opened, AppendWal, ApplyUpsert, ApplyDelete, UpsertSnapshot,
       CloseSnapshot, CompactSnapshot, Truncate, WriteSentinel, AppendFails, TornAppend,
       SnapshotFails, TruncateFails, SentinelFails, TornSentinel, Crash, RotSnapshot, vars

\* While every file has been read, the steps were those of Informed.
LEMMA InformedSteps == [Next]_vars /\ AllRead' => AllRead /\ [Informed]_vars
BY StruckStays DEF Next, ReadFails, AllRead

-----------------------------------------------------------------------------
(* Numbering.                                                              *)

\* What an appended line does to the file: it comes last, and every other
\* line is one that was there or is unreadable.
LEMMA AppendLineEffect ==
    ASSUME TypeOK, NEW line \in Line
    PROVE  LET w == AppendLine(line) IN
           /\ DOMAIN w = 1..Len(w) /\ Len(w) \in {Len(wal), Len(wal) + 1}
           /\ \A i \in DOMAIN w : \/ i \in DOMAIN wal /\ w[i] = wal[i]
                                  \/ i = Len(w) /\ w[i] \in {line, Garbage}
           /\ ~torn => w = Append(wal, line)
<1>1. wal \in Seq(Line) /\ (torn => Len(wal) > 0) /\ torn \in BOOLEAN
  BY DEF TypeOK, DiskTypes
<1>2. CASE torn
  BY <1>1, <1>2, GarbageType DEF AppendLine
<1>3. CASE ~torn
  BY <1>1, <1>3 DEF AppendLine
<1> QED BY <1>1, <1>2, <1>3

LEMMA WithinAppend ==
    ASSUME TypeOK, Within(seq), NEW line \in Line, line.seq = seq + 1, wal' = AppendLine(line)
    PROVE  \A i \in DOMAIN wal' : wal'[i].seq <= seq + 1
<1>1. seq \in Nat /\ Garbage.seq = 0 /\ \A i \in DOMAIN wal : wal[i].seq \in Nat
  BY LineFields DEF TypeOK, DiskTypes, MemoryTypes, Garbage
<1> QED BY <1>1, AppendLineEffect DEF Within

LEMMA SeqIncreasingAppend ==
    ASSUME TypeOK, Increasing, Positive, Within(seq),
           NEW line \in Line, line.seq = seq + 1 \/ line = Garbage, wal' = AppendLine(line)
    PROVE  Increasing' /\ Positive'
<1>1. seq \in Nat /\ Garbage.op = "garbage" /\ \A i \in DOMAIN wal : wal[i].seq \in Nat
  BY LineFields DEF TypeOK, DiskTypes, MemoryTypes, Garbage
<1>2. DOMAIN wal = 1..Len(wal) /\ Len(wal) \in Nat
  BY DEF TypeOK, DiskTypes
<1>3. Increasing'
  BY <1>1, <1>2, AppendLineEffect DEF Increasing, Within
<1>4. Positive'
  BY <1>1, <1>2, AppendLineEffect DEF Positive
<1> QED BY <1>3, <1>4

LEMMA NumberInit == Init => NumberInv
<1> SUFFICES ASSUME Init PROVE NumberInv
  OBVIOUS
<1>1. TypeOK
  BY TypeInit
<1>2. DOMAIN wal = {}
  BY DEF Init
<1> QED BY <1>1, <1>2 DEF Init, NumberInv, Increasing, Positive, CountsAhead, CountsRead,
                          WorkingIsOpen, AtSentinel

\* The steps that leave events.wal and snapshot.json alone.
LEMMA NumberMemoryStep ==
    ASSUME NumberInv, TypeOK', UNCHANGED <<wal, torn>>,
           snap' = snap \/ snap'.kind = "corrupt",
           CountsAhead', CountsRead', WorkingIsOpen', AtSentinel'
    PROVE  NumberInv'
BY DEF NumberInv, Increasing, Positive

LEMMA NumberStep == NumberInv /\ [Informed]_vars => NumberInv'
<1> SUFFICES ASSUME NumberInv, [Informed]_vars PROVE NumberInv'
  OBVIOUS
<1>t. TypeOK /\ TypeOK'
  BY TypeInformed DEF NumberInv
<1>n. /\ seq \in Nat /\ snap.seq \in Nat /\ cursor \in Nat
      /\ DOMAIN wal = 1..Len(wal) /\ Len(wal) \in Nat
      /\ \A i \in DOMAIN wal : wal[i].seq \in Nat /\ wal[i] \in Line
  BY <1>t, LineFields DEF TypeOK, DiskTypes, MemoryTypes, ControlTypes, Snapshot
<1>1. CASE Write \/ Open
  <2>1. PICK call : Call(call)
    BY <1>1 DEF Write, Open
  <2>2. CountsAhead' /\ CountsRead' /\ WorkingIsOpen' /\ AtSentinel'
    BY <2>1 DEF Call, FirstStep, NumberInv, CountsAhead, CountsRead, WorkingIsOpen, AtSentinel,
                Ahead, Within
  <2> QED BY <2>1, <2>2, <1>t, NumberMemoryStep DEF Call
<1>2. CASE Close
  BY <1>2, <1>t, NumberMemoryStep
     DEF Close, NumberInv, CountsAhead, CountsRead, WorkingIsOpen, AtSentinel, Ahead, Within
<1>3. CASE LoadSnapshot
  <2>1. CountsAhead' /\ CountsRead' /\ WorkingIsOpen' /\ AtSentinel'
    BY <1>3, <1>n DEF LoadSnapshot, NumberInv, CountsAhead, CountsRead, WorkingIsOpen, AtSentinel
  <2> QED BY <2>1, <1>3, <1>t, NumberMemoryStep DEF LoadSnapshot
<1>4. CASE SkipLine
  <2>1. wal[cursor + 1].seq <= seq
    BY <1>4, <1>n, LineFields DEF SkipLine, Skipped
  <2>2. CountsRead'
    BY <2>1, <1>4, <1>n DEF SkipLine, NumberInv, CountsRead
  <2>3. CountsAhead' /\ WorkingIsOpen' /\ AtSentinel'
    BY <1>4 DEF SkipLine, NumberInv, CountsAhead, WorkingIsOpen, AtSentinel
  <2> QED BY <2>2, <2>3, <1>4, <1>t, NumberMemoryStep DEF SkipLine
<1>5. CASE ReplayLine
  <2>1. /\ seq' >= seq /\ seq' >= wal[cursor + 1].seq /\ cursor' = cursor + 1
        /\ seq' \in Nat
    BY <1>5, <1>n DEF ReplayLine
  <2>2. CountsRead'
    BY <2>1, <1>5, <1>n DEF ReplayLine, NumberInv, CountsRead
  <2>3. CountsAhead' /\ WorkingIsOpen' /\ AtSentinel'
    BY <1>5 DEF ReplayLine, NumberInv, CountsAhead, WorkingIsOpen, AtSentinel
  <2> QED BY <2>2, <2>3, <1>5, <1>t, NumberMemoryStep DEF ReplayLine
<1>6. CASE Opened
  <2>1. Ahead
    BY <1>6, <1>n DEF Opened, NumberInv, CountsRead, Ahead, Within
  <2>2. CountsAhead' /\ CountsRead' /\ WorkingIsOpen' /\ AtSentinel'
    BY <2>1, <1>6 DEF Opened, FirstStep, CountsAhead, CountsRead, WorkingIsOpen, AtSentinel,
                      Ahead, Within
  <2> QED BY <2>2, <1>6, <1>t, NumberMemoryStep DEF Opened
<1>7. CASE AppendWal \/ TornAppend
  <2>1. Ahead /\ opened
    BY <1>7 DEF AppendWal, TornAppend, NumberInv, CountsAhead, WorkingIsOpen
  <2>2. req \in Calls /\ req.op \in EventOps
    BY <1>7, <1>t DEF AppendWal, TornAppend, TypeOK, ControlTypes, EventOps
  <2>3. Event(seq + 1, req, lastHash) \in Line /\ Event(seq + 1, req, lastHash).seq = seq + 1
    <3>1. seq + 1 \in Nat /\ lastHash \in Seq(Payload)
      BY <1>t DEF TypeOK, MemoryTypes
    <3>2. Event(seq + 1, req, lastHash) \in Line
      BY <2>2, <3>1, EventTypes
    <3> QED BY <3>2 DEF Event
  <2>4. PICK line \in Line : /\ line.seq = seq + 1 \/ line = Garbage
                             /\ wal' = AppendLine(line)
    BY <1>7, <2>3, GarbageType DEF AppendWal, TornAppend, AsRead
  <2>5. Increasing' /\ Positive'
    BY <2>1, <2>4, <1>t, SeqIncreasingAppend DEF NumberInv, Ahead
  <2>6. \A i \in DOMAIN wal' : wal'[i].seq <= seq + 1
    BY <2>1, <2>4, <1>t, <1>n, AppendLineEffect DEF Ahead, Within, Garbage
  <2>7. seq' = seq + 1 /\ snap' = snap /\ opened' = opened /\ pc' \in {"apply", "idle"}
    BY <1>7 DEF AppendWal, TornAppend, BuildEvent
  <2>8. CountsAhead' /\ CountsRead' /\ WorkingIsOpen' /\ AtSentinel'
    BY <2>1, <2>6, <2>7, <1>n DEF CountsAhead, CountsRead, WorkingIsOpen, AtSentinel, Ahead, Within
  <2> QED BY <2>5, <2>8, <1>t DEF NumberInv
<1>8. CASE AppendFails \/ TruncateFails
  <2>1. Ahead /\ opened /\ UNCHANGED <<wal, torn, snap, opened>>
        /\ seq' = seq + 1 /\ pc' = "idle"
    BY <1>8 DEF AppendFails, TruncateFails, BuildEvent, BuildSentinel,
                NumberInv, CountsAhead, WorkingIsOpen
  <2>2. CountsAhead' /\ CountsRead' /\ WorkingIsOpen' /\ AtSentinel'
    BY <2>1, <1>n DEF CountsAhead, CountsRead, WorkingIsOpen, AtSentinel, Ahead, Within
  <2> QED BY <2>1, <2>2, <1>t, NumberMemoryStep
<1>9. CASE ApplyUpsert \/ ApplyDelete \/ SnapshotFails \/ SentinelFails
  <2>1. /\ UNCHANGED <<wal, torn, snap, seq, opened>>
        /\ pc' \in {"idle", "snapshot"} /\ pc \notin {"load", "replay", "idle"}
    BY <1>9 DEF ApplyUpsert, ApplyDelete, SnapshotFails, SentinelFails
  <2>2. CountsAhead' /\ CountsRead' /\ WorkingIsOpen' /\ AtSentinel'
    BY <2>1 DEF NumberInv, CountsAhead, CountsRead, WorkingIsOpen, AtSentinel, Ahead, Within
  <2> QED BY <2>1, <2>2, <1>t, NumberMemoryStep
<1>10. CASE UpsertSnapshot \/ CloseSnapshot \/ CompactSnapshot
  <2>1. /\ UNCHANGED <<wal, torn, seq>> /\ snap'.seq = seq
        /\ pc' \in {"idle", "truncate"} /\ pc \notin {"load", "replay", "idle"}
        /\ opened' = opened \/ pc' = "idle"
    BY <1>10 DEF UpsertSnapshot, CloseSnapshot, CompactSnapshot, WriteSnapshot
  <2>4. Ahead /\ opened
    BY <2>1 DEF NumberInv, CountsAhead, WorkingIsOpen
  <2>5. Ahead'
    BY <2>1, <2>4, <1>n DEF Ahead, Within
  <2>2. CountsAhead' /\ CountsRead' /\ WorkingIsOpen' /\ AtSentinel'
    BY <2>1, <2>4, <2>5 DEF CountsAhead, CountsRead, WorkingIsOpen, AtSentinel
  <2>3. Increasing' /\ Positive'
    BY <2>1 DEF NumberInv, Increasing, Positive
  <2> QED BY <2>2, <2>3, <1>t DEF NumberInv
<1>11. CASE Truncate
  <2>1. /\ wal' = <<>> /\ torn' = FALSE /\ pc' = "sentinel" /\ seq' = seq + 1
        /\ UNCHANGED <<snap, opened>> /\ Ahead /\ opened
    BY <1>11 DEF Truncate, BuildSentinel, NumberInv, CountsAhead, WorkingIsOpen
  <2>2. DOMAIN wal' = {}
    BY <2>1
  <2>3. Increasing' /\ Positive'
    BY <2>2 DEF Increasing, Positive
  <2>4. CountsAhead' /\ CountsRead' /\ WorkingIsOpen' /\ AtSentinel'
    BY <2>1, <2>2, <1>n DEF CountsAhead, CountsRead, WorkingIsOpen, AtSentinel, Ahead, Within
  <2> QED BY <2>3, <2>4, <1>t DEF NumberInv
<1>12. CASE WriteSentinel \/ TornSentinel
  <2>1. PICK part \in {Garbage, Sentinel(seq)} : wal' = <<part>>
    BY <1>12 DEF WriteSentinel, TornSentinel
  <2>2. Sentinel(seq).seq = seq /\ Garbage.seq = 0 /\ Garbage.op = "garbage"
    BY DEF Sentinel, Event, Garbage
  <2>3. DOMAIN wal' = {1} /\ wal'[1] = part
    BY <2>1
  <2>4. /\ UNCHANGED <<snap, opened, seq>> /\ opened /\ seq >= 1
        /\ (snap.kind = "ok" => snap.seq < seq) /\ pc' = "idle"
    BY <1>12 DEF WriteSentinel, TornSentinel, NumberInv, WorkingIsOpen, AtSentinel
  <2>5. Increasing' /\ Positive'
    BY <2>2, <2>3, <2>4, <1>n DEF Increasing, Positive
  <2>6. CountsAhead' /\ CountsRead' /\ WorkingIsOpen' /\ AtSentinel'
    BY <2>2, <2>3, <2>4, <1>n DEF CountsAhead, CountsRead, WorkingIsOpen, AtSentinel, Ahead, Within
  <2> QED BY <2>5, <2>6, <1>t DEF NumberInv
<1>13. CASE Crash
  <2>1. CountsAhead' /\ CountsRead' /\ WorkingIsOpen' /\ AtSentinel'
    BY <1>13 DEF Crash, CountsAhead, CountsRead, WorkingIsOpen, AtSentinel
  <2> QED BY <2>1, <1>13, <1>t, NumberMemoryStep DEF Crash
<1>14. CASE RotSnapshot
  <2>1. snap'.kind = "corrupt" /\ UNCHANGED <<wal, torn, opened, seq, pc, cursor>>
    BY <1>14, <1>t DEF RotSnapshot, TypeOK, DiskTypes, Snapshot
  <2>2. CountsAhead' /\ CountsRead' /\ WorkingIsOpen' /\ AtSentinel'
    BY <2>1 DEF NumberInv, CountsAhead, CountsRead, WorkingIsOpen, AtSentinel, Ahead, Within
  <2> QED BY <2>1, <2>2, <1>t, NumberMemoryStep
<1>15. CASE UNCHANGED vars
  <2>1. CountsAhead' /\ CountsRead' /\ WorkingIsOpen' /\ AtSentinel'
    BY <1>15 DEF vars, NumberInv, CountsAhead, CountsRead, WorkingIsOpen, AtSentinel, Ahead, Within
  <2> QED BY <2>1, <1>15, <1>t, NumberMemoryStep DEF vars
<1> QED BY <1>1, <1>2, <1>3, <1>4, <1>5, <1>6, <1>7, <1>8, <1>9, <1>10, <1>11, <1>12,
           <1>13, <1>14, <1>15 DEF Informed, Step, Failure

-----------------------------------------------------------------------------
(* The dictionary a log gives, one line at a time.                         *)

\* Lines that a snapshot covers change nothing.
LEMMA RecordAtCovered ==
    ASSUME NEW log, NEW base, NEW after \in Nat, NEW n \in Nat, NEW id,
           \A i \in 1..n : log[i].seq \in Nat /\ log[i].seq <= after
    PROVE  RecordAt(log, base, after, n, id) = base[id]
<1>1. \A op : Touching(log, op, after, n, id) = {}
  BY DEF Touching
<1> QED BY <1>1 DEF RecordAt, LastWrite, Latest

\* Only the first n lines count.
LEMMA RecordAtPrefix ==
    ASSUME NEW log, NEW other, NEW base, NEW after, NEW n \in Nat, NEW id,
           \A i \in 1..n : log[i] = other[i]
    PROVE  RecordAt(log, base, after, n, id) = RecordAt(other, base, after, n, id)
<1>1. /\ Touching(log, "upsert", after, n, id) = Touching(other, "upsert", after, n, id)
      /\ Touching(log, "delete", after, n, id) = Touching(other, "delete", after, n, id)
  BY DEF Touching
<1> DEFINE ups == Touching(log, "upsert", after, n, id)
<1>2. CASE Latest(ups) = {}
  BY <1>1, <1>2 DEF RecordAt, LastWrite
<1>3. CASE Latest(ups) # {}
  <2> DEFINE top == CHOOSE i \in Latest(ups) : TRUE
  <2>1. top \in 1..n
    BY <1>3 DEF Latest, Touching
  <2>2. log[top].rec = other[top].rec
    BY <2>1
  <2> QED BY <1>1, <1>3, <2>2 DEF RecordAt, LastWrite
<1> QED BY <1>2, <1>3

LEMMA RecordAtUntouched ==
    ASSUME NEW log, NEW base, NEW after \in Nat, NEW n \in Nat, NEW id,
           \/ log[n + 1].op \notin {"upsert", "delete"}
           \/ log[n + 1].id # id
           \/ ~(log[n + 1].seq > after)
    PROVE  RecordAt(log, base, after, n + 1, id) = RecordAt(log, base, after, n, id)
<1>1. /\ Touching(log, "upsert", after, n + 1, id) = Touching(log, "upsert", after, n, id)
      /\ Touching(log, "delete", after, n + 1, id) = Touching(log, "delete", after, n, id)
  BY DEF Touching
<1> QED BY <1>1 DEF RecordAt

LEMMA RecordAtUpsert ==
    ASSUME NEW log, NEW base, NEW after \in Nat, NEW n \in Nat, NEW id,
           log[n + 1].op = "upsert", log[n + 1].id = id, log[n + 1].seq > after
    PROVE  RecordAt(log, base, after, n + 1, id) = log[n + 1].rec
<1> DEFINE ups  == Touching(log, "upsert", after, n + 1, id)
           dels == Touching(log, "delete", after, n + 1, id)
<1>1. n + 1 \in ups /\ ups \subseteq 1..(n + 1)
  BY DEF Touching
<1>2. Latest(ups) = {n + 1} /\ (CHOOSE i \in Latest(ups) : TRUE) = n + 1
  BY <1>1 DEF Latest
<1>3. ~ \E d \in dels : \A u \in ups : u < d
  <2>1. \A d \in dels : d \in 1..(n + 1)
    BY DEF Touching
  <2> QED BY <1>1, <2>1
<1> HIDE DEF ups, dels
<1>4. LastWrite(log, base[id], ups, dels) = log[n + 1].rec
  BY <1>2, <1>3 DEF LastWrite
<1> QED BY <1>4 DEF RecordAt, ups, dels

LEMMA RecordAtDelete ==
    ASSUME NEW log, NEW base, NEW after \in Nat, NEW n \in Nat, NEW id,
           log[n + 1].op = "delete", log[n + 1].id = id, log[n + 1].seq > after
    PROVE  LET before == RecordAt(log, base, after, n, id) IN
           RecordAt(log, base, after, n + 1, id) =
               IF before # NoRec THEN [before EXCEPT !.status = "tombstone"] ELSE before
<1> DEFINE ups  == Touching(log, "upsert", after, n, id)
           dels == Touching(log, "delete", after, n, id)
           last == IF Latest(ups) = {} THEN base[id]
                   ELSE log[CHOOSE i \in Latest(ups) : TRUE].rec
<1>1. /\ Touching(log, "upsert", after, n + 1, id) = ups
      /\ Touching(log, "delete", after, n + 1, id) = dels \cup {n + 1}
  BY DEF Touching
<1>2. \A u \in ups : u < n + 1
  BY DEF Touching
<1>3. RecordAt(log, base, after, n + 1, id) =
        IF last # NoRec THEN [last EXCEPT !.status = "tombstone"] ELSE last
  <2>1. RecordAt(log, base, after, n + 1, id) = LastWrite(log, base[id], ups, dels \cup {n + 1})
    BY <1>1 DEF RecordAt
  <2> HIDE DEF ups, dels
  <2> QED BY <2>1, <1>2 DEF LastWrite
<1>4. RecordAt(log, base, after, n, id) = last
      \/ /\ last # NoRec
         /\ RecordAt(log, base, after, n, id) = [last EXCEPT !.status = "tombstone"]
  BY DEF RecordAt, LastWrite
<1>5. \A r : [[r EXCEPT !.status = "tombstone"] EXCEPT !.status = "tombstone"]
               = [r EXCEPT !.status = "tombstone"]
  OBVIOUS
<1> QED BY <1>3, <1>4, <1>5

LEMMA ViewAtCovered ==
    ASSUME NEW log, NEW base \in [Ids -> Cell], NEW after \in Nat, NEW n \in Nat,
           \A i \in 1..n : log[i].seq \in Nat /\ log[i].seq <= after
    PROVE  ViewAt(log, base, after, n) = base
<1>1. ASSUME NEW id \in Ids PROVE RecordAt(log, base, after, n, id) = base[id]
  BY RecordAtCovered
<1> QED BY <1>1 DEF ViewAt

LEMMA ViewAtPrefix ==
    ASSUME NEW log, NEW other, NEW base, NEW after, NEW n \in Nat,
           \A i \in 1..n : log[i] = other[i]
    PROVE  ViewAt(log, base, after, n) = ViewAt(other, base, after, n)
<1>1. ASSUME NEW id \in Ids
      PROVE  RecordAt(log, base, after, n, id) = RecordAt(other, base, after, n, id)
  BY RecordAtPrefix
<1> QED BY <1>1 DEF ViewAt

\* Replay's step: the next uncovered line applies to the dictionary so far.
LEMMA ViewAtStep ==
    ASSUME NEW log, NEW base, NEW after \in Nat, NEW n \in Nat,
           log[n + 1].seq > after,
           log[n + 1].op \in {"upsert", "delete"} => log[n + 1].id \in Ids
    PROVE  ViewAt(log, base, after, n + 1) = Applied(ViewAt(log, base, after, n), log[n + 1])
<1> DEFINE e == log[n + 1]
           m == ViewAt(log, base, after, n)
<1>0. \A id \in Ids : m[id] = RecordAt(log, base, after, n, id)
  BY DEF ViewAt
<1>1. CASE e.op = "upsert"
  <2>1. ASSUME NEW id \in Ids
        PROVE  RecordAt(log, base, after, n + 1, id) = IF id = e.id THEN e.rec ELSE m[id]
    <3>1. CASE id = e.id
      BY <1>1, <3>1, RecordAtUpsert
    <3>2. CASE id # e.id
      BY <1>0, <3>2, RecordAtUntouched
    <3> QED BY <3>1, <3>2
  <2> QED BY <1>1, <2>1 DEF ViewAt, Applied
<1>2. CASE e.op = "delete"
  <2>1. ASSUME NEW id \in Ids
        PROVE  RecordAt(log, base, after, n + 1, id) =
                 IF id = e.id /\ m[id] # NoRec
                 THEN [m[id] EXCEPT !.status = "tombstone"] ELSE m[id]
    <3>1. CASE id = e.id
      BY <1>0, <1>2, <3>1, RecordAtDelete
    <3>2. CASE id # e.id
      BY <1>0, <3>2, RecordAtUntouched
    <3> QED BY <3>1, <3>2
  <2>2. CASE m[e.id] # NoRec
    BY <1>2, <2>1, <2>2 DEF ViewAt, Applied
  <2>3. CASE m[e.id] = NoRec
    BY <1>0, <1>2, <2>1, <2>3 DEF ViewAt, Applied
  <2> QED BY <2>2, <2>3
<1>3. CASE e.op \notin {"upsert", "delete"}
  <2>1. ASSUME NEW id \in Ids
        PROVE  RecordAt(log, base, after, n + 1, id) = m[id]
    BY <1>0, <1>3, RecordAtUntouched
  <2> QED BY <1>3, <2>1 DEF ViewAt, Applied
<1> QED BY <1>1, <1>2, <1>3

-----------------------------------------------------------------------------
(* Contents: memory and disk agree.                                        *)

LEMMA DataInit == Init => DataInv
<1> SUFFICES ASSUME Init PROVE DataInv
  OBVIOUS
<1>1. Readable
  BY DEF Init, Readable, NoSnapshot
<1>2. Fresh
  BY DEF Init, Fresh
<1> QED BY <1>1, <1>2 DEF Init, DataInv, HoldsView, HoldsViewButOne, StartsFreshOrCurrent,
                          ReplaysTowardsView, SnapshotTakenBeforeTruncate

\* A snapshot at or past every line on disk is the whole dictionary.
LEMMA ViewCovered ==
    ASSUME TypeOK', snap'.kind = "ok", Within(snap.seq)'
    PROVE  View' = snap'.records
<1>1. /\ snap'.seq \in Nat /\ Len(wal') \in Nat /\ snap'.records \in [Ids -> Cell]
      /\ \A i \in 1..Len(wal') : wal'[i].seq \in Nat /\ wal'[i].seq <= snap'.seq
  BY LineFields DEF TypeOK, DiskTypes, Snapshot, Within
<1>2. Base' = snap'.records /\ After' = snap'.seq
  BY DEF Base, After
<1> DEFINE log == wal'
           base == snap'.records
           after == snap'.seq
           n == Len(wal')
<1>3. ViewAt(log, base, after, n) = base
  <2> HIDE DEF log, base, after, n
  <2>1. /\ after \in Nat /\ n \in Nat /\ base \in [Ids -> Cell]
        /\ \A i \in 1..n : log[i].seq \in Nat /\ log[i].seq <= after
    BY <1>1 DEF log, base, after, n
  <2> QED BY <2>1, ViewAtCovered
<1> QED BY <1>2, <1>3 DEF View

\* Appending a line past the snapshot applies it to the dictionary.
LEMMA ViewAppend ==
    ASSUME TypeOK, TypeOK', NEW e \in Line, e.seq > After, wal' = Append(wal, e), snap' = snap
    PROVE  View' = Applied(View, e)
<1> DEFINE n == Len(wal)
<1>1. /\ n \in Nat /\ Len(wal') = n + 1 /\ wal'[n + 1] = e /\ After \in Nat
      /\ \A i \in 1..n : wal'[i] = wal[i]
  BY DEF TypeOK, DiskTypes, Snapshot, After
<1> HIDE DEF n
<1>2. \A w : (\A i \in 1..n : w[i] = wal[i])
               => ViewAt(w, Base, After, n) = ViewAt(wal, Base, After, n)
  BY <1>1, ViewAtPrefix
<1>3. ViewAt(wal', Base, After, n) = ViewAt(wal, Base, After, n)
  BY <1>1, <1>2
<1>5. wal'[n + 1].seq > After /\ (wal'[n + 1].op \in {"upsert", "delete"} => wal'[n + 1].id \in Ids)
  BY <1>1, LineFields
<1>6. ViewAt(wal', Base, After, n + 1) = Applied(ViewAt(wal', Base, After, n), wal'[n + 1])
  BY <1>1, <1>5, ViewAtStep, Zenon
<1>4. Base' = Base /\ After' = After
  BY DEF Base, After
<1> QED BY <1>1, <1>3, <1>4, <1>6 DEF View, n

LEMMA NothingAfterTheEnd ==
    ASSUME NEW n \in Nat, NEW S PROVE S \cap (n + 1 .. n) = {}
OBVIOUS

\* The first line that replay reads, after the snapshot is in memory.
LEMMA LoadStartsReplay ==
    ASSUME NumberInv, NumberInv', Clean, DataInv, LoadSnapshot
    PROVE  (Current \/ Replaying)'
<1>t. TypeOK /\ TypeOK'
  BY DEF NumberInv
<1>1. Fresh \/ Current
  BY DEF LoadSnapshot, DataInv, StartsFreshOrCurrent
<1>2. /\ cursor' = 0 /\ UNCHANGED <<wal, snap>> /\ Base' = Base /\ After' = After
      /\ View' = View /\ After \in Nat /\ snap.kind \in {"ok", "none"} /\ Len(wal) \in Nat
  BY <1>t DEF LoadSnapshot, Base, After, View, DataInv, Readable, TypeOK, DiskTypes, Snapshot
<1>3. \A id \in Ids : RecordAt(wal, Base, After, 0, id) = Base[id]
  <2>1. \A i \in 1..0 : wal[i].seq \in Nat /\ wal[i].seq <= After
    OBVIOUS
  <2>2. Base \in [Ids -> Cell]
    BY <1>t, RecordTypes DEF Base, Empty, TypeOK, DiskTypes, Snapshot
  <2>3. ViewAt(wal, Base, After, 0) = Base
    BY <1>2, <2>1, <2>2, ViewAtCovered
  <2> QED BY <2>3 DEF ViewAt
<1>4. CASE snap.kind = "none" /\ Current
  <2>1. UNCHANGED <<seq, state>>
    BY <1>4 DEF LoadSnapshot
  <2> QED BY <1>2, <1>4, <2>1 DEF Current, Ahead, Within
<1>5. CASE snap.kind = "none" /\ Fresh
  <2>1. seq' = After /\ state' = Base
    BY <1>5 DEF LoadSnapshot, Fresh, After, Base
  <2> QED BY <1>2, <1>3, <2>1 DEF Replaying
<1>6. CASE snap.kind = "ok"
  <2>1. seq' = After /\ Base = snap.records
    BY <1>6 DEF LoadSnapshot, After, Base
  <2>2. ASSUME NEW id \in Ids
        PROVE  \/ state'[id] = Base[id]
               \/ Touching(wal, "upsert", After, Len(wal), id) \cap (1 .. Len(wal)) # {}
    <3>1. CASE Base[id] # NoRec
      BY <1>6, <2>1, <3>1 DEF LoadSnapshot
    <3>2. CASE Base[id] = NoRec /\ Fresh
      BY <1>6, <2>1, <3>2 DEF LoadSnapshot, Fresh, Empty
    <3>3. CASE Base[id] = NoRec /\ Current
      <4>1. state'[id] = RecordAt(wal, Base, After, Len(wal), id)
        BY <1>6, <2>1, <3>3 DEF LoadSnapshot, Current, View, ViewAt
      <4>2. CASE Touching(wal, "upsert", After, Len(wal), id) = {}
        BY <4>1, <4>2, <3>3 DEF RecordAt, LastWrite, Latest
      <4>3. CASE Touching(wal, "upsert", After, Len(wal), id) # {}
        BY <4>3 DEF Touching
      <4> QED BY <4>2, <4>3
    <3> QED BY <1>1, <3>1, <3>2, <3>3
  <2>3. 0 + 1 = 1
    OBVIOUS
  <2> QED BY <1>2, <1>3, <2>1, <2>2, <2>3 DEF Replaying
<1> QED BY <1>1, <1>2, <1>4, <1>5, <1>6

\* A line passed over is one the dictionary so far already accounts for.
LEMMA SkipKeepsReplay ==
    ASSUME NumberInv, Clean, DataInv, SkipLine
    PROVE  (Current \/ Replaying)'
<1>t. TypeOK
  BY DEF NumberInv
<1> DEFINE c == cursor + 1
<1>1. /\ UNCHANGED <<wal, snap, seq, state>> /\ cursor' = c /\ pc = "replay" /\ cursor < Len(wal)
      /\ Base' = Base /\ After' = After /\ View' = View
  BY DEF SkipLine, Base, After, View
<1>2. /\ cursor \in Nat /\ c \in DOMAIN wal /\ DOMAIN wal = 1..Len(wal) /\ Len(wal) \in Nat
      /\ After \in Nat /\ seq \in Nat /\ \A i \in DOMAIN wal : wal[i].seq \in Nat
  BY <1>1, <1>t, LineFields DEF TypeOK, DiskTypes, MemoryTypes, ControlTypes, Snapshot, After
<1>3. wal[c].op # "garbage" /\ wal[c].seq <= seq
  BY <1>2 DEF SkipLine, Skipped, DataInv, Readable
<1>4. CASE Current
  BY <1>1, <1>4 DEF Current, Ahead, Within
<1>5. CASE Replaying
  <2>1. ~(wal[c].seq > After)
    <3>1. CASE seq = After
      BY <1>2, <1>3, <3>1
    <3>2. CASE \E i \in 1..cursor : wal[i].seq = seq
      <4>1. PICK i \in 1..cursor : wal[i].seq = seq
        BY <3>2
      <4>2. i \in DOMAIN wal /\ wal[i].op # "garbage" /\ i < c
        BY <1>2 DEF DataInv, Readable
      <4>3. wal[i].seq < wal[c].seq
        BY <1>2, <1>3, <4>2 DEF NumberInv, Increasing
      <4> QED BY <1>2, <1>3, <4>1, <4>2, <4>3
    <3> QED BY <1>5, <3>1, <3>2 DEF Replaying
  <2>2. ASSUME NEW id \in Ids
        PROVE  \/ state[id] = RecordAt(wal, Base, After, c, id)
               \/ Touching(wal, "upsert", After, Len(wal), id) \cap (c + 1 .. Len(wal)) # {}
    <3>1. RecordAt(wal, Base, After, c, id) = RecordAt(wal, Base, After, cursor, id)
      BY <1>2, <2>1, RecordAtUntouched
    <3>2. CASE Touching(wal, "upsert", After, Len(wal), id) \cap (cursor + 1 .. Len(wal)) # {}
      <4>1. PICK i \in Touching(wal, "upsert", After, Len(wal), id) : i \in cursor + 1 .. Len(wal)
        BY <3>2
      <4>2. i # c
        BY <2>1, <4>1 DEF Touching
      <4> QED BY <1>2, <4>1, <4>2
    <3> QED BY <1>5, <3>1, <3>2 DEF Replaying
  <2>3. seq = After \/ \E i \in 1..c : wal[i].seq = seq
    BY <1>2, <1>5 DEF Replaying
  <2> QED BY <1>1, <1>5, <2>2, <2>3 DEF Replaying
<1> QED BY <1>1, <1>4, <1>5 DEF DataInv, ReplaysTowardsView

\* What one event does to one entry.
LEMMA AppliedAt ==
    ASSUME NEW m, DOMAIN m = Ids, NEW e, NEW id \in Ids
    PROVE  Applied(m, e)[id] =
             IF e.op = "upsert" /\ e.id = id THEN e.rec
             ELSE IF e.op = "delete" /\ e.id = id /\ m[id] # NoRec
                  THEN [m[id] EXCEPT !.status = "tombstone"] ELSE m[id]
<1>1. CASE e.op = "upsert"
  BY <1>1 DEF Applied
<1>2. CASE e.op = "delete" /\ m[e.id] # NoRec
  BY <1>2 DEF Applied
<1>3. CASE e.op # "upsert" /\ ~(e.op = "delete" /\ m[e.id] # NoRec)
  BY <1>3 DEF Applied
<1> QED BY <1>1, <1>2, <1>3

\* A line applied brings the dictionary one line further.
LEMMA ReplayAdvances ==
    ASSUME NumberInv, Clean, DataInv, ReplayLine
    PROVE  (Current \/ Replaying)'
<1>t. TypeOK
  BY DEF NumberInv
<1> DEFINE c == cursor + 1
           e == wal[c]
           later(id) == Touching(wal, "upsert", After, Len(wal), id)
<1>1. /\ UNCHANGED <<wal, snap>> /\ cursor' = c /\ pc = "replay" /\ cursor < Len(wal)
      /\ Base' = Base /\ After' = After /\ state' = Applied(state, e)
      /\ seq' = (IF e.seq > seq THEN e.seq ELSE seq)
  BY DEF ReplayLine, Base, After
<1>2. /\ cursor \in Nat /\ c \in DOMAIN wal /\ DOMAIN wal = 1..Len(wal) /\ Len(wal) \in Nat
      /\ After \in Nat /\ seq \in Nat /\ \A i \in DOMAIN wal : wal[i].seq \in Nat
      /\ state \in [Ids -> Cell] /\ e \in Line
  BY <1>1, <1>t, LineFields DEF TypeOK, DiskTypes, MemoryTypes, ControlTypes, Snapshot, After
<1>3. e.op # "garbage" /\ e.seq >= 1
  BY <1>2 DEF DataInv, Readable, NumberInv, Positive
<1>4. e.seq > seq
  BY <1>2, <1>3 DEF ReplayLine, Skipped
<1>5. ~Current
  BY <1>2, <1>4 DEF Current, Ahead, Within
<1>6. Replaying
  BY <1>1, <1>5 DEF DataInv, ReplaysTowardsView
<1>7. e.seq > After /\ seq' = e.seq
  BY <1>1, <1>2, <1>4, <1>6 DEF Replaying
<1>v. ViewAt(wal, Base, After, c) = Applied(ViewAt(wal, Base, After, cursor), e)
  BY <1>2, <1>7, ViewAtStep, LineFields
<1>8. ASSUME NEW id \in Ids
      PROVE  state'[id] = RecordAt(wal, Base, After, c, id)
             \/ later(id) \cap (c + 1 .. Len(wal)) # {}
  <2> DEFINE m == ViewAt(wal, Base, After, cursor)
  <2>1. state[id] = m[id] \/ later(id) \cap (cursor + 1 .. Len(wal)) # {}
    BY <1>6 DEF Replaying, ViewAt
  <2>2. RecordAt(wal, Base, After, c, id) = Applied(m, e)[id]
    BY <1>v DEF ViewAt
  <2>3. DOMAIN m = Ids
    BY DEF ViewAt
  <2> HIDE DEF m
  <2>4. CASE (e.op = "upsert" /\ e.id = id) \/ state[id] = m[id]
    <3>1. DOMAIN state = Ids
      BY <1>2
    <3>2. /\ Applied(state, e)[id] = IF e.op = "upsert" /\ e.id = id THEN e.rec
                ELSE IF e.op = "delete" /\ e.id = id /\ state[id] # NoRec
                     THEN [state[id] EXCEPT !.status = "tombstone"] ELSE state[id]
          /\ Applied(m, e)[id] = IF e.op = "upsert" /\ e.id = id THEN e.rec
                ELSE IF e.op = "delete" /\ e.id = id /\ m[id] # NoRec
                     THEN [m[id] EXCEPT !.status = "tombstone"] ELSE m[id]
      BY <2>3, <3>1, AppliedAt
    <3> QED BY <1>1, <2>2, <2>4, <3>2
  <2>5. CASE ~(e.op = "upsert" /\ e.id = id) /\ state[id] # m[id]
    <3>1. c \notin later(id)
      BY <2>5 DEF Touching
    <3> QED BY <1>2, <2>1, <2>5, <3>1
  <2> QED BY <2>4, <2>5
<1>9. seq' >= After /\ \E i \in 1..c : wal[i].seq = seq'
  BY <1>2, <1>7
<1> QED BY <1>1, <1>8, <1>9 DEF Replaying

\* When every line has been read, memory holds the dictionary of the disk.
LEMMA ReplayEnds ==
    ASSUME NumberInv, Clean, DataInv, Opened
    PROVE  state = View
<1>t. TypeOK
  BY DEF NumberInv
<1>1. pc = "replay" /\ cursor = Len(wal) /\ Len(wal) \in Nat /\ state \in [Ids -> Cell]
  BY <1>t DEF Opened, TypeOK, DiskTypes, MemoryTypes
<1>2. CASE Replaying
  <2>1. ASSUME NEW id \in Ids PROVE state[id] = RecordAt(wal, Base, After, Len(wal), id)
    BY <1>1, <1>2, NothingAfterTheEnd DEF Replaying
  <2> QED BY <1>1, <2>1 DEF View, ViewAt
<1>3. CASE Current
  BY <1>3 DEF Current
<1> QED BY <1>1, <1>2, <1>3 DEF DataInv, ReplaysTowardsView

\* The disk alone decides the dictionary it gives.
LEMMA DiskDecides ==
    ASSUME UNCHANGED <<wal, torn, snap>>
    PROVE  /\ View' = View /\ (Readable' <=> Readable)
           /\ (seq' = seq => (Ahead' <=> Ahead))
           /\ (seq' = seq /\ state' = state => (Current' <=> Current) /\ (Fresh' <=> Fresh))
<1>1. View' = View
  BY DEF View, Base, After
<1>2. Readable' <=> Readable
  BY DEF Readable
<1>3. seq' = seq => (Ahead' <=> Ahead)
  BY DEF Ahead, Within
<1> QED BY <1>1, <1>2, <1>3 DEF Current, Fresh

\* The dictionary on disk changes only when an event is appended.
LEMMA ViewStep ==
    ASSUME NumberInv, DataInv, [Informed]_vars, Clean, Clean', TypeOK'
    PROVE  (AppendWal => View' = Applied(View, req)) /\ (~AppendWal => View' = View)
<1>t. TypeOK
  BY DEF NumberInv
<1>n. /\ seq \in Nat /\ snap.seq \in Nat
      /\ \A i \in DOMAIN wal : wal[i].seq \in Nat
  BY <1>t, LineFields DEF TypeOK, DiskTypes, MemoryTypes, Snapshot
<1>d. Readable /\ HoldsView /\ SnapshotTakenBeforeTruncate
  BY DEF DataInv
<1>1. CASE AppendWal
  <2> DEFINE e == Event(seq + 1, req, lastHash)
  <2>1. Ahead
    BY <1>1, <1>d DEF AppendWal, NumberInv, CountsAhead, WorkingIsOpen
  <2>2. e \in Line
    <3>1. req \in Calls /\ req.op \in EventOps
      BY <1>1, <1>t DEF AppendWal, TypeOK, ControlTypes, EventOps
    <3>2. lastHash \in Seq(Payload) /\ seq + 1 \in Nat
      BY <1>t DEF TypeOK, MemoryTypes
    <3> QED BY <3>1, <3>2, EventTypes
  <2>3. e.seq = seq + 1 /\ e.op = req.op /\ e.id = req.id /\ e.rec = req.rec
    BY DEF Event
  <2>4. wal' = Append(wal, e) /\ snap' = snap
    <3>1. req.rec.content \notin Splitting
      BY <1>1 DEF AppendWal, Clean
    <3> QED BY <1>1, <1>d, <2>3, <3>1 DEF AppendWal, AppendLine, AsRead, Readable
  <2>5. e.seq > After
    BY <2>1, <2>3, <1>n DEF Ahead, After
  <2>6. View' = Applied(View, e)
    BY <2>2, <2>4, <2>5, <1>t, ViewAppend
  <2>7. Applied(View, e) = Applied(View, req)
    BY <2>3 DEF Applied
  <2>8. pc = "append"
    BY <1>1 DEF AppendWal
  <2> QED BY <1>1, <2>6, <2>7
<1>2. CASE UpsertSnapshot \/ CloseSnapshot \/ CompactSnapshot
  <2>1. /\ UNCHANGED <<wal, state>> /\ pc \in {"snapshot", "close", "compact"}
        /\ snap'.kind = "ok" /\ snap'.seq = seq /\ snap'.records = state
    BY <1>2 DEF UpsertSnapshot, CloseSnapshot, CompactSnapshot, WriteSnapshot
  <2>2. Ahead /\ state = View
    BY <1>d, <2>1 DEF NumberInv, CountsAhead, WorkingIsOpen, HoldsView
  <2>3. Within(snap.seq)'
    BY <2>1, <2>2 DEF Ahead, Within
  <2>4. View' = state
    BY <2>1, <2>3, ViewCovered
  <2> QED BY <2>1, <2>2, <2>4 DEF AppendWal
<1>3. CASE Truncate
  <2>1. wal' = <<>> /\ snap' = snap /\ pc = "truncate"
    BY <1>3 DEF Truncate
  <2>2. snap.kind = "ok" /\ snap.records = state /\ state = View
    BY <1>d, <2>1 DEF SnapshotTakenBeforeTruncate, HoldsView, NumberInv, WorkingIsOpen
  <2>3. Within(snap.seq)'
    BY <2>1 DEF Within
  <2>4. View' = snap.records
    BY <2>1, <2>2, <2>3, ViewCovered
  <2> QED BY <2>1, <2>2, <2>4 DEF AppendWal
<1>4. CASE WriteSentinel
  <2>1. wal' = <<Sentinel(seq)>> /\ pc = "sentinel" /\ snap' = snap
    BY <1>4 DEF WriteSentinel
  <2>2. wal = <<>> /\ seq > After
    BY <1>n, <2>1 DEF NumberInv, AtSentinel, After
  <2>3. Sentinel(seq) \in Line /\ Sentinel(seq).op = "compact" /\ Sentinel(seq).seq = seq
    BY <1>n, SentinelType DEF Sentinel, Event, CompactCall
  <2>4. wal' = Append(wal, Sentinel(seq))
    BY <2>1, <2>2
  <2>5. View' = Applied(View, Sentinel(seq))
    BY <2>1, <2>2, <2>3, <2>4, <1>t, ViewAppend
  <2> QED BY <2>1, <2>3, <2>5 DEF AppendWal, Applied
<1>5. CASE TornAppend \/ TornSentinel \/ RotSnapshot
  BY <1>5 DEF TornAppend, TornSentinel, RotSnapshot, Clean
<1>6. CASE UNCHANGED <<wal, torn, snap>> /\ ~AppendWal
  BY <1>6, DiskDecides
<1>7. ASSUME ~AppendWal, ~(UpsertSnapshot \/ CloseSnapshot \/ CompactSnapshot), ~Truncate,
             ~WriteSentinel, ~(TornAppend \/ TornSentinel \/ RotSnapshot)
      PROVE  UNCHANGED <<wal, torn, snap>>
  BY <1>7 DEF Informed, Step, Failure, Write, Open, Close, Call, LoadSnapshot, SkipLine,
              ReplayLine, Opened, ApplyUpsert, ApplyDelete, AppendFails, SnapshotFails,
              TruncateFails, SentinelFails, Crash, vars
<1> QED BY <1>1, <1>2, <1>3, <1>4, <1>5, <1>6, <1>7

LEMMA DataStep == NumberInv /\ DataInv /\ [Informed]_vars => DataInv'
<1> SUFFICES ASSUME NumberInv, DataInv, [Informed]_vars, Clean' PROVE DataInv'
  BY DEF DataInv
<1>t. TypeOK /\ TypeOK' /\ NumberInv'
  BY TypeInformed, NumberStep DEF NumberInv
<1>n. /\ seq \in Nat /\ snap.seq \in Nat /\ Len(wal) \in Nat /\ DOMAIN wal = 1..Len(wal)
      /\ \A i \in DOMAIN wal : wal[i].seq \in Nat /\ wal[i] \in Line
  BY <1>t, LineFields DEF TypeOK, DiskTypes, MemoryTypes, Snapshot
<1>c. Clean
  <2>1. struck \subseteq struck'
    BY StruckStays
  <2> QED BY <2>1 DEF Clean
<1>d. /\ Readable /\ HoldsView /\ HoldsViewButOne /\ StartsFreshOrCurrent
      /\ ReplaysTowardsView /\ SnapshotTakenBeforeTruncate
  BY <1>c DEF DataInv
<1> SUFFICES /\ Readable' /\ HoldsView' /\ HoldsViewButOne' /\ StartsFreshOrCurrent'
             /\ ReplaysTowardsView' /\ SnapshotTakenBeforeTruncate'
  BY DEF DataInv
<1>1. CASE Write \/ Open
  <2>1. PICK call : Call(call)
    BY <1>1 DEF Write, Open
  <2>2. /\ UNCHANGED <<wal, torn, snap, seq, state, opened>> /\ pc = "idle"
        /\ \/ pc' = "load"
           \/ opened /\ pc' \in {"append", "compact", "idle"}
    BY <2>1 DEF Call, FirstStep
  <2>3. Fresh \/ Current
    BY <1>d, <2>2 DEF StartsFreshOrCurrent, HoldsView, NumberInv, CountsAhead, Current
  <2> QED BY <1>d, <2>2, <2>3, DiskDecides
          DEF HoldsView, HoldsViewButOne, StartsFreshOrCurrent, ReplaysTowardsView,
              SnapshotTakenBeforeTruncate
<1>2. CASE Close
  <2>1. /\ UNCHANGED <<wal, torn, snap, seq, state>> /\ pc = "idle"
        /\ \/ pc' = "close" /\ opened /\ opened' = opened
           \/ pc' = "idle" /\ opened' = FALSE
    BY <1>2 DEF Close
  <2>2. Fresh \/ Current
    BY <1>d, <2>1 DEF StartsFreshOrCurrent, HoldsView, NumberInv, CountsAhead, Current
  <2> QED BY <1>d, <2>1, <2>2, DiskDecides
          DEF HoldsView, HoldsViewButOne, StartsFreshOrCurrent, ReplaysTowardsView,
              SnapshotTakenBeforeTruncate
<1>3. CASE LoadSnapshot
  <2>1. pc' = "replay" /\ UNCHANGED <<wal, torn, snap>>
    BY <1>3 DEF LoadSnapshot
  <2>2. (Current \/ Replaying)'
    BY <1>3, <1>t, <1>c, LoadStartsReplay
  <2> QED BY <1>d, <2>1, <2>2, DiskDecides
          DEF HoldsView, HoldsViewButOne, StartsFreshOrCurrent, ReplaysTowardsView,
              SnapshotTakenBeforeTruncate
<1>4. CASE SkipLine \/ ReplayLine
  <2>1. pc' = "replay" /\ UNCHANGED <<wal, torn, snap>>
    BY <1>4 DEF SkipLine, ReplayLine
  <2>2. (Current \/ Replaying)'
    BY <1>4, <1>c, SkipKeepsReplay, ReplayAdvances
  <2> QED BY <1>d, <2>1, <2>2, DiskDecides
          DEF HoldsView, HoldsViewButOne, StartsFreshOrCurrent, ReplaysTowardsView,
              SnapshotTakenBeforeTruncate
<1>5. CASE Opened
  <2>1. /\ UNCHANGED <<wal, torn, snap, seq, state>> /\ opened' = TRUE
        /\ pc' \in {"append", "compact", "idle"}
    BY <1>5 DEF Opened, FirstStep
  <2>2. state = View
    BY <1>5, <1>c, ReplayEnds
  <2> QED BY <1>d, <2>1, <2>2, DiskDecides
          DEF HoldsView, HoldsViewButOne, StartsFreshOrCurrent, ReplaysTowardsView,
              SnapshotTakenBeforeTruncate
<1>v. (AppendWal => View' = Applied(View, req)) /\ (~AppendWal => View' = View)
  BY <1>c, <1>t, ViewStep
<1>6. CASE AppendWal
  <2>1. opened /\ state = View /\ View' = Applied(View, req)
    BY <1>6, <1>d, <1>v DEF AppendWal, NumberInv, WorkingIsOpen, HoldsView
  <2>2. /\ wal' = Append(wal, Event(seq + 1, req, lastHash))
        /\ snap' = snap /\ pc' = "apply" /\ torn' = FALSE
        /\ UNCHANGED <<state, req, opened>>
    <3>1. req.rec.content \notin Splitting
      BY <1>6 DEF AppendWal, Clean
    <3>2. Event(seq + 1, req, lastHash).rec = req.rec
      BY DEF Event
    <3> QED BY <1>6, <1>d, <3>1, <3>2 DEF AppendWal, AppendLine, AsRead, Readable
  <2>3. Event(seq + 1, req, lastHash).op # "garbage"
    BY <1>6, <1>t DEF AppendWal, TypeOK, ControlTypes, Event
  <2>4. Readable'
    <3>1. \A i \in DOMAIN wal' : \/ i \in DOMAIN wal /\ wal'[i] = wal[i]
                                 \/ wal'[i] = Event(seq + 1, req, lastHash)
      BY <2>2, <1>t DEF TypeOK, DiskTypes
    <3> QED BY <2>2, <2>3, <3>1, <1>d DEF Readable
  <2> QED BY <2>1, <2>2, <2>4
          DEF HoldsView, HoldsViewButOne, StartsFreshOrCurrent, ReplaysTowardsView,
              SnapshotTakenBeforeTruncate, Applied
<1>7. CASE AppendFails \/ SnapshotFails \/ TruncateFails
  <2>1. /\ UNCHANGED <<wal, torn, snap, state, opened>> /\ pc' = "idle"
        /\ pc \in {"append", "snapshot", "close", "compact", "truncate"}
    BY <1>7 DEF AppendFails, SnapshotFails, TruncateFails
  <2>2. state = View /\ opened
    BY <1>d, <2>1 DEF HoldsView, NumberInv, WorkingIsOpen
  <2> QED BY <1>d, <2>1, <2>2, DiskDecides
          DEF HoldsView, HoldsViewButOne, StartsFreshOrCurrent, ReplaysTowardsView,
              SnapshotTakenBeforeTruncate
<1>8. CASE ApplyUpsert \/ ApplyDelete
  <2>1. /\ UNCHANGED <<wal, torn, snap, opened>> /\ pc = "apply" /\ pc' \in {"idle", "snapshot"}
    BY <1>8 DEF ApplyUpsert, ApplyDelete
  <2>2. state' = Applied(state, req)
    BY <1>8 DEF ApplyUpsert, ApplyDelete, Applied
  <2>3. opened /\ View = Applied(state, req)
    BY <1>d, <2>1 DEF HoldsViewButOne, NumberInv, WorkingIsOpen
  <2> QED BY <1>d, <2>1, <2>2, <2>3, DiskDecides
          DEF HoldsView, HoldsViewButOne, StartsFreshOrCurrent, ReplaysTowardsView,
              SnapshotTakenBeforeTruncate
<1>9. CASE UpsertSnapshot \/ CloseSnapshot \/ CompactSnapshot
  <2>1. /\ UNCHANGED <<wal, torn, seq, state>> /\ pc' \in {"idle", "truncate"}
        /\ pc \in {"snapshot", "close", "compact"}
        /\ snap'.kind = "ok" /\ snap'.seq = seq /\ snap'.records = state
    BY <1>9 DEF UpsertSnapshot, CloseSnapshot, CompactSnapshot, WriteSnapshot
  <2>2. Ahead /\ opened
    BY <2>1 DEF NumberInv, CountsAhead, WorkingIsOpen
  <2>3. Within(snap.seq)'
    BY <2>1, <2>2 DEF Ahead, Within
  <2>4. View' = state'
    BY <1>9, <1>d, <1>v, <2>1, <2>2 DEF HoldsView, AppendWal
  <2>5. Readable' /\ Ahead'
    BY <1>d, <1>n, <2>1, <2>2 DEF Readable, Ahead, Within
  <2> QED BY <2>1, <2>3, <2>4, <2>5
          DEF HoldsView, HoldsViewButOne, StartsFreshOrCurrent, ReplaysTowardsView,
              SnapshotTakenBeforeTruncate, Current
<1>10. CASE Truncate
  <2>1. /\ wal' = <<>> /\ torn' = FALSE /\ pc = "truncate" /\ pc' = "sentinel"
        /\ UNCHANGED <<snap, state, opened>>
    BY <1>10 DEF Truncate
  <2>3. DOMAIN wal' = {}
    BY <2>1
  <2>4. View' = state'
    BY <1>d, <1>v, <2>1 DEF HoldsView, NumberInv, WorkingIsOpen, AppendWal
  <2>5. Readable'
    BY <1>d, <2>1, <2>3 DEF Readable
  <2> QED BY <2>1, <2>4, <2>5
          DEF HoldsView, HoldsViewButOne, StartsFreshOrCurrent, ReplaysTowardsView,
              SnapshotTakenBeforeTruncate
<1>11. CASE WriteSentinel
  <2>1. /\ wal' = <<Sentinel(seq)>> /\ pc = "sentinel" /\ pc' = "idle"
        /\ UNCHANGED <<torn, snap, state, opened>>
    BY <1>11 DEF WriteSentinel
  <2>2. torn = FALSE /\ opened /\ state = View /\ View' = View
    BY <1>d, <1>v, <2>1 DEF NumberInv, AtSentinel, WorkingIsOpen, HoldsView, AppendWal
  <2>3. Sentinel(seq).op = "compact"
    BY DEF Sentinel, Event, CompactCall
  <2>4. Readable'
    BY <1>d, <2>1, <2>2, <2>3 DEF Readable
  <2> QED BY <2>1, <2>2, <2>4
          DEF HoldsView, HoldsViewButOne, StartsFreshOrCurrent, ReplaysTowardsView,
              SnapshotTakenBeforeTruncate
<1>12. CASE SentinelFails
  <2>1. /\ UNCHANGED <<wal, torn, snap, seq, state, opened>> /\ pc = "sentinel" /\ pc' = "idle"
    BY <1>12 DEF SentinelFails
  <2>2. state = View /\ opened
    BY <1>d, <2>1 DEF HoldsView, NumberInv, WorkingIsOpen
  <2> QED BY <1>d, <2>1, <2>2, DiskDecides
          DEF HoldsView, HoldsViewButOne, StartsFreshOrCurrent, ReplaysTowardsView,
              SnapshotTakenBeforeTruncate
<1>13. CASE TornAppend \/ TornSentinel \/ RotSnapshot
  BY <1>13 DEF TornAppend, TornSentinel, RotSnapshot, Clean
<1>14. CASE Crash
  <2>1. UNCHANGED <<wal, torn, snap>> /\ Fresh' /\ pc' = "idle" /\ opened' = FALSE
    BY <1>14 DEF Crash, Fresh, Empty
  <2> QED BY <1>d, <2>1, DiskDecides
          DEF HoldsView, HoldsViewButOne, StartsFreshOrCurrent, ReplaysTowardsView,
              SnapshotTakenBeforeTruncate
<1>15. CASE UNCHANGED vars
  <2>1. UNCHANGED <<wal, torn, snap, seq, state, opened, pc, req, cursor>>
    BY <1>15 DEF vars
  <2>2. Replaying' <=> Replaying
    BY <2>1 DEF Replaying, Base, After
  <2>3. Applied(state, req)' = Applied(state, req) /\ Within(snap.seq)' = Within(snap.seq)
    BY <2>1 DEF Applied, Within
  <2> QED BY <1>d, <2>1, <2>2, <2>3, DiskDecides
          DEF HoldsView, HoldsViewButOne, StartsFreshOrCurrent, ReplaysTowardsView,
              SnapshotTakenBeforeTruncate
<1> QED BY <1>1, <1>2, <1>3, <1>4, <1>5, <1>6, <1>7, <1>8, <1>9, <1>10, <1>11, <1>12,
           <1>13, <1>14, <1>15 DEF Informed, Step, Failure

-----------------------------------------------------------------------------
(* The hash chain.                                                         *)

LEMMA ChainInit == Init => ChainInv
<1> SUFFICES ASSUME Init PROVE ChainInv
  OBVIOUS
<1>1. DOMAIN wal = {} /\ wal = <<>>
  BY DEF Init
<1> QED BY <1>1 DEF Init, ChainInv, ChainValid, MemoryHash, SnapshotHash, SentinelHash,
                    TailHash, NoSnapshot

\* A counter of zero has caught up with nothing but an empty log.
LEMMA NothingBelowOne ==
    ASSUME NumberInv, ChainValid, Within(0)
    PROVE  TailHash = Genesis
<1>1. wal \in Seq(Line)
  BY DEF NumberInv, TypeOK, DiskTypes
<1>2. ASSUME NEW i \in DOMAIN wal PROVE FALSE
  <2>1. wal[i].seq >= 1 /\ wal[i].seq <= 0
    BY <1>2 DEF NumberInv, Positive, ChainValid, Within
  <2>2. wal[i].seq \in Nat
    BY <1>1, <1>2, LineFields
  <2> QED BY <2>1, <2>2
<1>3. Len(wal) = 0
  <2>1. SUFFICES ASSUME Len(wal) # 0 PROVE FALSE
    OBVIOUS
  <2>2. 1 \in DOMAIN wal
    BY <1>1, <2>1
  <2> QED BY <1>2, <2>2
<1> QED BY <1>1, <1>3 DEF TailHash

\* Steps that touch neither the files nor the counter and its hash.
LEMMA ChainMemoryStep ==
    ASSUME ChainInv, Intact, UNCHANGED <<wal, torn, snap, seq, lastHash>>,
           pc # "sentinel", pc' # "sentinel"
    PROVE  ChainInv'
BY DEF ChainInv, Intact, ChainValid, MemoryHash, SnapshotHash, SentinelHash, TailHash, Within

LEMMA ChainStep == NumberInv /\ ChainInv /\ [Informed]_vars => ChainInv'
<1> SUFFICES ASSUME NumberInv, ChainInv, [Informed]_vars, Intact' PROVE ChainInv'
  BY DEF ChainInv
<1>t. TypeOK
  BY DEF NumberInv
<1>n. /\ seq \in Nat /\ snap.seq \in Nat /\ wal \in Seq(Line) /\ Len(wal) \in Nat
      /\ \A i \in DOMAIN wal : wal[i].seq \in Nat
  BY <1>t, LineFields DEF TypeOK, DiskTypes, MemoryTypes, Snapshot
<1>c. Intact
  <2>1. struck \subseteq struck'
    BY StruckStays
  <2> QED BY <2>1 DEF Intact
<1>d. ChainValid /\ torn = FALSE /\ MemoryHash /\ SnapshotHash /\ SentinelHash
  BY <1>c DEF ChainInv
<1>1. CASE Write \/ Open
  <2>1. PICK call : Call(call)
    BY <1>1 DEF Write, Open
  <2> QED BY <2>1, <1>c, ChainMemoryStep DEF Call, FirstStep
<1>2. CASE Close
  BY <1>2, <1>c, ChainMemoryStep DEF Close
<1>3. CASE SkipLine
  BY <1>3, <1>c, ChainMemoryStep DEF SkipLine
<1>4. CASE Opened
  BY <1>4, <1>c, ChainMemoryStep DEF Opened, FirstStep
<1>5. CASE ApplyUpsert \/ ApplyDelete \/ SnapshotFails
  BY <1>5, <1>c, ChainMemoryStep DEF ApplyUpsert, ApplyDelete, SnapshotFails
<1>6. CASE LoadSnapshot
  <2>1. UNCHANGED <<wal, torn, snap>> /\ pc' = "replay" /\ pc = "load"
    BY <1>6 DEF LoadSnapshot
  <2>2. ChainValid' /\ SnapshotHash' /\ SentinelHash'
    BY <1>d, <2>1 DEF ChainValid, SnapshotHash, SentinelHash, TailHash, Within
  <2>3. MemoryHash'
    <3>1. CASE snap.kind = "ok" /\ seq' = snap.seq /\ lastHash' = snap.last_hash
      BY <1>d, <2>1, <3>1 DEF MemoryHash, SnapshotHash, TailHash, Within
    <3>2. CASE seq' = 0 /\ lastHash' = Genesis
      BY <1>d, <2>1, <3>2, NothingBelowOne DEF MemoryHash, TailHash, Within
    <3>3. CASE UNCHANGED <<seq, lastHash>>
      BY <1>d, <2>1, <3>3 DEF MemoryHash, TailHash, Within
    <3> QED BY <1>6, <3>1, <3>2, <3>3 DEF LoadSnapshot
  <2> QED BY <1>d, <2>1, <2>2, <2>3 DEF ChainInv
<1>7. CASE ReplayLine
  <2> DEFINE e == wal[cursor + 1]
  <2>1. UNCHANGED <<wal, torn, snap>> /\ pc' = "replay" /\ pc = "replay"
        /\ lastHash' = Hash(e) /\ cursor \in Nat /\ cursor < Len(wal)
    BY <1>7, <1>t DEF ReplayLine, TypeOK, ControlTypes
  <2>2. e.seq \in Nat /\ e.op # "garbage" /\ e.seq >= 1 /\ cursor + 1 \in DOMAIN wal
    BY <1>7, <1>n, <2>1 DEF ReplayLine, Skipped, NumberInv, Positive
  <2>3. seq' = e.seq
    BY <1>7, <1>n, <2>2 DEF ReplayLine, Skipped
  <2>4. ASSUME Within(e.seq) PROVE cursor + 1 = Len(wal)
    <3>1. SUFFICES ASSUME cursor + 1 < Len(wal) PROVE FALSE
      BY <1>n, <2>1
    <3>2. Len(wal) \in DOMAIN wal
      BY <1>n, <2>1
    <3>3. wal[Len(wal)].op # "garbage"
      BY <1>d, <3>2 DEF ChainValid
    <3>4. e.seq < wal[Len(wal)].seq
      BY <2>2, <3>1, <3>2, <3>3 DEF NumberInv, Increasing
    <3>5. wal[Len(wal)].seq <= e.seq
      BY <2>4, <3>2 DEF Within
    <3> QED BY <1>n, <2>2, <3>2, <3>4, <3>5
  <2>5. MemoryHash'
    <3>1. ASSUME Within(seq)' PROVE lastHash' = TailHash'
      <4>1. Within(e.seq)
        BY <2>1, <2>3, <3>1 DEF Within
      <4>2. wal # <<>>
        BY <2>1
      <4> QED BY <2>1, <2>4, <4>1, <4>2 DEF TailHash
    <3> QED BY <3>1 DEF MemoryHash
  <2>6. ChainValid' /\ SnapshotHash' /\ SentinelHash'
    BY <1>d, <2>1 DEF ChainValid, SnapshotHash, SentinelHash, TailHash, Within
  <2> QED BY <1>d, <2>1, <2>5, <2>6 DEF ChainInv
<1>8. CASE AppendWal
  <2> DEFINE e == Event(seq + 1, req, lastHash)
  <2>1. pc = "append" /\ req.op # "garbage" /\ Ahead /\ lastHash = TailHash
    <3>1. pc = "append"
      BY <1>8 DEF AppendWal
    <3>2. Ahead
      BY <3>1 DEF NumberInv, CountsAhead, WorkingIsOpen
    <3> QED BY <3>1, <3>2, <1>d, <1>t DEF MemoryHash, Ahead, TypeOK, ControlTypes
  <2>2. req.rec.content \notin Splitting
    BY <1>8 DEF AppendWal, Intact
  <2>3. e.seq = seq + 1 /\ e.op # "garbage" /\ e.prev = lastHash /\ e.rec = req.rec
    BY <2>1 DEF Event
  <2>4. /\ wal' = Append(wal, e) /\ torn' = FALSE /\ pc' = "apply" /\ snap' = snap
        /\ lastHash' = Hash(e) /\ seq' = seq + 1
    BY <1>8, <1>d, <2>2, <2>3 DEF AppendWal, BuildEvent, AppendLine, AsRead
  <2> HIDE DEF e
  <2>5. /\ Len(wal') = Len(wal) + 1 /\ wal'[Len(wal) + 1] = e /\ wal' # <<>>
        /\ DOMAIN wal' = 1..(Len(wal) + 1)
        /\ \A i \in 1..Len(wal) : wal'[i] = wal[i]
    BY <1>n, <2>4
  <2>6. ASSUME NEW i \in DOMAIN wal'
        PROVE  /\ wal'[i].op # "garbage"
               /\ wal'[i].prev = IF i = 1 THEN Genesis ELSE Hash(wal'[i - 1])
    <3>1. CASE i \in 1..Len(wal)
      <4>1. i \in DOMAIN wal /\ wal'[i] = wal[i] /\ (i # 1 => wal'[i - 1] = wal[i - 1])
        BY <1>n, <2>5, <3>1
      <4> QED BY <1>d, <4>1 DEF ChainValid
    <3>2. CASE i = Len(wal) + 1
      <4>1. wal'[i].op # "garbage" /\ wal'[i].prev = TailHash
        BY <2>1, <2>3, <2>5, <3>2
      <4>2. i = 1 => TailHash = Genesis
        BY <1>n, <3>2 DEF TailHash
      <4>3. i # 1 => wal'[i - 1] = wal[Len(wal)] /\ wal # <<>>
        BY <1>n, <2>5, <3>2
      <4> QED BY <4>1, <4>2, <4>3 DEF TailHash
    <3> QED BY <2>5, <2>6, <3>1, <3>2, <1>n
  <2>7. ChainValid'
    BY <2>6 DEF ChainValid
  <2>8. MemoryHash'
    BY <2>4, <2>5 DEF MemoryHash, TailHash
  <2>9. SnapshotHash' /\ SentinelHash'
    <3>1. ASSUME snap.kind = "ok", Within(snap.seq)' PROVE FALSE
      <4>1. e.seq <= snap.seq
        BY <2>4, <2>5, <3>1, <1>n DEF Within
      <4> QED BY <2>1, <2>3, <3>1, <4>1, <1>n DEF Ahead
    <3> QED BY <2>4, <3>1 DEF SnapshotHash, SentinelHash
  <2> QED BY <2>4, <2>7, <2>8, <2>9 DEF ChainInv
<1>9. CASE UpsertSnapshot \/ CloseSnapshot \/ CompactSnapshot
  <2>1. /\ UNCHANGED <<wal, torn, seq, lastHash>> /\ pc' \in {"idle", "truncate"}
        /\ pc # "sentinel" /\ snap'.seq = seq /\ snap'.last_hash = lastHash
    BY <1>9 DEF UpsertSnapshot, CloseSnapshot, CompactSnapshot, WriteSnapshot
  <2> QED BY <1>d, <2>1 DEF ChainInv, ChainValid, MemoryHash, SnapshotHash, SentinelHash,
                            TailHash, Within
<1>10. CASE Truncate
  <2>1. /\ wal' = <<>> /\ torn' = FALSE /\ pc' = "sentinel"
        /\ seq' = seq + 1 /\ lastHash' = Hash(Sentinel(seq + 1))
    BY <1>10 DEF Truncate, BuildSentinel
  <2>2. DOMAIN wal' = {}
    BY <2>1
  <2> QED BY <2>1, <2>2 DEF ChainInv, ChainValid, MemoryHash, SnapshotHash, SentinelHash
<1>11. CASE WriteSentinel
  <2>1. /\ wal' = <<Sentinel(seq)>> /\ pc = "sentinel" /\ pc' = "idle"
        /\ UNCHANGED <<torn, snap, seq, lastHash>>
    BY <1>11 DEF WriteSentinel
  <2>2. /\ Sentinel(seq).seq = seq /\ Sentinel(seq).op # "garbage"
        /\ Sentinel(seq).prev = Genesis
    BY DEF Sentinel, Event, CompactCall
  <2>3. DOMAIN wal' = {1} /\ wal'[1] = Sentinel(seq) /\ Len(wal') = 1 /\ wal' # <<>>
    BY <2>1
  <2>4. ChainValid'
    BY <2>2, <2>3 DEF ChainValid
  <2>5. MemoryHash' /\ SentinelHash'
    BY <1>d, <2>1, <2>3 DEF MemoryHash, SentinelHash, TailHash
  <2>6. SnapshotHash'
    <3>1. ASSUME snap.kind = "ok", Within(snap.seq)' PROVE FALSE
      <4>1. seq <= snap.seq
        BY <2>1, <2>2, <2>3, <3>1 DEF Within
      <4>2. snap.seq < seq
        BY <2>1, <3>1 DEF NumberInv, AtSentinel
      <4> QED BY <1>n, <4>1, <4>2
    <3> QED BY <2>1, <3>1 DEF SnapshotHash
  <2> QED BY <1>d, <2>1, <2>4, <2>5, <2>6 DEF ChainInv
<1>12. CASE AppendFails \/ TornAppend \/ TruncateFails \/ SentinelFails \/ TornSentinel
  <2>1. struck' \cap {"append_fails", "torn_append", "truncate_fails", "sentinel_fails"} # {}
    BY <1>12 DEF AppendFails, TornAppend, TruncateFails, SentinelFails, TornSentinel
  <2> QED BY <2>1 DEF Intact
<1>13. CASE Crash
  <2>1. UNCHANGED <<wal, torn, snap>> /\ seq' = 0 /\ lastHash' = Genesis /\ pc' = "idle"
        /\ pc # "sentinel"
    BY <1>13 DEF Crash, Intact
  <2>2. ChainValid' /\ SnapshotHash' /\ SentinelHash'
    BY <1>d, <2>1 DEF ChainValid, SnapshotHash, SentinelHash, TailHash, Within
  <2>3. MemoryHash'
    BY <1>d, <2>1, NothingBelowOne DEF MemoryHash, TailHash, Within
  <2> QED BY <1>d, <2>1, <2>2, <2>3 DEF ChainInv
<1>14. CASE RotSnapshot
  <2>1. snap'.kind # "ok" /\ UNCHANGED <<wal, torn, seq, lastHash, pc>>
    BY <1>14, <1>t DEF RotSnapshot, TypeOK, DiskTypes, Snapshot
  <2> QED BY <1>d, <2>1 DEF ChainInv, ChainValid, MemoryHash, SnapshotHash, SentinelHash,
                            TailHash, Within
<1>15. CASE UNCHANGED vars
  BY <1>15, <1>d DEF vars, ChainInv, ChainValid, MemoryHash, SnapshotHash, SentinelHash,
                     TailHash, Within
<1> QED BY <1>1, <1>2, <1>3, <1>4, <1>5, <1>6, <1>7, <1>8, <1>9, <1>10, <1>11, <1>12,
           <1>13, <1>14, <1>15 DEF Informed, Step, Failure

-----------------------------------------------------------------------------
(* Truncation.                                                             *)

LEMMA TruncateInit == Init => TruncateInv
BY DEF Init, TruncateInv

LEMMA TruncateStep == NumberInv /\ TruncateInv /\ [Informed]_vars => TruncateInv'
<1> SUFFICES ASSUME NumberInv, TruncateInv, [Informed]_vars,
                    struck' \cap {"torn_append", "rot_snapshot"} = {}
             PROVE  torn' = FALSE /\ (pc' = "truncate" => snap'.kind = "ok" /\ Within(snap.seq)')
  BY DEF TruncateInv
<1>1. torn = FALSE /\ (pc = "truncate" => snap.kind = "ok" /\ Within(snap.seq))
  <2>1. struck \subseteq struck'
    BY StruckStays
  <2> QED BY <2>1 DEF TruncateInv
<1>2. CASE CompactSnapshot
  <2>1. UNCHANGED <<wal, torn, seq>> /\ snap'.kind = "ok" /\ snap'.seq = seq /\ pc = "compact"
    BY <1>2 DEF CompactSnapshot, WriteSnapshot
  <2>2. Within(seq)
    BY <2>1 DEF NumberInv, CountsAhead, WorkingIsOpen, Ahead
  <2> QED BY <1>1, <2>1, <2>2 DEF Within
<1>3. CASE TornAppend \/ TornSentinel \/ RotSnapshot
  BY <1>3 DEF TornAppend, TornSentinel, RotSnapshot
<1>4. CASE UNCHANGED vars
  BY <1>1, <1>4 DEF vars, Within
<1>5. ASSUME ~CompactSnapshot, ~(TornAppend \/ TornSentinel \/ RotSnapshot), ~UNCHANGED vars
      PROVE  torn' \in {torn, FALSE} /\ pc' # "truncate"
  BY <1>5 DEF Informed, Step, Failure, Write, Open, Close, Call, FirstStep, LoadSnapshot, SkipLine,
              ReplayLine, Opened, AppendWal, ApplyUpsert, ApplyDelete, UpsertSnapshot,
              CloseSnapshot, Truncate, WriteSentinel, AppendFails, SnapshotFails,
              TruncateFails, SentinelFails, Crash
<1> QED BY <1>1, <1>2, <1>3, <1>4, <1>5

LEMMA TruncateKeeps ==
    ASSUME NumberInv, TruncateInv, [Informed]_vars,
           struck' \cap {"torn_append", "rot_snapshot"} = {}
    PROVE  LogKept
<1>1. wal \in Seq(Line) /\ Len(wal) \in Nat /\ DOMAIN wal = 1..Len(wal)
  BY DEF NumberInv, TypeOK, DiskTypes
<1>2. CASE Truncate
  <2>1. struck' = struck /\ pc = "truncate"
    BY <1>2 DEF Truncate
  <2> QED BY <2>1 DEF TruncateInv, Within, LogKept
<1>3. CASE AppendWal
  <2>1. struck \subseteq struck'
    BY <1>3 DEF AppendWal
  <2>2. \A line : Len(Append(wal, line)) = Len(wal) + 1
                  /\ \A i \in DOMAIN wal : Append(wal, line)[i] = wal[i]
    BY <1>1
  <2> QED BY <1>1, <1>3, <2>1, <2>2 DEF AppendWal, AppendLine, TruncateInv, LogKept
<1>4. CASE WriteSentinel
  <2>1. wal = <<>> /\ Len(wal') = 1
    BY <1>4 DEF WriteSentinel, NumberInv, AtSentinel
  <2> QED BY <2>1 DEF LogKept
<1>5. CASE TornAppend \/ TornSentinel
  BY <1>5 DEF TornAppend, TornSentinel
<1>6. ASSUME ~Truncate, ~AppendWal, ~WriteSentinel, ~(TornAppend \/ TornSentinel)
      PROVE  wal' = wal
  BY <1>6 DEF Informed, Step, Failure, Write, Open, Close, Call, LoadSnapshot, SkipLine,
              ReplayLine, Opened, ApplyUpsert, ApplyDelete, UpsertSnapshot, CloseSnapshot,
              CompactSnapshot, AppendFails, SnapshotFails, TruncateFails, SentinelFails,
              Crash, RotSnapshot, vars
<1> QED BY <1>1, <1>2, <1>3, <1>4, <1>5, <1>6 DEF LogKept

-----------------------------------------------------------------------------
(* Counting.                                                               *)

\* In a log without unreadable lines the last one has the greatest number.
LEMMA TailIsGreatest ==
    ASSUME NumberInv, ChainValid
    PROVE  \A i \in DOMAIN wal : wal[i].seq <= TailNumber
<1>1. wal \in Seq(Line)
  BY DEF NumberInv, TypeOK, DiskTypes
<1> SUFFICES ASSUME NEW i \in DOMAIN wal PROVE wal[i].seq <= TailNumber
  OBVIOUS
<1>2. Len(wal) \in DOMAIN wal /\ i <= Len(wal) /\ wal # <<>>
  BY <1>1
<1>3. wal[i].seq \in Nat /\ wal[Len(wal)].seq \in Nat
  BY <1>1, <1>2, LineFields
<1>4. i = Len(wal) \/ wal[i].seq < wal[Len(wal)].seq
  BY <1>1, <1>2 DEF NumberInv, Increasing, ChainValid
<1> QED BY <1>2, <1>3, <1>4 DEF TailNumber

LEMMA CounterInit == Init => CounterInv
BY DEF Init, NoSnapshot, CounterInv, TailNumber

LEMMA CounterStep == NumberInv /\ ChainInv /\ CounterInv /\ [Informed]_vars => CounterInv'
<1> SUFFICES ASSUME NumberInv, ChainInv, CounterInv, [Informed]_vars, Intact', pc' # "sentinel"
             PROVE  /\ seq' <= TailNumber'
                    /\ snap'.kind = "ok" => snap'.seq <= TailNumber'
  BY DEF CounterInv
<1>n. /\ seq \in Nat /\ snap.seq \in Nat /\ wal \in Seq(Line) /\ TailNumber \in Nat
      /\ cursor \in Nat /\ cursor <= IF pc = "replay" THEN Len(wal) ELSE 0
  <2>1. /\ seq \in Nat /\ snap.seq \in Nat /\ wal \in Seq(Line)
        /\ cursor \in Nat /\ cursor <= IF pc = "replay" THEN Len(wal) ELSE 0
    BY DEF NumberInv, TypeOK, DiskTypes, MemoryTypes, ControlTypes, Snapshot
  <2>2. wal # <<>> => wal[Len(wal)] \in Line
    BY <2>1
  <2> QED BY <2>1, <2>2, LineFields DEF TailNumber
<1>c. Intact /\ ChainValid /\ torn = FALSE
  <2>1. struck \subseteq struck'
    BY StruckStays
  <2> QED BY <2>1 DEF Intact, ChainInv
<1>p. pc # "sentinel" => seq <= TailNumber /\ (snap.kind = "ok" => snap.seq <= TailNumber)
  BY <1>c DEF CounterInv
<1>1. CASE Write \/ Open
  <2>1. PICK call : Call(call)
    BY <1>1 DEF Write, Open
  <2> QED BY <2>1, <1>p DEF Call, TailNumber
<1>2. CASE Close \/ SkipLine \/ Opened \/ ApplyUpsert \/ ApplyDelete \/ SnapshotFails
           \/ RotSnapshot \/ UNCHANGED vars
  <2>1. wal' = wal /\ seq' = seq /\ pc # "sentinel"
        /\ (snap' = snap \/ snap'.kind = "corrupt")
    <3>1. CASE RotSnapshot
      <4>1. snap' = [snap EXCEPT !.kind = "corrupt"] /\ snap \in Snapshot
        BY <3>1 DEF RotSnapshot, NumberInv, TypeOK, DiskTypes
      <4>2. snap'.kind = "corrupt"
        BY <4>1 DEF Snapshot
      <4> QED BY <3>1, <4>2 DEF RotSnapshot
    <3>2. CASE UNCHANGED vars
      BY <3>2 DEF vars
    <3> QED BY <1>2, <3>1, <3>2 DEF Close, SkipLine, Opened, ApplyUpsert, ApplyDelete, SnapshotFails
  <2> QED BY <2>1, <1>p DEF TailNumber
<1>3. CASE LoadSnapshot
  <2>1. wal' = wal /\ snap' = snap /\ pc # "sentinel"
        /\ seq' \in {seq, 0} \cup {n \in {snap.seq} : snap.kind = "ok"}
    BY <1>3 DEF LoadSnapshot
  <2> QED BY <2>1, <1>p, <1>n DEF TailNumber
<1>4. CASE ReplayLine
  <2>1. wal' = wal /\ snap' = snap /\ pc # "sentinel"
        /\ cursor + 1 \in DOMAIN wal /\ seq' \in {seq, wal[cursor + 1].seq}
    BY <1>4, <1>n DEF ReplayLine
  <2>2. wal[cursor + 1].seq <= TailNumber
    BY <1>c, <2>1, TailIsGreatest
  <2> QED BY <2>1, <2>2, <1>p DEF TailNumber
<1>5. CASE AppendWal
  <2> DEFINE e == Event(seq + 1, req, lastHash)
  <2>1. AsRead(e) = e
    <3>1. e.rec = req.rec
      BY DEF Event
    <3>2. "split_line" \notin struck'
      BY DEF Intact
    <3>3. req.rec.content \notin Splitting
      BY <1>5, <3>2 DEF AppendWal
    <3> QED BY <3>1, <3>3 DEF AsRead
  <2>2. wal' = Append(wal, e) /\ seq' = seq + 1 /\ snap' = snap
    BY <1>c, <1>5, <2>1 DEF AppendWal, AppendLine, BuildEvent
  <2>3. e.seq = seq + 1
    BY DEF Event
  <2> HIDE DEF e
  <2>4. wal' # <<>> /\ wal'[Len(wal')] = e
    BY <2>2, <1>n
  <2>5. TailNumber' = seq + 1
    BY <2>3, <2>4 DEF TailNumber
  <2>6. snap.kind = "ok" => snap.seq <= seq
    BY <1>5 DEF AppendWal, NumberInv, CountsAhead, WorkingIsOpen, Ahead
  <2> QED BY <2>2, <2>5, <2>6, <1>n
<1>6. CASE UpsertSnapshot \/ CloseSnapshot \/ CompactSnapshot
  <2>1. wal' = wal /\ seq' = seq /\ pc # "sentinel" /\ snap'.seq = seq
    BY <1>6 DEF UpsertSnapshot, CloseSnapshot, CompactSnapshot, WriteSnapshot
  <2> QED BY <2>1, <1>p DEF TailNumber
<1>7. CASE WriteSentinel
  <2>1. wal' = <<Sentinel(seq)>> /\ seq' = seq /\ snap' = snap
        /\ (snap.kind = "ok" => snap.seq < seq)
    BY <1>7 DEF WriteSentinel, NumberInv, AtSentinel
  <2>2. Sentinel(seq).seq = seq
    BY DEF Sentinel, Event
  <2>3. TailNumber' = seq
    BY <2>1, <2>2 DEF TailNumber
  <2> QED BY <2>1, <2>3, <1>n
<1>8. CASE Crash
  <2>1. wal' = wal /\ seq' = 0 /\ snap' = snap /\ pc # "sentinel"
    BY <1>8 DEF Crash, Intact
  <2> QED BY <2>1, <1>n, <1>p DEF TailNumber
<1>9. CASE Truncate
  BY <1>9 DEF Truncate
<1>10. CASE AppendFails \/ TornAppend \/ TruncateFails \/ SentinelFails \/ TornSentinel
  <2>1. struck' \cap {"append_fails", "torn_append", "truncate_fails", "sentinel_fails"} # {}
    BY <1>10 DEF AppendFails, TornAppend, TruncateFails, SentinelFails, TornSentinel
  <2> QED BY <2>1 DEF Intact
<1> QED BY <1>1, <1>2, <1>3, <1>4, <1>5, <1>6, <1>7, <1>8, <1>9, <1>10 DEF Informed, Step, Failure

LEMMA CounterHolds == NumberInv /\ CounterInv => CounterMatchesLog
<1> SUFFICES ASSUME NumberInv, CounterInv, Settled, Intact PROVE seq = LastNumber
  BY DEF CounterMatchesLog
<1>1. /\ seq \in Nat /\ snap.seq \in Nat /\ wal \in Seq(Line)
  BY DEF NumberInv, TypeOK, DiskTypes, MemoryTypes, Snapshot
<1>2. Ahead /\ pc # "sentinel"
  BY DEF Settled, NumberInv, CountsAhead
<1>3. seq <= TailNumber
  BY <1>2 DEF CounterInv
<1>4. CASE wal = <<>>
  BY <1>1, <1>2, <1>3, <1>4 DEF TailNumber, LastNumber, After, Ahead
<1>5. CASE wal # <<>>
  <2>1. Len(wal) \in DOMAIN wal /\ wal[Len(wal)] \in Line
    BY <1>1, <1>5
  <2>2. wal[Len(wal)].seq \in Nat /\ wal[Len(wal)].seq <= seq
    BY <1>2, <2>1, LineFields DEF Ahead, Within
  <2> QED BY <1>1, <1>3, <1>5, <2>2 DEF TailNumber, LastNumber
<1> QED BY <1>4, <1>5

-----------------------------------------------------------------------------
(* Refinement of EpistemicMap.                                             *)

LEMMA SplitInit == Init => SplitInv
BY DEF Init, SplitInv

LEMMA SplitStep == SplitInv /\ [Informed]_vars => SplitInv'
<1> SUFFICES ASSUME SplitInv, [Informed]_vars, Splitting = {}
             PROVE  "split_line" \notin struck'
  BY DEF SplitInv
<1>1. CASE TornAppend
  BY <1>1 DEF TornAppend, SplitInv
<1> QED BY <1>1 DEF SplitInv, Informed, Step, Failure, Write, Open, Close, Call, LoadSnapshot, SkipLine,
           ReplayLine, Opened, AppendWal, ApplyUpsert, ApplyDelete, UpsertSnapshot,
           CloseSnapshot, CompactSnapshot, Truncate, WriteSentinel, AppendFails,
           SnapshotFails, TruncateFails, SentinelFails, TornSentinel, Crash, RotSnapshot, vars

LEMMA MapInit == Init => Promise!AInit
<1> SUFFICES ASSUME Init PROVE Promise!AInit
  OBVIOUS
<1>1. Base = Empty /\ After = 0 /\ Len(wal) = 0
  BY DEF Init, NoSnapshot, Base, After
<1>2. Empty \in [Ids -> Cell]
  BY RecordTypes DEF Empty
<1>3. View = Empty
  BY <1>1, <1>2, ViewAtCovered DEF View
<1>4. View = Promise!Empty
  BY <1>3 DEF Promise!Empty, Promise!NoRec, Promise!Blank, Empty, NoRec, Blank
<1>5. pc = "idle"
  BY DEF Init
<1> QED BY <1>4, <1>5 DEF Promise!AInit

LEMMA MapStep ==
    ASSUME NumberInv, NumberInv', DataInv, [Informed]_vars, Clean'
    PROVE  [Promise!ANext]_(Promise!avars)
<1>t. TypeOK /\ TypeOK'
  BY DEF NumberInv
<1>c. Clean /\ Clean'
  BY StruckStays DEF Clean
<1>v. (AppendWal => View' = Applied(View, req)) /\ (~AppendWal => View' = View)
  BY <1>c, <1>t, ViewStep
<1>s. ASSUME View' = View, req' = req, pc # "idle", pc' # "idle",
             pc \in {"apply", "snapshot"} <=> pc' \in {"apply", "snapshot"}
      PROVE  UNCHANGED Promise!avars
  BY <1>s DEF Promise!avars
<1>i. ASSUME View' = View, pc = "idle", pc' \notin {"apply", "snapshot"},
             pc' # "idle" => req'.op \notin {"upsert", "delete"}
      PROVE  UNCHANGED Promise!avars
  BY <1>i DEF Promise!avars
<1>r. ASSUME View' = View, req.op \in {"upsert", "delete"},
             pc \in {"apply", "snapshot"}, pc' = "idle"
      PROVE  Promise!Return
  BY <1>r DEF Promise!Return
<1>k. ASSUME View' = View, pc' = "idle", pc \notin {"apply", "snapshot"}
      PROVE  Promise!CutShort \/ UNCHANGED Promise!avars
  BY <1>k DEF Promise!CutShort, Promise!avars
<1>1. CASE Write
  <2>1. PICK call \in WriteCalls : Call(call)
    BY <1>1 DEF Write
  <2>2. /\ pc = "idle" /\ req' = call /\ pc' \in {"load", "append", "compact", "idle"}
        /\ (call.op \in {"upsert", "delete"} => pc' # "idle") /\ View' = View
    BY <1>v, <2>1 DEF Call, FirstStep, AppendWal
  <2>3. CASE call = CompactCall
    <3> QED BY <1>i, <2>2, <2>3 DEF CompactCall
  <2>4. CASE call \in UpsertCalls \cup DeleteCalls
    <3>1. call \in Promise!WriteCalls
      BY <2>4 DEF UpsertCalls, DeleteCalls, Promise!WriteCalls, Tombstone, Blank,
                  Promise!Tombstone, Promise!Blank
    <3>2. call.op \in {"upsert", "delete"}
      BY <2>4 DEF UpsertCalls, DeleteCalls
    <3>3. Promise!Invoke(call)
      BY <2>2, <3>2 DEF Promise!Invoke
    <3> QED BY <3>1, <3>3 DEF Promise!ANext
  <2> QED BY <2>3, <2>4 DEF WriteCalls
<1>2. CASE Open \/ Close
  <2>1. pc = "idle" /\ req'.op \in {"open", "close"} /\ pc' \in {"load", "close", "idle"}
    BY <1>2 DEF Open, Call, Close, OpenCall, CloseCall, FirstStep
  <2> QED BY <1>i, <1>v, <2>1 DEF AppendWal
<1>3. CASE LoadSnapshot \/ SkipLine \/ ReplayLine
  <2>1. pc \in {"load", "replay"} /\ pc' = "replay" /\ req' = req
    BY <1>3 DEF LoadSnapshot, SkipLine, ReplayLine
  <2> QED BY <1>s, <1>v, <2>1 DEF AppendWal
<1>4. CASE Opened
  <2>1. /\ pc = "replay" /\ req' = req /\ pc' \in {"append", "compact", "idle"}
        /\ (req.op \in {"upsert", "delete"} => pc' # "idle")
    BY <1>4 DEF Opened, FirstStep
  <2>2. View' = View
    BY <1>v, <2>1 DEF AppendWal
  <2> QED BY <1>s, <1>k, <2>1, <2>2 DEF Promise!ANext
<1>5. CASE AppendWal
  <2>1. pc = "append" /\ pc' = "apply" /\ req' = req /\ req.op \in {"upsert", "delete"}
    BY <1>5, <1>t DEF AppendWal, TypeOK, ControlTypes
  <2>2. req \in UpsertCalls \cup DeleteCalls
    BY <2>1, <1>t DEF TypeOK, ControlTypes, Calls, WriteCalls, CompactCall, OpenCall, CloseCall
  <2>3. req \in Promise!WriteCalls
    BY <2>2 DEF UpsertCalls, DeleteCalls, Promise!WriteCalls, Tombstone, Blank,
                Promise!Tombstone, Promise!Blank
  <2>4. View' = Promise!Written(View, req.op, req.id, req.rec)
    BY <1>5, <1>v DEF Applied, Promise!Written, NoRec, Blank, Promise!NoRec, Promise!Blank
  <2>5. Promise!TakeEffect(req)
    BY <2>1, <2>4 DEF Promise!TakeEffect
  <2> QED BY <2>3, <2>5 DEF Promise!ANext
<1>6. CASE AppendFails \/ TruncateFails \/ SentinelFails
  <2>1. pc \in {"append", "truncate", "sentinel"} /\ pc' = "idle"
    BY <1>6 DEF AppendFails, TruncateFails, SentinelFails
  <2>2. ~AppendWal
    BY <2>1 DEF AppendWal
  <2> QED BY <1>k, <1>v, <2>1, <2>2 DEF Promise!ANext
<1>7. CASE ApplyUpsert \/ ApplyDelete
  <2>1. pc = "apply" /\ pc' \in {"snapshot", "idle"} /\ req' = req
        /\ req.op \in {"upsert", "delete"}
    BY <1>7 DEF ApplyUpsert, ApplyDelete
  <2>2. View' = View
    BY <1>v, <2>1 DEF AppendWal
  <2> QED BY <1>s, <1>r, <2>1, <2>2 DEF Promise!ANext
<1>8. CASE UpsertSnapshot
  <2>1. pc = "snapshot" /\ pc' = "idle" /\ req.op \in {"upsert", "delete"}
    BY <1>8, <1>t DEF UpsertSnapshot, TypeOK, ControlTypes
  <2> QED BY <1>r, <1>v, <2>1 DEF AppendWal, Promise!ANext
<1>9. CASE SnapshotFails
  <2>1. pc \in {"snapshot", "close", "compact"} /\ pc' = "idle"
        /\ (pc = "snapshot" => req.op \in {"upsert", "delete"})
    BY <1>9, <1>t DEF SnapshotFails, TypeOK, ControlTypes
  <2>2. View' = View
    BY <1>v, <2>1 DEF AppendWal
  <2> QED BY <1>r, <1>k, <2>1, <2>2 DEF Promise!ANext
<1>10. CASE CloseSnapshot \/ CompactSnapshot \/ Truncate \/ WriteSentinel
  <2>1. /\ pc \in {"close", "compact", "truncate", "sentinel"}
        /\ pc' \in {"idle", "truncate", "sentinel"} /\ req' = req
    BY <1>10 DEF CloseSnapshot, CompactSnapshot, Truncate, WriteSentinel
  <2>2. View' = View
    BY <1>v, <2>1 DEF AppendWal
  <2> QED BY <1>s, <1>k, <2>1, <2>2 DEF Promise!ANext
<1>11. CASE TornAppend \/ TornSentinel \/ RotSnapshot
  BY <1>c, <1>11 DEF TornAppend, TornSentinel, RotSnapshot, Clean
<1>12. CASE Crash
  <2>1. pc' = "idle" /\ wal' = wal /\ snap' = snap
    BY <1>12 DEF Crash
  <2>2. View' = View
    BY <2>1 DEF View, Base, After
  <2>3. Promise!CutShort \/ UNCHANGED Promise!avars
    <3>1. CASE pc \in {"apply", "snapshot"}
      <4>1. req.op \in {"upsert", "delete"}
        BY <1>t, <3>1 DEF TypeOK, ControlTypes
      <4> QED BY <2>1, <2>2, <3>1, <4>1 DEF Promise!CutShort
    <3>2. CASE pc \notin {"apply", "snapshot"}
      BY <1>k, <2>1, <2>2, <3>2
    <3> QED BY <3>1, <3>2
  <2> QED BY <2>3 DEF Promise!ANext
<1>13. CASE UNCHANGED vars
  <2>1. pc' = pc /\ req' = req /\ View' = View
    BY <1>13 DEF vars, View, Base, After
  <2> QED BY <2>1 DEF Promise!avars
<1> QED BY <1>1, <1>2, <1>3, <1>4, <1>5, <1>6, <1>7, <1>8, <1>9, <1>10, <1>11, <1>12,
           <1>13 DEF Informed, Step, Failure

-----------------------------------------------------------------------------
(* What events.wal says without a snapshot: it gives the same dictionary,  *)
(* and replay(from_seq) reports what changed.  First the last line of a    *)
(* set of lines.                                                           *)

LEMMA LatestOf ==
    ASSUME NEW n \in Nat, NEW S, S \subseteq 1..n, S # {}
    PROVE  \E m \in S : (\A j \in S : j <= m) /\ Latest(S) = {m}
<1> DEFINE T == {n - i : i \in S}
<1>0. \A i \in S : i \in Nat /\ n - i \in Nat
  OBVIOUS
<1>1. T \subseteq Nat /\ T # {}
  BY <1>0
<1>2. PICK t \in T : \A u \in T : t <= u
  BY <1>1, LeastOf
<1>3. PICK m \in S : t = n - m
  BY <1>2
<1>4. ASSUME NEW j \in S PROVE j <= m
  <2>1. n - j \in T
    OBVIOUS
  <2> QED BY <1>2, <1>3, <2>1
<1>5. \A i \in S : i # m => ~(m <= i)
  BY <1>0, <1>4
<1>6. Latest(S) = {m}
  BY <1>4, <1>5 DEF Latest
<1> QED BY <1>4, <1>6

-----------------------------------------------------------------------------
(* The record of an id, by the lines that touch it.                        *)

Tombed(r) == [r EXCEPT !.status = "tombstone"]

\* No upsert: what was there before, with the deletes.
LEMMA RecordAtNone ==
    ASSUME NEW log, NEW base, NEW after, NEW n \in Nat, NEW id,
           Touching(log, "upsert", after, n, id) = {}
    PROVE  RecordAt(log, base, after, n, id) =
             IF base[id] # NoRec /\ Touching(log, "delete", after, n, id) # {}
             THEN Tombed(base[id]) ELSE base[id]
<1>1. Latest({}) = {}
  BY DEF Latest
<1> QED BY <1>1 DEF RecordAt, LastWrite, Tombed

\* The latest upsert, with the deletes after it.
LEMMA RecordAtLatest ==
    ASSUME NEW log, NEW base, NEW after, NEW n \in Nat, NEW id,
           NEW m \in Touching(log, "upsert", after, n, id),
           \A j \in Touching(log, "upsert", after, n, id) : j <= m
    PROVE  RecordAt(log, base, after, n, id) =
             IF log[m].rec # NoRec /\ \E d \in Touching(log, "delete", after, n, id) : m < d
             THEN Tombed(log[m].rec) ELSE log[m].rec
<1> DEFINE ups == Touching(log, "upsert", after, n, id)
           dels == Touching(log, "delete", after, n, id)
<1>0. ups \subseteq 1..n /\ dels \subseteq 1..n
  BY DEF Touching
<1>1. m \in ups /\ \A j \in ups : j <= m
  OBVIOUS
<1> HIDE DEF ups, dels
<1>2. Latest(ups) = {m}
  <2>1. m \in Latest(ups)
    BY <1>1 DEF Latest
  <2>2. \A i \in ups : i \in Nat
    BY <1>0
  <2>3. \A i \in Latest(ups) : i = m
    BY <1>1, <2>2 DEF Latest
  <2> QED BY <2>1, <2>3
<1>3. (CHOOSE i \in Latest(ups) : TRUE) = m
  BY <1>2
<1>4. \A d \in dels : (\A u \in ups : u < d) <=> m < d
  BY <1>0, <1>1
<1>5. (\E d \in dels : \A u \in ups : u < d) <=> \E d \in dels : m < d
  BY <1>4
<1>6. LastWrite(log, base[id], ups, dels)
        = IF log[m].rec # NoRec /\ \E d \in dels : m < d THEN Tombed(log[m].rec) ELSE log[m].rec
  BY <1>2, <1>3, <1>5, Zenon DEF LastWrite, Tombed
<1> QED BY <1>6 DEF RecordAt, ups, dels

(* A log without unreadable lines, numbered upwards from 1.                *)
Sound(log) ==
    /\ log \in Seq(Line)
    /\ \A i \in DOMAIN log : log[i].op # "garbage" /\ log[i].seq >= 1
    /\ \A i, j \in DOMAIN log : i < j => log[i].seq < log[j].seq

Upserts(log, k, id) == {i \in 1..k : log[i].op = "upsert" /\ log[i].id = id}
Deletes(log, k, id) == {i \in 1..k : log[i].op = "delete" /\ log[i].id = id}

LEMMA SoundLines ==
    ASSUME NEW log, Sound(log)
    PROVE  /\ Len(log) \in Nat /\ DOMAIN log = 1..Len(log)
           /\ \A i \in DOMAIN log :
                /\ log[i].seq \in Nat /\ log[i].seq > 0
                /\ log[i].op \in {"upsert", "delete", "compact"}
                /\ log[i].op \in {"upsert", "delete"} => log[i].id \in Ids
                /\ log[i].rec \in Rec /\ log[i].rec # NoRec
           /\ \A i, j \in DOMAIN log : i < j => log[i].seq < log[j].seq
<1>1. \A i \in DOMAIN log : log[i] \in Line /\ log[i].op # "garbage" /\ log[i].seq >= 1
  BY DEF Sound
<1>2. ASSUME NEW i \in DOMAIN log
      PROVE  /\ log[i].seq \in Nat /\ log[i].seq > 0
             /\ log[i].op \in {"upsert", "delete", "compact"}
             /\ log[i].op \in {"upsert", "delete"} => log[i].id \in Ids
             /\ log[i].rec \in Rec /\ log[i].rec # NoRec
  BY <1>1, LineFields, RecordTypes DEF EventOps
<1>3. Len(log) \in Nat /\ DOMAIN log = 1..Len(log)
  BY DEF Sound
<1> QED BY <1>2, <1>3 DEF Sound

LEMMA AllLines ==
    ASSUME NEW log, Sound(log), NEW k \in Nat, 1..k \subseteq DOMAIN log, NEW id
    PROVE  /\ Touching(log, "upsert", 0, k, id) = Upserts(log, k, id)
           /\ Touching(log, "delete", 0, k, id) = Deletes(log, k, id)
           /\ \A i \in Upserts(log, k, id) : log[i].rec \in Rec /\ log[i].rec # NoRec
<1>1. \A i \in 1..k : log[i].seq > 0 /\ log[i].rec \in Rec /\ log[i].rec # NoRec
  BY SoundLines
<1> QED BY <1>1 DEF Touching, Upserts, Deletes

LEMMA FromLogNone ==
    ASSUME NEW log, Sound(log), NEW k \in Nat, 1..k \subseteq DOMAIN log,
           NEW id \in Ids, Upserts(log, k, id) = {}
    PROVE  FromLog(log, k, id) = NoRec
<1>1. Touching(log, "upsert", 0, k, id) = {}
  BY AllLines
<1>2. Empty[id] = NoRec
  BY DEF Empty
<1> QED BY <1>1, <1>2, RecordAtNone DEF FromLog

LEMMA FromLogSome ==
    ASSUME NEW log, Sound(log), NEW k \in Nat, 1..k \subseteq DOMAIN log,
           NEW id \in Ids, Upserts(log, k, id) # {}
    PROVE  \E m \in Upserts(log, k, id) :
             /\ \A j \in Upserts(log, k, id) : j <= m
             /\ log[m].rec \in Rec /\ log[m].rec # NoRec
             /\ FromLog(log, k, id) = IF \E d \in Deletes(log, k, id) : m < d
                                      THEN Tombed(log[m].rec) ELSE log[m].rec
             /\ FromLog(log, k, id) # NoRec
<1>0. Upserts(log, k, id) \subseteq 1..k
  BY DEF Upserts
<1>1. PICK m \in Upserts(log, k, id) : \A j \in Upserts(log, k, id) : j <= m
  BY <1>0, LatestOf
<1>2. log[m].rec \in Rec /\ log[m].rec # NoRec
  BY AllLines
<1>3. /\ Touching(log, "upsert", 0, k, id) = Upserts(log, k, id)
      /\ Touching(log, "delete", 0, k, id) = Deletes(log, k, id)
  BY AllLines
<1>4. FromLog(log, k, id) = IF log[m].rec # NoRec /\ \E d \in Deletes(log, k, id) : m < d
                            THEN Tombed(log[m].rec) ELSE log[m].rec
  <2>1. m \in Touching(log, "upsert", 0, k, id)
    BY <1>3
  <2>2. \A j \in Touching(log, "upsert", 0, k, id) : j <= m
    BY <1>1, <1>3
  <2>3. RecordAt(log, Empty, 0, k, id)
          = IF log[m].rec # NoRec /\ \E d \in Touching(log, "delete", 0, k, id) : m < d
            THEN Tombed(log[m].rec) ELSE log[m].rec
    BY <2>1, <2>2, RecordAtLatest
  <2> QED BY <1>3, <2>3 DEF FromLog
<1>5. Tombed(log[m].rec) # NoRec
  BY <1>2, StatusAssumption DEF Rec, NoRec, Tombed
<1> QED BY <1>1, <1>2, <1>4, <1>5

\* A record exists from its first upsert on.
LEMMA FromLogPresence ==
    ASSUME NEW log, Sound(log), NEW k \in Nat, 1..k \subseteq DOMAIN log, NEW id \in Ids
    PROVE  FromLog(log, k, id) = NoRec <=> Upserts(log, k, id) = {}
BY FromLogNone, FromLogSome

\* The next line applies to the dictionary so far.
LEMMA FromLogStep ==
    ASSUME NEW log, Sound(log), NEW k \in Nat, k + 1 \in DOMAIN log,
           NEW m, DOMAIN m = Ids, NEW id \in Ids, m[id] = FromLog(log, k, id)
    PROVE  Applied(m, log[k + 1])[id] = FromLog(log, k + 1, id)
<1> DEFINE e == log[k + 1]
           v == ViewAt(log, Empty, 0, k)
<1>1. e.seq > 0 /\ (e.op \in {"upsert", "delete"} => e.id \in Ids)
  BY SoundLines
<1>2. ViewAt(log, Empty, 0, k + 1) = Applied(v, e)
  BY <1>1, ViewAtStep
<1>3. v[id] = m[id] /\ DOMAIN v = Ids
  BY DEF ViewAt, FromLog
<1>4. ViewAt(log, Empty, 0, k + 1)[id] = FromLog(log, k + 1, id)
  BY DEF ViewAt, FromLog
<1>5. Applied(m, e)[id] = Applied(v, e)[id]
  <2> DEFINE at(d) == IF e.op = "upsert" /\ e.id = id THEN e.rec
                      ELSE IF e.op = "delete" /\ e.id = id /\ d[id] # NoRec
                           THEN [d[id] EXCEPT !.status = "tombstone"] ELSE d[id]
  <2>1. v[id] = m[id]
    BY <1>3
  <2>2. DOMAIN v = Ids
    BY <1>3
  <2> HIDE DEF e, v
  <2>3. Applied(m, e)[id] = at(m)
    BY AppliedAt
  <2>4. Applied(v, e)[id] = at(v)
    BY <2>2, AppliedAt
  <2> QED BY <2>1, <2>3, <2>4
<1> QED BY <1>2, <1>4, <1>5

-----------------------------------------------------------------------------
(* Snapshots and memories that a log covers.                               *)

\* Counting up from nothing covers no line.
LEMMA CoversNothing ==
    ASSUME NEW log, Sound(log)
    PROVE  Covers(log, Empty, 0)
<1>1. Len(log) \in Nat /\ DOMAIN log = 1..Len(log) /\ \A i \in DOMAIN log : log[i].seq > 0
  BY SoundLines
<1>2. Reaches(log, 0, 0)
  BY <1>1 DEF Reaches
<1>3. ASSUME NEW id \in Ids PROVE Empty[id] = FromLog(log, 0, id)
  <2>1. Upserts(log, 0, id) = {}
    BY DEF Upserts
  <2> QED BY <2>1, FromLogNone DEF Empty
<1> QED BY <1>1, <1>2, <1>3 DEF Covers

LEMMA CoversApproaches ==
    ASSUME NEW log, NEW rs, NEW s, Covers(log, rs, s)
    PROVE  Approaches(log, rs, s)
BY DEF Covers, Approaches

\* A line past the number that comes with a dictionary leaves it covered.
LEMMA CoversLonger ==
    ASSUME NEW log, Sound(log), NEW e, Sound(Append(log, e)), NEW rs, NEW s \in Nat,
           Covers(log, rs, s), e.seq > s
    PROVE  Covers(Append(log, e), rs, s)
<1> DEFINE w == Append(log, e)
<1>1. PICK k \in 0..Len(log) : /\ Reaches(log, k, s)
                               /\ \A id \in Ids : rs[id] = FromLog(log, k, id)
  BY DEF Covers
<1>2. /\ Len(log) \in Nat /\ Len(w) = Len(log) + 1 /\ w[Len(log) + 1] = e
      /\ \A i \in 1..Len(log) : w[i] = log[i]
  BY DEF Sound
<1> HIDE DEF w
<1>3. Reaches(w, k, s)
  BY <1>1, <1>2 DEF Reaches
<1>4. ASSUME NEW id \in Ids PROVE FromLog(log, k, id) = FromLog(w, k, id)
  <2>1. k \in Nat /\ \A i \in 1..k : log[i] = w[i]
    BY <1>2
  <2> QED BY <2>1, RecordAtPrefix DEF FromLog
<1>5. k \in 0..Len(w)
  BY <1>2
<1> QED BY <1>1, <1>3, <1>4, <1>5 DEF Covers, w

\* The line applied to a dictionary that covers the whole log covers the
\* line as well.
LEMMA CoversNext ==
    ASSUME NEW log, Sound(log), NEW e, Sound(Append(log, e)), NEW m, DOMAIN m = Ids,
           NEW s \in Nat, Covers(log, m, s), \A i \in DOMAIN log : log[i].seq <= s
    PROVE  Covers(Append(log, e), Applied(m, e), e.seq)
<1> DEFINE w == Append(log, e)
           n == Len(log)
<1>1. PICK k \in 0..n : /\ Reaches(log, k, s)
                        /\ \A id \in Ids : m[id] = FromLog(log, k, id)
  BY DEF Covers
<1>2. /\ n \in Nat /\ DOMAIN log = 1..n /\ Len(w) = n + 1 /\ w[n + 1] = e
      /\ \A i \in 1..n : w[i] = log[i]
  BY DEF Sound
<1>3. /\ DOMAIN w = 1..(n + 1) /\ \A i \in DOMAIN w : w[i].seq \in Nat
      /\ \A i, j \in DOMAIN w : i < j => w[i].seq < w[j].seq
  BY <1>2, SoundLines
<1> HIDE DEF w, n
<1>4. k = n
  <2>1. SUFFICES ASSUME k + 1 \in 1..n PROVE FALSE
    BY <1>2
  <2>2. log[k + 1].seq > s /\ log[k + 1].seq <= s
    BY <1>1, <1>2, <2>1 DEF Reaches, n
  <2>3. log[k + 1].seq \in Nat
    BY <1>2, <2>1, SoundLines
  <2> QED BY <2>2, <2>3
<1>5. Reaches(w, n + 1, e.seq)
  BY <1>2, <1>3 DEF Reaches
<1>6. ASSUME NEW id \in Ids PROVE Applied(m, e)[id] = FromLog(w, n + 1, id)
  <2>1. FromLog(log, n, id) = FromLog(w, n, id)
    BY <1>2, RecordAtPrefix DEF FromLog
  <2>2. n + 1 \in DOMAIN w /\ Sound(w)
    BY <1>2, <1>3 DEF w
  <2> QED BY <1>1, <1>2, <1>4, <2>1, <2>2, FromLogStep
<1> QED BY <1>2, <1>5, <1>6 DEF Covers, w

-----------------------------------------------------------------------------
(* Reloading.                                                              *)

\* _load_snapshot lays the snapshot over the memory: where the snapshot has
\* no record, the memory has none either or a later line is going to bring it.
LEMMA LoadApproaches ==
    ASSUME NEW log, Sound(log), NEW rs, NEW s \in Nat, Covers(log, rs, s),
           NEW m, NEW t, Covers(log, m, t),
           NEW laid, \A id \in Ids : laid[id] = IF rs[id] # NoRec THEN rs[id] ELSE m[id]
    PROVE  Approaches(log, laid, s)
<1>1. PICK k \in 0..Len(log) : /\ Reaches(log, k, s)
                               /\ \A id \in Ids : rs[id] = FromLog(log, k, id)
  BY DEF Covers
<1>2. PICK j \in 0..Len(log) : \A id \in Ids : m[id] = FromLog(log, j, id)
  BY DEF Covers
<1>3. Len(log) \in Nat /\ DOMAIN log = 1..Len(log)
  BY SoundLines
<1>4. k \in Nat /\ j \in Nat /\ 1..k \subseteq DOMAIN log /\ 1..j \subseteq DOMAIN log
  BY <1>3
<1>5. ASSUME NEW id \in Ids, rs[id] = NoRec, ~Upserted(log, k, id)
      PROVE  m[id] = NoRec
  <2>1. Upserts(log, k, id) = {}
    BY <1>1, <1>4, <1>5, FromLogPresence
  <2>2. Upserts(log, j, id) = {}
    BY <1>3, <1>4, <1>5, <2>1 DEF Upserts, Upserted
  <2> QED BY <1>2, <1>4, <2>2, FromLogPresence
<1>6. ASSUME NEW id \in Ids, ~Upserted(log, k, id)
      PROVE  laid[id] = FromLog(log, k, id)
  BY <1>1, <1>5, <1>6
<1> QED BY <1>1, <1>6 DEF Approaches

\* A line that replay applies brings the dictionary one line further.
LEMMA LineApproaches ==
    ASSUME NEW log, Sound(log), NEW m, DOMAIN m = Ids, NEW s \in Nat, Approaches(log, m, s),
           NEW c \in Nat, c + 1 \in DOMAIN log, \A i \in 1..c : log[i].seq <= s,
           log[c + 1].seq > s
    PROVE  Approaches(log, Applied(m, log[c + 1]), log[c + 1].seq)
<1> DEFINE e == log[c + 1]
<1>1. PICK k \in 0..Len(log) :
        /\ Reaches(log, k, s)
        /\ \A id \in Ids : m[id] = FromLog(log, k, id) \/ Upserted(log, k, id)
  BY DEF Approaches
<1>2. /\ Len(log) \in Nat /\ DOMAIN log = 1..Len(log)
      /\ \A i \in DOMAIN log : log[i].seq \in Nat
      /\ \A i, j \in DOMAIN log : i < j => log[i].seq < log[j].seq
  BY SoundLines
<1>3. k = c
  <2>1. ~(k < c)
    <3>1. SUFFICES ASSUME k < c PROVE FALSE
      OBVIOUS
    <3>2. log[k + 1].seq > s /\ log[k + 1].seq <= s /\ log[k + 1].seq \in Nat
      BY <1>1, <1>2, <3>1 DEF Reaches
    <3> QED BY <3>2
  <2>2. ~(c < k)
    <3>1. SUFFICES ASSUME c < k PROVE FALSE
      OBVIOUS
    <3>2. log[c + 1].seq <= s /\ log[c + 1].seq \in Nat
      BY <1>1, <1>2, <3>1 DEF Reaches
    <3> QED BY <3>2
  <2> QED BY <2>1, <2>2
<1>4. c + 1 \in 0..Len(log)
  BY <1>2
<1>5. Reaches(log, c + 1, e.seq)
  BY <1>2 DEF Reaches
<1>6. ASSUME NEW id \in Ids, ~Upserted(log, c + 1, id)
      PROVE  Applied(m, e)[id] = FromLog(log, c + 1, id)
  <2>1. CASE m[id] = FromLog(log, c, id)
    BY <2>1, FromLogStep
  <2>2. CASE Upserted(log, c, id)
    <3>1. e.op = "upsert" /\ e.id = id
      BY <1>2, <1>6, <2>2 DEF Upserted
    <3>2. e.seq > 0
      BY SoundLines
    <3>3. FromLog(log, c + 1, id) = e.rec
      BY <3>1, <3>2, RecordAtUpsert DEF FromLog
    <3>4. Applied(m, e)[id] = e.rec
      BY <3>1 DEF Applied
    <3> QED BY <3>3, <3>4
  <2> QED BY <1>1, <1>3, <2>1, <2>2
<1> QED BY <1>4, <1>5, <1>6 DEF Approaches

\* At the end of the log nothing is left to come.
LEMMA ApproachesEnds ==
    ASSUME NEW log, Sound(log), NEW m, NEW s, Approaches(log, m, s),
           \A i \in DOMAIN log : log[i].seq <= s, s \in Nat
    PROVE  Covers(log, m, s)
<1>1. PICK k \in 0..Len(log) :
        /\ Reaches(log, k, s)
        /\ \A id \in Ids : m[id] = FromLog(log, k, id) \/ Upserted(log, k, id)
  BY DEF Approaches
<1>2. /\ Len(log) \in Nat /\ DOMAIN log = 1..Len(log) /\ \A i \in DOMAIN log : log[i].seq \in Nat
  BY SoundLines
<1>3. \A i \in k + 1 .. Len(log) : FALSE
  BY <1>1, <1>2 DEF Reaches
<1>4. \A id \in Ids : ~Upserted(log, k, id)
  BY <1>3 DEF Upserted
<1> QED BY <1>1, <1>4 DEF Covers

\* A log without its first lines, over what those lines give, gives what the
\* whole log gives.
LEMMA CoveredView ==
    ASSUME NEW log, Sound(log), NEW rs, NEW s \in Nat, Covers(log, rs, s)
    PROVE  ViewAt(log, rs, s, Len(log)) = ViewAt(log, Empty, 0, Len(log))
<1> DEFINE n == Len(log)
<1>1. PICK k \in 0..n : /\ Reaches(log, k, s)
                        /\ \A id \in Ids : rs[id] = FromLog(log, k, id)
  BY DEF Covers
<1>2. /\ n \in Nat /\ DOMAIN log = 1..n /\ \A i \in DOMAIN log : log[i].seq \in Nat
  BY SoundLines
<1>n. n \in Nat
  BY <1>2
<1> HIDE DEF n
<1>3. ASSUME NEW id \in Ids
      PROVE  RecordAt(log, rs, s, n, id) = FromLog(log, n, id)
  <2> DEFINE ups  == Touching(log, "upsert", s, n, id)
             dels == Touching(log, "delete", s, n, id)
  <2>1. /\ \A i : i \in ups <=> i \in k + 1 .. n /\ log[i].op = "upsert" /\ log[i].id = id
        /\ \A i : i \in dels <=> i \in k + 1 .. n /\ log[i].op = "delete" /\ log[i].id = id
    BY <1>1, <1>2 DEF Reaches, Touching, n
  <2>2. /\ k \in Nat /\ k <= n /\ 1..k \subseteq DOMAIN log /\ 1..n \subseteq DOMAIN log
    BY <1>2
  <2>3. /\ \A i : i \in Upserts(log, n, id) <=> i \in Upserts(log, k, id) \/ i \in ups
        /\ \A i : i \in Deletes(log, n, id) <=> i \in Deletes(log, k, id) \/ i \in dels
        /\ \A i \in Upserts(log, k, id) : i \in 1..k
        /\ \A i \in Deletes(log, k, id) : i \in 1..k
        /\ \A i \in ups \cup dels : i \in Nat /\ i > k
    BY <1>2, <2>1, <2>2 DEF Upserts, Deletes
  <2>4. CASE ups # {}
    <3>1. ups \subseteq 1..n
      BY <2>1, <2>2
    <3> HIDE DEF ups, dels
    <3>2. PICK m \in ups : \A j \in ups : j <= m
      BY <1>2, <2>4, <3>1, LatestOf
    <3>3. RecordAt(log, rs, s, n, id) = IF log[m].rec # NoRec /\ \E d \in dels : m < d
                                        THEN Tombed(log[m].rec) ELSE log[m].rec
      <4>1. m \in Touching(log, "upsert", s, n, id)
        BY <3>2 DEF ups
      <4>2. \A j \in Touching(log, "upsert", s, n, id) : j <= m
        BY <3>2 DEF ups
      <4>3. RecordAt(log, rs, s, n, id)
              = IF log[m].rec # NoRec /\ \E d \in Touching(log, "delete", s, n, id) : m < d
                THEN Tombed(log[m].rec) ELSE log[m].rec
        BY <1>n, <4>1, <4>2, RecordAtLatest
      <4> QED BY <4>3 DEF dels
    <3>4. PICK l \in Upserts(log, n, id) :
             /\ \A j \in Upserts(log, n, id) : j <= l
             /\ log[l].rec \in Rec /\ log[l].rec # NoRec
             /\ FromLog(log, n, id) = IF \E d \in Deletes(log, n, id) : l < d
                                      THEN Tombed(log[l].rec) ELSE log[l].rec
      BY <1>2, <2>2, <2>3, <3>2, FromLogSome
    <3>5. l = m
      BY <2>2, <2>3, <3>2, <3>4
    <3>6. (\E d \in Deletes(log, n, id) : l < d) <=> \E d \in dels : m < d
      BY <2>2, <2>3, <3>2, <3>5
    <3> QED BY <3>3, <3>4, <3>5, <3>6
  <2>5. CASE ups = {}
    <3> HIDE DEF ups, dels
    <3>1. RecordAt(log, rs, s, n, id) = IF rs[id] # NoRec /\ dels # {}
                                        THEN Tombed(rs[id]) ELSE rs[id]
      BY <1>n, <2>5, RecordAtNone DEF ups, dels
    <3>2. CASE Upserts(log, k, id) = {}
      <4>1. Upserts(log, n, id) = {}
        BY <2>3, <2>5, <3>2
      <4>2. FromLog(log, n, id) = NoRec /\ rs[id] = NoRec
        BY <1>1, <1>2, <2>2, <3>2, <4>1, FromLogNone
      <4> QED BY <3>1, <4>2
    <3>3. CASE Upserts(log, k, id) # {}
      <4>1. PICK m \in Upserts(log, k, id) :
               /\ \A j \in Upserts(log, k, id) : j <= m
               /\ log[m].rec \in Rec /\ log[m].rec # NoRec
               /\ FromLog(log, k, id) = IF \E d \in Deletes(log, k, id) : m < d
                                        THEN Tombed(log[m].rec) ELSE log[m].rec
               /\ FromLog(log, k, id) # NoRec
        BY <2>2, <3>3, FromLogSome
      <4>2. PICK l \in Upserts(log, n, id) :
               /\ \A j \in Upserts(log, n, id) : j <= l
               /\ FromLog(log, n, id) = IF \E d \in Deletes(log, n, id) : l < d
                                        THEN Tombed(log[l].rec) ELSE log[l].rec
        BY <1>2, <2>2, <2>3, <4>1, FromLogSome
      <4>3. l = m
        BY <2>2, <2>3, <2>5, <4>1, <4>2
      <4>4. (\E d \in Deletes(log, n, id) : l < d)
              <=> dels # {} \/ \E d \in Deletes(log, k, id) : m < d
        BY <2>2, <2>3, <4>1, <4>3
      <4>5. Tombed(Tombed(log[m].rec)) = Tombed(log[m].rec)
        BY <4>1 DEF Tombed, Rec
      <4>6. rs[id] = FromLog(log, k, id)
        BY <1>1
      <4> QED BY <3>1, <4>1, <4>2, <4>3, <4>4, <4>5, <4>6
    <3> QED BY <3>2, <3>3
  <2> QED BY <2>4, <2>5
<1> QED BY <1>3 DEF ViewAt, FromLog, n

-----------------------------------------------------------------------------
(* The inductive invariant.                                                *)

LEMMA CoversFurther ==
    ASSUME NEW log, Sound(log), NEW m, NEW s \in Nat, NEW t \in Nat, s <= t,
           \A i \in DOMAIN log : log[i].seq <= s, Covers(log, m, s)
    PROVE  Covers(log, m, t)
<1>1. PICK k \in 0..Len(log) : /\ Reaches(log, k, s)
                               /\ \A id \in Ids : m[id] = FromLog(log, k, id)
  BY DEF Covers
<1>2. /\ Len(log) \in Nat /\ DOMAIN log = 1..Len(log) /\ \A i \in DOMAIN log : log[i].seq \in Nat
  BY SoundLines
<1>3. \A i \in k + 1 .. Len(log) : FALSE
  BY <1>1, <1>2 DEF Reaches
<1>4. Reaches(log, k, t)
  BY <1>2, <1>3 DEF Reaches
<1> QED BY <1>1, <1>4 DEF Covers

LEMMA SoundWal == NumberInv /\ ReadableLog => Sound(wal)
BY DEF NumberInv, ReadableLog, TypeOK, DiskTypes, Positive, Increasing, Sound

LEMMA AloneInit == Init => AloneInv
<1> SUFFICES ASSUME Init PROVE AloneInv
  OBVIOUS
<1>1. wal = <<>> /\ DOMAIN wal = {} /\ torn = FALSE /\ snap.kind = "none" /\ pc = "idle"
  BY DEF Init, NoSnapshot
<1>2. state = Empty
  BY DEF Init
<1> QED BY <1>1, <1>2 DEF AloneInv, SnapshotTaken, Complete, ReadableLog, NothingYet, FromStart

\* The snapshot at truncation is the one compact has just written.
LEMMA SnapshotTakenStep ==
    ASSUME SnapshotTaken, [Informed]_vars
    PROVE  SnapshotTaken'
<1>1. CASE CompactSnapshot
  BY <1>1 DEF CompactSnapshot, WriteSnapshot, SnapshotTaken
<1>2. CASE RotSnapshot
  BY <1>2 DEF RotSnapshot, SnapshotTaken
<1>3. CASE ~CompactSnapshot /\ ~RotSnapshot
  BY <1>3 DEF SnapshotTaken, Informed, Step, Failure, Write, Open, Close, Call, FirstStep,
     LoadSnapshot, SkipLine, ReplayLine, Opened, AppendWal, ApplyUpsert, ApplyDelete,
     UpsertSnapshot, CloseSnapshot, CompactSnapshot, Truncate, WriteSentinel, AppendFails,
     TornAppend, SnapshotFails, TruncateFails, SentinelFails, TornSentinel, Crash,
     RotSnapshot, vars
<1> QED BY <1>1, <1>2, <1>3

\* Calls that begin or end without touching the disk or the memory.
LEMMA AloneControlStep ==
    ASSUME Complete, UNCHANGED <<wal, torn, snap, state, seq>>,
           pc \notin {"replay", "apply"}, pc' \notin {"replay", "apply", "sentinel"}
    PROVE  Complete'
BY DEF Complete, ReadableLog, NothingYet, FromStart, CoveredSnapshot, CoveredMemory

LEMMA AloneLoad ==
    ASSUME NumberInv, Complete, LoadSnapshot
    PROVE  Complete'
<1>1. /\ UNCHANGED <<wal, torn, snap>> /\ pc = "load" /\ pc' = "replay"
  BY DEF LoadSnapshot
<1>2. Sound(wal) /\ snap.seq \in Nat /\ state \in [Ids -> Cell]
  BY SoundWal DEF Complete, NumberInv, TypeOK, DiskTypes, MemoryTypes, Snapshot
<1>3. wal' = <<>> => NothingYet'
  BY <1>1, <1>2 DEF LoadSnapshot, Complete, NothingYet, Empty
<1>4. ASSUME FromStart PROVE Approaches(wal', state', seq')
  <2>1. Covers(wal, state, seq) /\ (snap.kind = "ok" => Covers(wal, snap.records, snap.seq))
    BY <1>1, <1>4 DEF Complete, CoveredSnapshot, CoveredMemory
  <2>2. CASE snap.kind = "ok"
    <3>1. seq' = snap.seq /\ state' = [id \in Ids |-> IF snap.records[id] # NoRec
                                       THEN snap.records[id] ELSE state[id]]
      BY <2>2 DEF LoadSnapshot
    <3>2. \A id \in Ids : state'[id] = IF snap.records[id] # NoRec
                                        THEN snap.records[id] ELSE state[id]
      BY <3>1
    <3>3. Approaches(wal, state', snap.seq)
      BY <1>2, <2>1, <2>2, <3>2, LoadApproaches
    <3> QED BY <1>1, <3>1, <3>3
  <2>3. CASE snap.kind = "corrupt"
    <3>1. seq' = 0 /\ state' = Empty
      BY <2>3 DEF LoadSnapshot
    <3> QED BY <1>1, <1>2, <3>1, CoversNothing, CoversApproaches
  <2>4. CASE snap.kind \notin {"ok", "corrupt"}
    <3>1. seq' = seq /\ state' = state
      BY <2>4 DEF LoadSnapshot
    <3> QED BY <1>1, <2>1, <3>1, CoversApproaches
  <2> QED BY <2>2, <2>3, <2>4
<1> QED BY <1>1, <1>3, <1>4 DEF Complete, ReadableLog, FromStart, CoveredSnapshot, CoveredMemory

LEMMA AloneReplay ==
    ASSUME NumberInv, Complete, ReplayLine
    PROVE  Complete'
<1> DEFINE e == wal[cursor + 1]
<1>1. /\ UNCHANGED <<wal, torn, snap>> /\ pc = "replay" /\ pc' = "replay"
      /\ cursor < Len(wal) /\ ~Skipped(e)
      /\ state' = Applied(state, e) /\ seq' = IF e.seq > seq THEN e.seq ELSE seq
  BY DEF ReplayLine
<1>2. /\ Sound(wal) /\ state \in [Ids -> Cell] /\ DOMAIN state = Ids
      /\ seq \in Nat /\ cursor \in Nat
  BY SoundWal DEF Complete, NumberInv, TypeOK, DiskTypes, MemoryTypes, ControlTypes
<1>3. cursor + 1 \in DOMAIN wal /\ e.seq \in Nat /\ e.seq > 0 /\ wal # <<>>
  <2>1. cursor + 1 \in DOMAIN wal /\ wal # <<>>
    BY <1>1, <1>2, SoundLines
  <2> QED BY <1>2, <2>1, SoundLines
<1>4. e.seq > seq /\ seq' = e.seq
  BY <1>1, <1>2, <1>3 DEF Skipped
<1>5. \A i \in 1..cursor : wal[i].seq <= seq
  BY <1>1 DEF NumberInv, CountsRead
<1>6. ASSUME FromStart PROVE Approaches(wal', state', seq')
  <2>1. Approaches(wal, state, seq)
    BY <1>1, <1>6 DEF Complete, CoveredMemory
  <2>2. Approaches(wal, Applied(state, e), e.seq)
    BY <1>2, <1>3, <1>4, <1>5, <2>1, LineApproaches
  <2> QED BY <1>1, <1>4, <2>2
<1> QED BY <1>1, <1>3, <1>6 DEF Complete, ReadableLog, FromStart, CoveredSnapshot, CoveredMemory

LEMMA AloneOpened ==
    ASSUME NumberInv, Complete, Opened
    PROVE  Complete'
<1>1. /\ UNCHANGED <<wal, torn, snap, state, seq>> /\ pc = "replay" /\ cursor = Len(wal)
      /\ pc' \in {"append", "compact", "idle"}
  BY DEF Opened, FirstStep
<1>2. Sound(wal) /\ seq \in Nat
  BY SoundWal DEF Complete, NumberInv, TypeOK, MemoryTypes
<1>3. \A i \in DOMAIN wal : wal[i].seq <= seq
  BY <1>1, <1>2, SoundLines DEF NumberInv, CountsRead
<1>4. FromStart => Covers(wal, state, seq)
  BY <1>1, <1>2, <1>3, ApproachesEnds DEF Complete, CoveredMemory
<1> QED BY <1>1, <1>4 DEF Complete, ReadableLog, NothingYet, FromStart, CoveredSnapshot,
                          CoveredMemory

LEMMA AloneAppend ==
    ASSUME NumberInv, NumberInv', Complete, AppendWal, Tidy'
    PROVE  Complete'
<1> DEFINE e == Event(seq + 1, req, lastHash)
<1>1. /\ pc = "append" /\ pc' = "apply" /\ UNCHANGED <<snap, state, req>> /\ torn' = FALSE
      /\ seq' = seq + 1 /\ wal' = AppendLine(AsRead(e))
  BY DEF AppendWal, BuildEvent
<1>2. AsRead(e) = e
  <2>1. req.rec.content \notin Splitting
    BY DEF AppendWal, Tidy
  <2> QED BY <2>1 DEF AsRead, Event
<1>3. wal' = Append(wal, e)
  BY <1>1, <1>2 DEF AppendLine, Complete, ReadableLog
<1>4. /\ wal \in Seq(Line) /\ Sound(wal) /\ seq \in Nat /\ snap.seq \in Nat
      /\ state \in [Ids -> Cell] /\ DOMAIN state = Ids /\ req.op \in {"upsert", "delete"}
  BY <1>1, SoundWal DEF Complete, NumberInv, TypeOK, DiskTypes, MemoryTypes, ControlTypes, Snapshot
<1>5. e.seq = seq + 1 /\ e.op = req.op /\ Applied(state, e) = Applied(state, req)
  BY DEF Event, Applied
<1>6. Ahead
  BY <1>1 DEF NumberInv, WorkingIsOpen, CountsAhead
<1> HIDE DEF e
<1>7. ReadableLog' /\ Len(wal') = Len(wal) + 1 /\ wal' # <<>>
      /\ (wal # <<>> => wal'[1] = wal[1]) /\ (wal = <<>> => wal'[1] = e)
  BY <1>1, <1>3, <1>4, <1>5 DEF Complete, ReadableLog
<1>8. Sound(wal') /\ Sound(Append(wal, e))
  <2>1. Sound(wal')
    BY <1>7 DEF NumberInv, ReadableLog, TypeOK, DiskTypes, Positive, Increasing, Sound
  <2> QED BY <1>3, <2>1
<1>9. ASSUME FromStart'
      PROVE  Covers(wal, state, seq) /\ (snap.kind = "ok" => Covers(wal, snap.records, snap.seq))
  <2>1. CASE wal = <<>>
    <3>1. seq = 0 /\ state = Empty
      BY <1>4, <1>5, <1>7, <1>9, <2>1 DEF FromStart, Complete, NothingYet
    <3>2. snap.kind = "ok" => snap.seq = 0 /\ snap.records = Empty
      BY <1>4, <1>6, <2>1, <3>1 DEF Ahead, Complete, NothingYet
    <3> QED BY <1>4, <3>1, <3>2, CoversNothing
  <2>2. CASE wal # <<>>
    BY <1>1, <1>7, <1>9, <2>2 DEF FromStart, Complete, CoveredSnapshot, CoveredMemory
  <2> QED BY <2>1, <2>2
<1>10. ASSUME FromStart' PROVE Covers(wal', Applied(state', req'), seq')
  <2>1. Covers(Append(wal, e), Applied(state, e), e.seq)
    BY <1>4, <1>6, <1>8, <1>9, <1>10, CoversNext DEF Ahead, Within
  <2> QED BY <1>1, <1>3, <1>5, <2>1
<1>11. ASSUME FromStart', snap'.kind = "ok" PROVE Covers(wal', snap'.records, snap'.seq)
  <2>1. e.seq > snap.seq
    BY <1>1, <1>4, <1>5, <1>6, <1>11 DEF Ahead
  <2>2. Covers(Append(wal, e), snap.records, snap.seq)
    BY <1>1, <1>4, <1>8, <1>9, <1>11, <2>1, CoversLonger
  <2> QED BY <1>1, <1>3, <2>2
<1> QED BY <1>1, <1>7, <1>10, <1>11 DEF Complete, CoveredSnapshot, CoveredMemory

LEMMA AloneApply ==
    ASSUME NumberInv, Complete, ApplyUpsert \/ ApplyDelete
    PROVE  Complete'
<1>1. /\ UNCHANGED <<wal, torn, snap, seq>> /\ pc = "apply" /\ pc' \in {"snapshot", "idle"}
      /\ state' = Applied(state, req)
  BY DEF ApplyUpsert, ApplyDelete, Applied
<1>2. wal # <<>>
  BY <1>1 DEF Complete, NothingYet
<1> QED BY <1>1, <1>2 DEF Complete, ReadableLog, FromStart, CoveredSnapshot, CoveredMemory

LEMMA AloneSnapshot ==
    ASSUME NumberInv, Complete, UpsertSnapshot \/ CloseSnapshot \/ CompactSnapshot
    PROVE  Complete'
<1>1. /\ UNCHANGED <<wal, torn, state, seq>>
      /\ pc \notin {"replay", "apply", "sentinel"} /\ pc' \in {"idle", "truncate"}
      /\ snap'.kind = "ok" /\ snap'.seq = seq /\ snap'.records = state
  BY DEF UpsertSnapshot, CloseSnapshot, CompactSnapshot, WriteSnapshot
<1>2. wal = <<>> => NothingYet'
  BY <1>1 DEF Complete, NothingYet
<1>3. FromStart => Covers(wal, state, seq)
  BY <1>1 DEF Complete, CoveredMemory
<1> QED BY <1>1, <1>2, <1>3 DEF Complete, ReadableLog, FromStart, CoveredSnapshot, CoveredMemory

LEMMA AloneTruncate ==
    ASSUME NumberInv, NumberInv', SnapshotTaken, Complete, Truncate
    PROVE  Complete'
<1>1. /\ UNCHANGED <<snap, state>> /\ pc = "truncate" /\ pc' = "sentinel"
      /\ wal' = <<>> /\ torn' = FALSE /\ seq' = seq + 1 /\ DOMAIN wal' = {}
  BY DEF Truncate, BuildSentinel
<1>2. wal \in Seq(Line) /\ seq \in Nat /\ snap.seq \in Nat /\ \A i \in DOMAIN wal : wal[i].seq \in Nat
  BY LineFields DEF NumberInv, TypeOK, DiskTypes, MemoryTypes, Snapshot
<1>3. Ahead
  BY <1>1 DEF NumberInv, WorkingIsOpen, CountsAhead
<1>4. seq = 0 => state = Empty
  <2>1. SUFFICES ASSUME seq = 0 PROVE state = Empty
    OBVIOUS
  <2>2. \A i \in DOMAIN wal : FALSE
    BY <1>2, <1>3, <2>1 DEF Ahead, Within, NumberInv, Positive, Complete, ReadableLog
  <2>3. wal = <<>>
    BY <1>2, <2>2
  <2> QED BY <2>1, <2>3 DEF Complete, NothingYet
<1>5. snap.kind # "none" /\ (snap.kind = "ok" => snap.seq = seq /\ snap.records = state)
  BY <1>1 DEF SnapshotTaken
<1>6. NothingYet'
  BY <1>1, <1>2, <1>4, <1>5 DEF NothingYet
<1> QED BY <1>1, <1>6 DEF Complete, ReadableLog, FromStart

LEMMA AloneSentinel ==
    ASSUME NumberInv, NumberInv', Complete, WriteSentinel
    PROVE  Complete'
<1> DEFINE e == Sentinel(seq)
<1>1. /\ UNCHANGED <<torn, snap, state, seq>> /\ pc = "sentinel" /\ pc' = "idle"
      /\ wal' = <<e>> /\ wal = <<>>
  BY DEF WriteSentinel, NumberInv, AtSentinel
<1>2. /\ seq \in Nat /\ snap.seq \in Nat /\ (snap.kind = "ok" => snap.seq < seq)
      /\ Sound(wal) /\ NothingYet
  BY <1>1, SoundWal DEF Complete, NumberInv, AtSentinel, TypeOK, DiskTypes, MemoryTypes, Snapshot
<1>3. e.seq = seq /\ e.op = "compact"
  BY DEF Sentinel, Event, CompactCall
<1> HIDE DEF e
<1>4. wal' = Append(wal, e) /\ ReadableLog' /\ wal' # <<>> /\ wal'[1] = e
  BY <1>1, <1>3 DEF Complete, ReadableLog
<1>5. Sound(Append(wal, e))
  <2>1. Sound(wal')
    BY <1>4 DEF NumberInv, ReadableLog, TypeOK, DiskTypes, Positive, Increasing, Sound
  <2> QED BY <1>4, <2>1
<1>6. ASSUME FromStart'
      PROVE  /\ seq = 1 /\ state = Empty
             /\ snap.kind = "ok" => snap.seq = 0 /\ snap.records = Empty
  <2>1. seq = 1
    BY <1>3, <1>4, <1>6 DEF FromStart
  <2> QED BY <1>1, <1>2, <2>1 DEF NothingYet
<1>7. Covers(wal, Empty, 0)
  BY <1>2, CoversNothing
<1>8. FromStart' => Covers(wal', state', seq')
  <2>1. DOMAIN Empty = Ids /\ \A i \in DOMAIN wal : wal[i].seq <= 0
    BY <1>1 DEF Empty
  <2>2. Covers(Append(wal, e), Applied(Empty, e), e.seq)
    BY <1>2, <1>5, <1>7, <2>1, CoversNext
  <2>3. Applied(Empty, e) = Empty
    BY <1>3 DEF Applied
  <2> QED BY <1>1, <1>3, <1>4, <1>6, <2>2, <2>3
<1>9. FromStart' /\ snap'.kind = "ok" => Covers(wal', snap'.records, snap'.seq)
  <2>1. FromStart' => e.seq > 0
    BY <1>3, <1>6
  <2>2. FromStart' => Covers(Append(wal, e), Empty, 0)
    BY <1>2, <1>5, <1>7, <2>1, CoversLonger
  <2> QED BY <1>1, <1>4, <1>6, <2>2
<1> QED BY <1>1, <1>4, <1>8, <1>9 DEF Complete, CoveredSnapshot, CoveredMemory

\* A number that is taken but not written.
LEMMA AloneFails ==
    ASSUME NumberInv, NumberInv', Complete, AppendFails \/ TruncateFails
    PROVE  Complete'
<1>1. /\ UNCHANGED <<wal, torn, snap, state>> /\ pc \in {"append", "truncate"} /\ pc' = "idle"
      /\ seq' = seq + 1
  BY DEF AppendFails, TruncateFails, BuildEvent, BuildSentinel
<1>2. Sound(wal) /\ seq \in Nat /\ seq + 1 \in Nat /\ seq <= seq + 1
  BY SoundWal DEF Complete, NumberInv, TypeOK, MemoryTypes
<1>3. Ahead
  BY <1>1 DEF NumberInv, WorkingIsOpen, CountsAhead
<1>4. FromStart => Covers(wal, state, seq + 1)
  BY <1>1, <1>2, <1>3, CoversFurther DEF Complete, CoveredMemory, Ahead, Within
<1>5. wal = <<>> => NothingYet'
  BY <1>1, <1>2 DEF Complete, NothingYet
<1> QED BY <1>1, <1>4, <1>5 DEF Complete, ReadableLog, FromStart, CoveredSnapshot, CoveredMemory

LEMMA AloneCrash ==
    ASSUME NumberInv, Complete, Crash
    PROVE  Complete'
<1>1. UNCHANGED <<wal, torn, snap>> /\ pc' = "idle" /\ state' = Empty /\ seq' = 0
  BY DEF Crash
<1>2. Covers(wal, Empty, 0)
  BY SoundWal, CoversNothing DEF Complete
<1> QED BY <1>1, <1>2 DEF Complete, ReadableLog, NothingYet, FromStart, CoveredSnapshot,
                          CoveredMemory

LEMMA AloneRot ==
    ASSUME Complete, RotSnapshot
    PROVE  Complete'
<1>1. UNCHANGED <<wal, torn, state, seq, pc, req>> /\ snap'.kind = "corrupt"
  BY DEF RotSnapshot
<1> QED BY <1>1 DEF Complete, ReadableLog, NothingYet, FromStart, CoveredSnapshot, CoveredMemory

LEMMA AloneStep == NumberInv /\ AloneInv /\ [Informed]_vars => AloneInv'
<1> SUFFICES ASSUME NumberInv, AloneInv, [Informed]_vars PROVE AloneInv'
  OBVIOUS
<1>1. NumberInv' /\ SnapshotTaken /\ SnapshotTaken'
  BY NumberStep, SnapshotTakenStep DEF AloneInv
<1> SUFFICES ASSUME Tidy' PROVE Complete'
  BY <1>1 DEF AloneInv
<1>2. Complete
  <2>1. struck \subseteq struck'
    BY StruckStays
  <2> QED BY <2>1 DEF AloneInv, Tidy
<1>3. CASE Write \/ Open \/ Close \/ SnapshotFails \/ SentinelFails
  <2>1. /\ UNCHANGED <<wal, torn, snap, state, seq>>
        /\ pc \notin {"replay", "apply"} /\ pc' \notin {"replay", "apply", "sentinel"}
    BY <1>3 DEF Write, Open, Call, FirstStep, Close, SnapshotFails, SentinelFails
  <2> QED BY <1>2, <2>1, AloneControlStep
<1>4. CASE LoadSnapshot
  BY <1>2, <1>4, AloneLoad
<1>5. CASE SkipLine \/ UNCHANGED vars
  <2>1. UNCHANGED <<wal, torn, snap, state, seq, pc, req>>
    BY <1>5 DEF SkipLine, vars
  <2> QED BY <1>2, <2>1 DEF Complete, ReadableLog, NothingYet, FromStart, CoveredSnapshot,
                            CoveredMemory
<1>6. CASE ReplayLine
  BY <1>2, <1>6, AloneReplay
<1>7. CASE Opened
  BY <1>2, <1>7, AloneOpened
<1>8. CASE AppendWal
  BY <1>1, <1>2, <1>8, AloneAppend
<1>9. CASE ApplyUpsert \/ ApplyDelete
  BY <1>2, <1>9, AloneApply
<1>10. CASE UpsertSnapshot \/ CloseSnapshot \/ CompactSnapshot
  BY <1>2, <1>10, AloneSnapshot
<1>11. CASE Truncate
  BY <1>1, <1>2, <1>11, AloneTruncate
<1>12. CASE WriteSentinel
  BY <1>1, <1>2, <1>12, AloneSentinel
<1>13. CASE AppendFails \/ TruncateFails
  BY <1>1, <1>2, <1>13, AloneFails
<1>14. CASE TornAppend \/ TornSentinel
  BY <1>14 DEF TornAppend, TornSentinel, Tidy
<1>15. CASE Crash
  BY <1>2, <1>15, AloneCrash
<1>16. CASE RotSnapshot
  BY <1>2, <1>16, AloneRot
<1> QED BY <1>3, <1>4, <1>5, <1>6, <1>7, <1>8, <1>9, <1>10, <1>11, <1>12, <1>13, <1>14,
           <1>15, <1>16 DEF Informed, Step, Failure

-----------------------------------------------------------------------------
(* The invariant, and what it says of each property.                       *)

LEMMA StoreInit == Init => StoreInv
BY NumberInit, DataInit, ChainInit, CounterInit, TruncateInit, SplitInit, AloneInit DEF StoreInv

LEMMA StoreStep == StoreInv /\ [Next]_vars => StoreInv'
<1> SUFFICES ASSUME StoreInv, [Next]_vars, AllRead'
             PROVE  /\ NumberInv' /\ DataInv' /\ ChainInv' /\ CounterInv'
                    /\ TruncateInv' /\ SplitInv' /\ AloneInv'
  BY DEF StoreInv
<1>1. AllRead /\ [Informed]_vars
  BY InformedSteps
<1>2. /\ NumberInv /\ DataInv /\ ChainInv /\ CounterInv
      /\ TruncateInv /\ SplitInv /\ AloneInv
  BY <1>1 DEF StoreInv
<1> QED BY <1>1, <1>2, NumberStep, DataStep, ChainStep, CounterStep, TruncateStep, SplitStep,
           AloneStep

LEMMA AloneView == NumberInv /\ AloneInv => LogAloneSuffices
<1> SUFFICES ASSUME NumberInv, AloneInv, Tidy, FromStart
             PROVE  View = ViewAt(wal, Empty, 0, Len(wal))
  BY DEF LogAloneSuffices, Tidy, FromStart
<1>1. Complete
  BY DEF AloneInv
<1>2. Sound(wal) /\ snap.seq \in Nat
  BY <1>1, SoundWal DEF Complete, NumberInv, TypeOK, DiskTypes, Snapshot
<1>3. CASE snap.kind = "ok"
  <2>1. Base = snap.records /\ After = snap.seq
    BY <1>3 DEF Base, After
  <2>2. Covers(wal, Base, After) /\ After \in Nat
    BY <1>1, <1>2, <1>3, <2>1 DEF Complete, CoveredSnapshot
  <2> QED BY <1>2, <2>2, CoveredView DEF View
<1>4. CASE snap.kind # "ok"
  BY <1>4 DEF View, Base, After
<1> QED BY <1>3, <1>4

\* A record that is not what it was after line i and is no tombstone was
\* upserted at that line or later.
LEMMA ChangedLater ==
    ASSUME NEW log, Sound(log), NEW n \in Nat, 1..n \subseteq DOMAIN log, NEW i \in 0..n,
           NEW id \in Ids, FromLog(log, n, id) # FromLog(log, i, id),
           FromLog(log, n, id).status # "tombstone"
    PROVE  /\ FromLog(log, n, id) # NoRec
           /\ \E j \in 1..n : j > i /\ log[j].op = "upsert" /\ log[j].id = id
<1>1. i \in Nat /\ 1..i \subseteq DOMAIN log
  OBVIOUS
<1>2. Upserts(log, i, id) \subseteq Upserts(log, n, id)
  BY DEF Upserts
<1>3. FromLog(log, n, id) # NoRec
  BY <1>1, <1>2, FromLogPresence
<1>4. Upserts(log, n, id) # {}
  BY <1>3, FromLogPresence
<1>5. PICK m \in Upserts(log, n, id) :
         /\ \A j \in Upserts(log, n, id) : j <= m
         /\ log[m].rec \in Rec
         /\ FromLog(log, n, id) = IF \E d \in Deletes(log, n, id) : m < d
                                  THEN Tombed(log[m].rec) ELSE log[m].rec
  BY <1>4, FromLogSome
<1>6. m \in 1..n /\ log[m].op = "upsert" /\ log[m].id = id
  BY DEF Upserts
<1>7. CASE m <= i
  <2>1. m \in Upserts(log, i, id)
    BY <1>6, <1>7 DEF Upserts
  <2>2. PICK l \in Upserts(log, i, id) :
           /\ \A j \in Upserts(log, i, id) : j <= l
           /\ FromLog(log, i, id) = IF \E d \in Deletes(log, i, id) : l < d
                                    THEN Tombed(log[l].rec) ELSE log[l].rec
    BY <1>1, <2>1, FromLogSome
  <2>3. l = m
    BY <1>2, <1>5, <2>1, <2>2 DEF Upserts
  <2>4. \A d \in Deletes(log, i, id) : d \in Deletes(log, n, id)
    BY DEF Deletes
  <2>5. Tombed(log[m].rec).status = "tombstone"
    BY <1>5 DEF Tombed, Rec
  <2>6. ~ \E d \in Deletes(log, n, id) : m < d
    BY <1>5, <2>5
  <2> QED BY <1>5, <2>2, <2>3, <2>4, <2>6
<1>8. CASE ~(m <= i)
  BY <1>3, <1>6, <1>8
<1> QED BY <1>7, <1>8

LEMMA ReportHolds == NumberInv /\ DataInv /\ AloneInv => ChangesAreReported
<1> SUFFICES ASSUME NumberInv, DataInv, AloneInv, Settled, LogFromTheStart, Clean
             PROVE  /\ \A i \in 0..Len(wal) : \A id \in Ids :
                          (/\ state[id] # RecordAt(wal, Empty, 0, i, id)
                           /\ state[id].status # "tombstone") => id \in WhatChangedSince(NumberOf(i))
                    /\ \A i \in DOMAIN wal : wal[i].op = "upsert"
                          => wal[i].id \in WhatChangedSince(NumberOf(i))
                    /\ \A id1, id2 \in WhatChangedSince(seq) : id1 = id2
  BY DEF ChangesAreReported, Clean
<1> DEFINE n == Len(wal)
<1>1. Sound(wal) /\ n \in Nat /\ DOMAIN wal = 1..n
  BY SoundWal DEF DataInv, Readable, ReadableLog, NumberInv, TypeOK, DiskTypes
<1>2. /\ seq \in Nat
      /\ \A i \in DOMAIN wal : wal[i].seq \in Nat /\ wal[i].op # "garbage"
      /\ \A i, j \in DOMAIN wal : i < j => wal[i].seq < wal[j].seq
  BY <1>1, SoundLines DEF NumberInv, TypeOK, MemoryTypes
<1>3. \A id \in Ids : state[id] = FromLog(wal, n, id)
  <2>1. state = View
    BY DEF Settled, DataInv, HoldsView
  <2>2. View = ViewAt(wal, Empty, 0, n)
    BY AloneView DEF LogAloneSuffices, Clean, Tidy, LogFromTheStart
  <2> QED BY <2>1, <2>2 DEF ViewAt, FromLog
<1>4. Ahead
  BY DEF Settled, NumberInv, CountsAhead
<1>5. ASSUME NEW i \in 0..n, NEW id \in Ids, state[id] # RecordAt(wal, Empty, 0, i, id),
             state[id].status # "tombstone"
      PROVE  id \in WhatChangedSince(NumberOf(i))
  <2>1. FromLog(wal, n, id) # FromLog(wal, i, id) /\ FromLog(wal, n, id).status # "tombstone"
    BY <1>3, <1>5 DEF FromLog
  <2>2. 1..n \subseteq DOMAIN wal
    BY <1>1
  <2> HIDE DEF n
  <2>3. PICK j \in 1..n : j > i /\ wal[j].op = "upsert" /\ wal[j].id = id
    BY <1>1, <2>1, <2>2, ChangedLater
  <2>4. FromLog(wal, n, id) # NoRec
    BY <1>1, <2>1, <2>2, ChangedLater
  <2>5. wal[j].seq >= NumberOf(i)
    BY <1>1, <1>2, <2>3 DEF NumberOf
  <2> QED BY <1>1, <1>2, <1>3, <2>3, <2>4, <2>5 DEF WhatChangedSince, ReplayFrom
<1>7. ASSUME NEW i \in DOMAIN wal, wal[i].op = "upsert"
      PROVE  wal[i].id \in WhatChangedSince(NumberOf(i))
  <2>1. wal[i].id \in Ids /\ i \in Nat /\ i # 0
    <3>1. wal[i] \in Line
      BY <1>7 DEF NumberInv, TypeOK, DiskTypes
    <3> QED BY <1>1, <1>7, <3>1, LineFields
  <2>2. Upserts(wal, n, wal[i].id) # {} /\ 1..n \subseteq DOMAIN wal
    BY <1>1, <1>7 DEF Upserts
  <2> HIDE DEF n
  <2>3. FromLog(wal, n, wal[i].id) # NoRec
    BY <1>1, <2>1, <2>2, FromLogPresence
  <2> QED BY <1>2, <1>3, <1>7, <2>1, <2>3 DEF WhatChangedSince, ReplayFrom, NumberOf
<1>6. ASSUME NEW id1 \in WhatChangedSince(seq), NEW id2 \in WhatChangedSince(seq)
      PROVE  id1 = id2
  <2>1. PICK i \in DOMAIN wal : wal[i].seq >= seq /\ wal[i].id = id1
    BY DEF WhatChangedSince, ReplayFrom
  <2>2. PICK j \in DOMAIN wal : wal[j].seq >= seq /\ wal[j].id = id2
    BY DEF WhatChangedSince, ReplayFrom
  <2>3. wal[i].seq = wal[j].seq
    BY <1>2, <1>4, <2>1, <2>2 DEF Ahead, Within
  <2>4. i = j
    BY <1>1, <1>2, <2>3
  <2> QED BY <2>1, <2>2, <2>4
<1> QED BY <1>5, <1>6, <1>7

-----------------------------------------------------------------------------
(* The theorems.                                                           *)

\* The inductive invariant of the store, for as long as every opening has read
\* both files.
THEOREM StoreInvariant == Spec => []StoreInv
BY StoreInit, StoreStep, PTL DEF Spec

\* Sequence numbers strictly increase along events.wal whatever fails, short
\* of an opening that could not read a file and went on (store.py:520).
THEOREM SequenceNumbersIncrease == Spec => []SeqIncreasing
<1>1. StoreInv => SeqIncreasing
  BY DEF StoreInv, NumberInv, SeqIncreasing
<1> QED BY <1>1, StoreInvariant, PTL

\* Between calls an open store answers what a new process on its files would.
THEOREM MemoryIsWhatDiskGives == Spec => []MemoryMatchesDisk
<1>1. StoreInv => MemoryMatchesDisk
  <2> SUFFICES ASSUME StoreInv, Clean, Settled PROVE state = View
    BY DEF MemoryMatchesDisk, AnswersAreDurable
  <2>1. AllRead
    BY DEF Clean, AllRead
  <2> QED BY <2>1 DEF StoreInv, DataInv, HoldsView, Settled
<1> QED BY <1>1, StoreInvariant, PTL

\* chain_valid() holds of the file, short of a failed append, a line read as
\* two, a compaction cut short or a file that open could not read.
THEOREM ChainStaysValid == Spec => []ChainHolds
<1>1. StoreInv => ChainHolds
  <2> SUFFICES ASSUME StoreInv, Intact PROVE ChainValid
    BY DEF ChainHolds
  <2>1. AllRead
    BY DEF Intact, AllRead
  <2> QED BY <2>1 DEF StoreInv, ChainInv
<1> QED BY <1>1, StoreInvariant, PTL

\* As long as no write has raised, wal_seq() (store.py:293) of an open store is
\* the number of the last event on disk: no restart moves it.
THEOREM CounterIsLastNumber == Spec => []CounterMatchesLog
<1>1. StoreInv => CounterMatchesLog
  <2>1. Intact => AllRead
    BY DEF Intact, AllRead
  <2>2. StoreInv /\ AllRead => CounterMatchesLog
    BY CounterHolds DEF StoreInv
  <2> QED BY <2>1, <2>2 DEF CounterMatchesLog
<1> QED BY <1>1, StoreInvariant, PTL

\* events.wal alone gives the dictionary as long as it begins with the first
\* event: _load_snapshot may drop a corrupt snapshot.
THEOREM LogAloneIsEnough == Spec => []LogAloneSuffices
<1>1. StoreInv => LogAloneSuffices
  <2>1. Tidy => AllRead
    BY DEF Tidy, AllRead
  <2>2. StoreInv /\ AllRead => LogAloneSuffices
    BY AloneView DEF StoreInv
  <2> QED BY <2>1, <2>2 DEF LogAloneSuffices
<1> QED BY <1>1, StoreInvariant, PTL

\* A caller of what_changed_since that passes the number of an event an earlier
\* write returned misses no record that differs since, except a tombstone, and
\* one that passes the present number is told of the last write at most.
THEOREM ChangesAreNotMissed == Spec => []ChangesAreReported
<1>1. StoreInv => ChangesAreReported
  <2>1. Clean => AllRead
    BY DEF Clean, AllRead
  <2>2. StoreInv /\ AllRead => ChangesAreReported
    BY ReportHolds DEF StoreInv
  <2> QED BY <2>1, <2>2 DEF ChangesAreReported
<1> QED BY <1>1, StoreInvariant, PTL

\* compact never truncates an event that its snapshot does not hold, as long as
\* every opening has read the log, no line was torn and no snapshot rotted.
THEOREM TruncationLosesNothing == Spec => LogShrinksOnlyCovered
<1>1. StoreInv /\ [Next]_vars =>
        [struck' \cap {"torn_append", "rot_snapshot", "read_fails"} = {} => LogKept]_vars
  <2> SUFFICES ASSUME StoreInv, [Next]_vars,
                      struck' \cap {"torn_append", "rot_snapshot", "read_fails"} = {}
               PROVE  LogKept
    OBVIOUS
  <2>1. AllRead'
    BY DEF AllRead
  <2>2. AllRead /\ [Informed]_vars
    BY <2>1, InformedSteps
  <2>3. struck' \cap {"torn_append", "rot_snapshot"} = {}
    OBVIOUS
  <2> QED BY <2>2, <2>3, TruncateKeeps DEF StoreInv
<1> QED BY <1>1, StoreInvariant, PTL DEF Spec, LogShrinksOnlyCovered

LEMMA StepIsPromised ==
    StoreInv /\ StoreInv' /\ [Next]_vars => (Clean' => [Promise!ANext]_(Promise!avars))
<1> SUFFICES ASSUME StoreInv, StoreInv', [Next]_vars, Clean'
             PROVE  [Promise!ANext]_(Promise!avars)
  OBVIOUS
<1>1. AllRead'
  BY DEF Clean, AllRead
<1>2. AllRead /\ [Informed]_vars
  BY <1>1, InformedSteps
<1>3. NumberInv /\ NumberInv' /\ DataInv
  BY <1>1, <1>2 DEF StoreInv
<1> QED BY <1>2, <1>3, MapStep

\* Whatever faults are possible, each step of the store is one of the atomic
\* map, or invisible to it, until something has lost or hidden an event.
THEOREM StoreImplementsMap == Spec => ImplementsMap
<1>1. StoreInv /\ StoreInv' /\ [Next]_vars => [Clean' => [Promise!ANext]_(Promise!avars)]_vars
  BY StepIsPromised
<1>2. Init => Promise!AInit
  BY MapInit
<1> QED BY <1>1, <1>2, StoreInvariant, PTL DEF Spec, ImplementsMap

\* Where no such thing can happen the store implements the map outright.
COROLLARY LosslessStoreIsMap ==
    ASSUME Faults \cap {"torn_append", "rot_snapshot", "read_fails"} = {}, Splitting = {}
    PROVE  Spec => Promise!ASpec
<1>1. StoreInv /\ TypeOK => Clean
  <2> SUFFICES ASSUME StoreInv, TypeOK PROVE Clean
    OBVIOUS
  <2>1. struck \subseteq Faults \cup {"split_line"}
    BY DEF TypeOK, ControlTypes
  <2>2. AllRead
    BY <2>1 DEF AllRead
  <2>3. "split_line" \notin struck
    BY <2>2 DEF StoreInv, SplitInv
  <2> QED BY <2>1, <2>3 DEF Clean
<1>2. StoreInv /\ TypeOK => Clean
  BY <1>1
<1>3. Init => Promise!AInit
  BY MapInit
<1>4. StoreInv /\ StoreInv' /\ Clean' /\ [Next]_vars => [Promise!ANext]_(Promise!avars)
  BY StepIsPromised
<1> QED BY <1>2, <1>3, <1>4, StoreInvariant, TypeCorrect, PTL DEF Spec, Promise!ASpec

-----------------------------------------------------------------------------
(* An acknowledged upsert is there for the next process: AppendedIsReplayed *)
(* where it holds.                                                         *)

\* The event of the call is the last line, and no other number is as great.
EventIsLast == (Tidy /\ pc = "apply") =>
    /\ wal # <<>>
    /\ wal[Len(wal)].op = req.op /\ wal[Len(wal)].id = req.id /\ wal[Len(wal)].rec = req.rec
    /\ wal[Len(wal)].seq > After

LEMMA EventIsLastStep ==
    NumberInv /\ AloneInv /\ EventIsLast /\ [Informed]_vars => EventIsLast'
<1> SUFFICES ASSUME NumberInv, AloneInv, EventIsLast, [Informed]_vars, Tidy', pc' = "apply"
             PROVE  /\ wal' # <<>>
                    /\ wal'[Len(wal')].op = req'.op /\ wal'[Len(wal')].id = req'.id
                    /\ wal'[Len(wal')].rec = req'.rec
                    /\ wal'[Len(wal')].seq > After'
  BY DEF EventIsLast
<1>1. CASE AppendWal
  <2> DEFINE e == Event(seq + 1, req, lastHash)
  <2>1. Tidy /\ req.rec.content \notin Splitting
    BY <1>1 DEF AppendWal, Tidy
  <2>2. torn = FALSE
    BY <2>1 DEF AloneInv, Complete, ReadableLog
  <2>3. /\ e.seq = seq + 1 /\ e.op = req.op /\ e.id = req.id /\ e.rec = req.rec
    BY DEF Event
  <2>4. wal' = Append(wal, e) /\ snap' = snap /\ req' = req
    BY <1>1, <2>1, <2>2, <2>3 DEF AppendWal, AppendLine, AsRead
  <2>5. seq \in Nat /\ snap.seq \in Nat /\ wal \in Seq(Line)
    BY DEF NumberInv, TypeOK, DiskTypes, MemoryTypes, Snapshot
  <2>6. Ahead
    BY <1>1 DEF AppendWal, NumberInv, CountsAhead, WorkingIsOpen
  <2>7. seq + 1 > After'
    BY <2>4, <2>5, <2>6 DEF After, Ahead
  <2> HIDE DEF e
  <2>8. Len(wal') = Len(wal) + 1 /\ Len(wal) \in Nat /\ wal'[Len(wal')] = e
    BY <2>4, <2>5
  <2>9. wal' # <<>>
    BY <2>8
  <2> QED BY <2>3, <2>4, <2>7, <2>8, <2>9
<1>2. CASE RotSnapshot
  <2>1. UNCHANGED <<wal, pc, req>> /\ Tidy /\ pc = "apply" /\ After' = 0
    BY <1>2 DEF RotSnapshot, Tidy, After
  <2>2. wal \in Seq(Line) /\ wal # <<>> /\ wal[Len(wal)].op = req.op
    BY <2>1 DEF EventIsLast, NumberInv, TypeOK, DiskTypes
  <2>3. req.op # "garbage" /\ Len(wal) \in DOMAIN wal
    <3>1. req.op \in EventOps
      BY <2>1 DEF NumberInv, TypeOK, ControlTypes, EventOps
    <3> QED BY <2>2, <3>1 DEF EventOps
  <2>4. wal[Len(wal)].seq >= 1 /\ wal[Len(wal)].seq \in Nat
    BY <2>2, <2>3, LineFields DEF NumberInv, Positive
  <2> QED BY <2>1, <2>4 DEF EventIsLast
<1>3. CASE UNCHANGED vars
  BY <1>3 DEF vars, EventIsLast, Tidy, After
<1> QED BY <1>1, <1>2, <1>3 DEF Informed, Step, Failure, Write, Open, Close, Call, LoadSnapshot,
      SkipLine, ReplayLine, Opened, FirstStep, ApplyUpsert, ApplyDelete, UpsertSnapshot,
      CloseSnapshot, CompactSnapshot, Truncate, WriteSentinel, AppendFails, TornAppend,
      SnapshotFails, TruncateFails, SentinelFails, TornSentinel, Crash

TidyAppendsAreReplayed == Tidy => AppendedIsReplayed

\* docs/REQUIREMENTS.md promises that each line of events.wal can be parsed by
\* itself, and a text that splitlines() cuts breaks that (store.py:519).  As
\* long as no line was split or cut short, an upsert that got past its append
\* is in the dictionary of every later process, whatever else has failed:
\* other appends, snapshots, compactions, or a snapshot lost after it.
THEOREM TidyAppendsAreAlwaysReplayed == Spec => []TidyAppendsAreReplayed
<1>1. StoreInv /\ EventIsLast => TidyAppendsAreReplayed
  <2> SUFFICES ASSUME StoreInv, EventIsLast, Tidy, pc = "apply", req.op = "upsert"
               PROVE  View[req.id] = req.rec
    BY DEF TidyAppendsAreReplayed, AppendedIsReplayed
  <2>0. NumberInv
    BY DEF StoreInv, Tidy, AllRead
  <2>1. /\ wal # <<>> /\ wal[Len(wal)].op = "upsert" /\ wal[Len(wal)].id = req.id
        /\ wal[Len(wal)].rec = req.rec /\ wal[Len(wal)].seq > After
    BY DEF EventIsLast
  <2>2. wal \in Seq(Line) /\ After \in Nat
    BY <2>0 DEF NumberInv, TypeOK, DiskTypes, Snapshot, After
  <2> DEFINE n == Len(wal) - 1
  <2>3. n \in Nat /\ n + 1 = Len(wal) /\ Len(wal) \in DOMAIN wal
    BY <2>1, <2>2
  <2>4. req.id \in Ids
    BY <2>1, <2>2, <2>3, LineFields
  <2> HIDE DEF n
  <2>5. RecordAt(wal, Base, After, n + 1, req.id) = wal[n + 1].rec
    BY <2>1, <2>2, <2>3, RecordAtUpsert
  <2> QED BY <2>1, <2>3, <2>4, <2>5 DEF View, ViewAt
<1>2. Init => EventIsLast
  BY DEF Init, EventIsLast
<1>3. StoreInv /\ EventIsLast /\ [Next]_vars => EventIsLast'
  <2> SUFFICES ASSUME StoreInv, EventIsLast, [Next]_vars, Tidy' PROVE EventIsLast'
    BY DEF EventIsLast
  <2>1. AllRead'
    BY DEF Tidy, AllRead
  <2>2. AllRead /\ [Informed]_vars
    BY <2>1, InformedSteps
  <2> QED BY <2>2, EventIsLastStep DEF StoreInv
<1> QED BY <1>1, <1>2, <1>3, StoreInvariant, PTL DEF Spec

-----------------------------------------------------------------------------
(* The end of a call.                                                      *)

\* How many steps the call in progress may still take: one for each line that
\* is not replayed yet, and those of the write.
StepsLeft ==
    IF pc = "load" THEN Len(wal) + 5
    ELSE IF pc = "replay" THEN Len(wal) - cursor + 4
    ELSE IF pc \in {"append", "compact"} THEN 3
    ELSE IF pc \in {"apply", "truncate"} THEN 2
    ELSE IF pc \in {"snapshot", "close", "sentinel"} THEN 1
    ELSE 0

\* Whatever happens while a call is in progress brings its end nearer, except
\* that snapshot.json may become unreadable meanwhile, which delays nothing.
CallAdvances ==
    pc # "idle" =>
        /\ StepsLeft' \in Nat
        /\ StepsLeft' < StepsLeft \/ (RotSnapshot /\ StepsLeft' = StepsLeft)
        /\ StepsLeft' = 0 <=> pc' = "idle"

CallsAdvance == [][CallAdvances]_vars

\* Every call of the store (store.py) takes at most five steps more than
\* events.wal has lines, replay included, whatever fails during it.
THEOREM CallsEnd == Spec => CallsAdvance
<1>1. TypeOK /\ TypeOK' /\ [Next]_vars => [CallAdvances]_vars
  <2> SUFFICES ASSUME TypeOK, TypeOK', Next, pc # "idle" PROVE CallAdvances
    BY DEF CallAdvances
  <2>0. /\ Len(wal) \in Nat /\ Len(wal') \in Nat
        /\ cursor \in Nat /\ cursor <= IF pc = "replay" THEN Len(wal) ELSE 0
        /\ cursor' \in Nat /\ cursor' <= IF pc' = "replay" THEN Len(wal') ELSE 0
        /\ pc' \in {"idle", "load", "replay", "append", "apply", "snapshot", "close",
                    "compact", "truncate", "sentinel"}
    BY DEF TypeOK, DiskTypes, ControlTypes
  <2>1. StepsLeft' \in Nat /\ (StepsLeft' = 0 <=> pc' = "idle")
    BY <2>0 DEF StepsLeft
  <2>2. CASE RotSnapshot
    <3>1. wal' = wal /\ pc' = pc /\ cursor' = cursor
      BY <2>2 DEF RotSnapshot
    <3>2. StepsLeft' = StepsLeft
      BY <3>1 DEF StepsLeft
    <3> QED BY <2>1, <2>2, <3>2 DEF CallAdvances
  <2>3. CASE Crash \/ Failure
    <3>1. pc' = "idle"
      BY <2>3 DEF Crash, Failure, AppendFails, TornAppend, SnapshotFails, TruncateFails,
                  SentinelFails, TornSentinel
    <3>2. StepsLeft > 0
      BY <2>0 DEF StepsLeft, TypeOK, ControlTypes
    <3> QED BY <2>1, <3>1, <3>2 DEF CallAdvances
  <2>4. CASE LoadSnapshot
    <3>1. pc = "load" /\ pc' = "replay" /\ cursor' = 0 /\ wal' = wal
      BY <2>4 DEF LoadSnapshot
    <3>2. StepsLeft' < StepsLeft
      BY <2>0, <3>1 DEF StepsLeft
    <3> QED BY <2>1, <3>2 DEF CallAdvances
  <2>5. CASE SkipLine \/ ReplayLine
    <3>1. pc = "replay" /\ pc' = "replay" /\ cursor' = cursor + 1 /\ wal' = wal
      BY <2>5 DEF SkipLine, ReplayLine
    <3>2. StepsLeft' < StepsLeft
      BY <2>0, <3>1 DEF StepsLeft
    <3> QED BY <2>1, <3>2 DEF CallAdvances
  <2>6. CASE Opened
    <3>1. pc = "replay" /\ cursor = Len(wal) /\ pc' \in {"append", "compact", "idle"}
      BY <2>6 DEF Opened, FirstStep
    <3>2. StepsLeft = 4 /\ StepsLeft' <= 3
      BY <2>0, <3>1 DEF StepsLeft
    <3> QED BY <2>1, <3>2 DEF CallAdvances
  <2>7. CASE AppendWal \/ ApplyUpsert \/ ApplyDelete \/ UpsertSnapshot \/ CloseSnapshot
             \/ CompactSnapshot \/ Truncate \/ WriteSentinel
    <3>1. \/ pc = "append" /\ pc' = "apply"
          \/ pc = "apply" /\ pc' \in {"snapshot", "idle"}
          \/ pc \in {"snapshot", "close", "sentinel"} /\ pc' = "idle"
          \/ pc = "compact" /\ pc' = "truncate"
          \/ pc = "truncate" /\ pc' = "sentinel"
      BY <2>7 DEF AppendWal, ApplyUpsert, ApplyDelete, UpsertSnapshot, CloseSnapshot,
                  CompactSnapshot, Truncate, WriteSentinel
    <3>2. StepsLeft' < StepsLeft
      BY <3>1 DEF StepsLeft
    <3> QED BY <2>1, <3>2 DEF CallAdvances
  <2>8. CASE ReadFails
    <3>1. \/ pc = "load" /\ pc' = "replay" /\ cursor' = 0 /\ wal' = wal
          \/ pc = "replay" /\ cursor = 0 /\ pc' \in {"append", "compact", "idle"} /\ cursor' = 0
      BY <2>8 DEF ReadFails, SnapshotUnread, LogUnread, FirstStep
    <3>2. StepsLeft' < StepsLeft
      BY <2>0, <3>1 DEF StepsLeft
    <3> QED BY <2>1, <3>2 DEF CallAdvances
  <2> QED BY <2>2, <2>3, <2>4, <2>5, <2>6, <2>7, <2>8 DEF Next, Informed, Step, Write, Open, Close, Call
<1>2. Spec => []TypeOK
  BY TypeCorrect
<1> QED BY <1>1, <1>2, PTL DEF Spec, CallsAdvance
====
