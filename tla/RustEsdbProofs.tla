---- MODULE RustEsdbProofs ----
(***************************************************************************)
(* Proofs about RustEsdb, for every set of ids, kinds and edge types, all  *)
(* failures of appends and every number of operations.                     *)
(***************************************************************************)
EXTENDS RustEsdb, TLAPS

-----------------------------------------------------------------------------
(* Type correctness.                                                       *)

LEMMA CellTypes ==
    /\ Absent \in Cell
    /\ \A r \in Record : r # Absent /\ AsRead(r) \in Record /\ AsRead(r).kind = r.kind
    /\ \A r \in Cell : Invalidated(r) \in Cell /\ (r \in Record => Invalidated(r) \in Record)
<1>1. Absent \in Cell /\ \A r \in Record : r # Absent
  BY DEF Cell, Record, Absent
<1>2. ASSUME NEW r \in Record PROVE AsRead(r) \in Record /\ AsRead(r).kind = r.kind
  BY <1>1, RecordAssumption DEF AsRead, Record
<1>3. ASSUME NEW r \in Record PROVE Invalidated(r) \in Record
  BY <1>3 DEF Invalidated, Record, Absent
<1>4. Invalidated(Absent) = Absent
  BY DEF Invalidated
<1> QED BY <1>1, <1>2, <1>3, <1>4 DEF Cell

LEMMA LineFields ==
    ASSUME NEW e \in Line
    PROVE  /\ e.seq \in Nat
           /\ e.op \in {"upsert", "add_edge", "rollback", "invalidate", "garbage"}
           /\ e.op # "garbage" => /\ e.id \in Ids /\ e.rec \in Cell /\ e.edge \in SUBSET Edge
                                  /\ e.prev \in Seq(Payload)
           /\ e.op = "upsert" => e.rec \in Record
BY CellTypes DEF Line, Garbage, NotUtf8, Genesis, Cell

LEMMA GarbageLine ==
    \A part \in {Garbage, NotUtf8} : part \in Line /\ part.op = "garbage"
BY DEF Line, Garbage, NotUtf8

LEMMA HashType ==
    ASSUME NEW e \in Line, e.op # "garbage"
    PROVE  Hash(e) \in Seq(Payload)
<1>1. [seq |-> e.seq, op |-> e.op, id |-> e.id, rec |-> e.rec, edge |-> e.edge] \in Payload
  BY LineFields DEF Payload
<1> QED BY <1>1, LineFields DEF Hash

\* The entries that the calls append.
LEMMA EntryFields ==
    ASSUME NEW op, NEW id, NEW rec, NEW edge
    PROVE  /\ Entry(op, id, rec, edge).seq = seq + 1
           /\ Entry(op, id, rec, edge).prev = prevHash
           /\ Entry(op, id, rec, edge).op = op
           /\ Entry(op, id, rec, edge).id = id
           /\ Entry(op, id, rec, edge).rec = rec
           /\ Entry(op, id, rec, edge).edge = edge
BY DEF Entry

LEMMA UpsertEntry ==
    ASSUME seq \in Nat, prevHash \in Seq(Payload), NEW id \in Ids, NEW rec \in Record
    PROVE  Entry("upsert", id, rec, {}) \in Line
BY DEF Entry, Line

LEMMA EdgeEntry ==
    ASSUME seq \in Nat, prevHash \in Seq(Payload), NEW x \in Edge
    PROVE  /\ Entry("add_edge", x.from, Absent, {x}) \in Line
           /\ Entry("add_edge", x.from, Absent, {x}).op = "add_edge"
           /\ Entry("add_edge", x.from, Absent, {x}).seq = seq + 1
           /\ Entry("add_edge", x.from, Absent, {x}).prev = prevHash
<1>1. x.from \in Ids /\ {x} \in SUBSET Edge
  BY DEF Edge
<1>2. Entry("add_edge", x.from, Absent, {x}) \in Line
  BY <1>1 DEF Entry, Line
<1> QED BY <1>2 DEF Entry

LEMMA RollbackEntries ==
    ASSUME seq \in Nat, prevHash \in Seq(Payload), NEW id \in Ids
    PROVE  /\ Entry("rollback", id, Absent, {}) \in Line
           /\ Entry("invalidate", id, Absent, {}) \in Line
BY DEF Entry, Line

FileTypes ==
    /\ wal \in Seq(Line) /\ torn \in BOOLEAN /\ (torn => Len(wal) > 0)
    /\ seq \in Nat /\ prevHash \in Seq(Payload)

\* What AppendLine leaves of the old lines, and what it adds.
LEMMA AppendedLines ==
    ASSUME wal \in Seq(Line), torn => Len(wal) > 0, NEW line \in Line
    PROVE  /\ AppendLine(line) \in Seq(Line)
           /\ Len(AppendLine(line)) > 0
           /\ Len(AppendLine(line)) >= Len(wal)
           /\ torn => /\ Len(AppendLine(line)) = Len(wal)
                      /\ AppendLine(line)[Len(wal)] \in {Garbage, NotUtf8}
           /\ ~torn => /\ Len(AppendLine(line)) = Len(wal) + 1
                       /\ AppendLine(line)[Len(wal) + 1] = line
           /\ \A i \in 1..Len(wal) : (torn => i # Len(wal)) => AppendLine(line)[i] = wal[i]
<1>1. CASE torn
  BY <1>1, GarbageLine DEF AppendLine, Joined
<1>2. CASE ~torn
  BY <1>2 DEF AppendLine
<1> QED BY <1>1, <1>2

\* The lines that a call may append.
NewLines == {e \in Line : /\ e.op # "garbage" /\ e.seq = seq + 1 /\ e.prev = prevHash
                          /\ e.op # "add_edge" => e.edge = {}}

\* An append, successful or not, keeps the types of file and writer.
LEMMA AppendTypes ==
    ASSUME FileTypes, struck \subseteq Faults,
           NEW e \in NewLines
    PROVE  /\ AppendOk(e) => FileTypes' /\ Len(wal') >= Len(wal)
           /\ AppendErr(e) => FileTypes' /\ Len(wal') >= Len(wal) /\ struck' \subseteq Faults
<1>1. e \in Line /\ e.seq \in Nat /\ Hash(e) \in Seq(Payload)
  BY HashType, LineFields DEF NewLines
<1>2. \A line \in Line : /\ AppendLine(line) \in Seq(Line)
                         /\ Len(AppendLine(line)) > 0 /\ Len(AppendLine(line)) >= Len(wal)
  BY AppendedLines DEF FileTypes
<1>3. ASSUME AppendOk(e) PROVE FileTypes' /\ Len(wal') >= Len(wal)
  BY <1>1, <1>2, <1>3 DEF AppendOk, FileTypes
<1>4. ASSUME AppendErr(e) PROVE FileTypes' /\ Len(wal') >= Len(wal) /\ struck' \subseteq Faults
  <2>1. CASE UNCHANGED file /\ struck' = struck \cup {"append_fails"} /\ "append_fails" \in Faults
    BY <1>1, <1>4, <2>1 DEF AppendErr, FileTypes, file
  <2>2. CASE /\ \E part \in {Garbage, NotUtf8, e} : wal' = AppendLine(part)
             /\ torn' = TRUE
             /\ struck' = struck \cup {"torn_append"} /\ "torn_append" \in Faults
    <3>1. PICK part \in Line : wal' = AppendLine(part)
      BY <1>1, <2>2, GarbageLine
    <3>2. wal' \in Seq(Line) /\ Len(wal') > 0 /\ Len(wal') >= Len(wal)
      BY <3>1, <1>2
    <3> QED BY <1>1, <1>4, <2>2, <3>2 DEF AppendErr, FileTypes
  <2> QED BY <1>4, <2>1, <2>2 DEF AppendErr
<1> QED BY <1>3, <1>4

LEMMA UpsertTypes ==
    ASSUME records \in [Ids -> Cell], byKind \in [Kinds -> Seq(Ids)],
           NEW id \in Ids, NEW rec \in Record, Upsert(id, rec)
    PROVE  records' \in [Ids -> Cell] /\ byKind' \in [Kinds -> Seq(Ids)]
BY DEF Upsert, Cell, Record

LEMMA CommittableType ==
    ASSUME records \in [Ids -> Cell], NEW id \in Ids
    PROVE  Committable(id) \subseteq Record
BY RecordAssumption DEF Committable, Cell

LEMMA EntriesAreNew ==
    ASSUME FileTypes, records \in [Ids -> Cell]
    PROVE  /\ \A id \in Ids : \A rec \in Committable(id) : Entry("upsert", id, rec, {}) \in NewLines
           /\ \A x \in Edge : Entry("add_edge", x.from, Absent, {x}) \in NewLines
           /\ \A id \in Ids : /\ Entry("rollback", id, Absent, {}) \in NewLines
                              /\ Entry("invalidate", id, Absent, {}) \in NewLines
<1>1. ASSUME NEW id \in Ids, NEW rec \in Committable(id)
      PROVE  Entry("upsert", id, rec, {}) \in NewLines
  BY CommittableType, UpsertEntry, EntryFields DEF NewLines, FileTypes
<1>2. ASSUME NEW x \in Edge PROVE Entry("add_edge", x.from, Absent, {x}) \in NewLines
  BY EdgeEntry DEF NewLines, FileTypes
<1>3. ASSUME NEW id \in Ids
      PROVE  /\ Entry("rollback", id, Absent, {}) \in NewLines
             /\ Entry("invalidate", id, Absent, {}) \in NewLines
  BY RollbackEntries, EntryFields DEF NewLines, FileTypes
<1> QED BY <1>1, <1>2, <1>3

LEMMA Appends ==
    ASSUME ETypeOK
    PROVE  /\ Commit \/ AddEdge \/ LogRollback \/ LogInvalidate =>
                InUse /\ InUse' /\ struck' = struck /\ \E e \in NewLines : AppendOk(e)
           /\ CallFails \/ RollbackFails => InUse /\ InUse' /\ \E e \in NewLines : AppendErr(e)
<1>1. FileTypes /\ records \in [Ids -> Cell] /\ root \in Ids /\ NextToLog \subseteq Ids
  BY DEF ETypeOK, FileTypes, NextToLog
<1>2. ASSUME Commit PROVE InUse /\ InUse' /\ struck' = struck /\ \E e \in NewLines : AppendOk(e)
  <2>1. InUse /\ InUse' /\ struck' = struck
    BY <1>2 DEF Commit, Begin, InUse
  <2>2. \E e \in NewLines : AppendOk(e)
    BY <1>1, <1>2, EntriesAreNew DEF Commit
  <2> QED BY <2>1, <2>2
<1>3. ASSUME AddEdge PROVE InUse /\ InUse' /\ struck' = struck /\ \E e \in NewLines : AppendOk(e)
  <2>1. InUse /\ InUse' /\ struck' = struck
    BY <1>3 DEF AddEdge, Begin, InUse
  <2>2. \E e \in NewLines : AppendOk(e)
    BY <1>1, <1>3, EntriesAreNew DEF AddEdge
  <2> QED BY <2>1, <2>2
<1>4. ASSUME LogRollback PROVE InUse /\ InUse' /\ struck' = struck /\ \E e \in NewLines : AppendOk(e)
  <2>1. InUse /\ InUse' /\ struck' = struck
    BY <1>4 DEF LogRollback, InUse
  <2>2. \E e \in NewLines : AppendOk(e)
    BY <1>1, <1>4, EntriesAreNew DEF LogRollback
  <2> QED BY <2>1, <2>2
<1>5. ASSUME LogInvalidate PROVE InUse /\ InUse' /\ struck' = struck /\ \E e \in NewLines : AppendOk(e)
  <2>1. InUse /\ InUse' /\ struck' = struck
    BY <1>5 DEF LogInvalidate, InUse
  <2>2. \E e \in NewLines : AppendOk(e)
    BY <1>1, <1>5, EntriesAreNew DEF LogInvalidate
  <2> QED BY <2>1, <2>2
<1>6. ASSUME CallFails PROVE InUse /\ InUse' /\ \E e \in NewLines : AppendErr(e)
  <2>1. InUse /\ InUse'
    BY <1>6 DEF CallFails, Begin, InUse
  <2>2. \E e \in NewLines : AppendErr(e)
    BY <1>1, <1>6, EntriesAreNew DEF CallFails
  <2> QED BY <2>1, <2>2
<1>7. ASSUME RollbackFails PROVE InUse /\ InUse' /\ \E e \in NewLines : AppendErr(e)
  <2>1. InUse /\ InUse'
    BY <1>7 DEF RollbackFails, InUse
  <2>2. \E e \in NewLines : AppendErr(e)
    BY <1>1, <1>7, EntriesAreNew DEF RollbackFails
  <2> QED BY <2>1, <2>2
<1> QED BY <1>2, <1>3, <1>4, <1>5, <1>6, <1>7

LEMMA TypesInit == EInit => ETypeOK
<1> SUFFICES ASSUME EInit PROVE ETypeOK
  OBVIOUS
<1>1. records \in [Ids -> Cell] /\ byKind \in [Kinds -> Seq(Ids)]
  BY CellTypes DEF EInit, NoRecords, NoIndex
<1>2. wal \in Seq(Line) /\ Len(wal) = 0 /\ prevHash \in Seq(Payload)
  BY DEF EInit, Genesis
<1>3. torn \in BOOLEAN /\ (torn => Len(wal) > 0)
  BY DEF EInit
<1>4. /\ cursor \in Nat /\ cursor <= Len(wal) /\ ops \in 0..MaxOps
      /\ struck \subseteq Faults /\ todo \subseteq Ids /\ unlogged \subseteq Ids /\ decayed \subseteq Ids
  BY <1>2, EsdbAssumption DEF EInit
<1>5. /\ seq \in Nat /\ edges \subseteq Edge /\ root \in Ids
      /\ pc \in {"down", "replay", "idle", "rollback", "invalidate"}
  BY DEF EInit
<1> QED BY <1>1, <1>2, <1>3, <1>4, <1>5 DEF ETypeOK

LEMMA TypesStep == ETypeOK /\ [ENext]_evars => ETypeOK'
<1> SUFFICES ASSUME ETypeOK, [ENext]_evars PROVE ETypeOK'
  OBVIOUS
<1> USE DEF ETypeOK
<1>0. FileTypes /\ struck \subseteq Faults /\ MaxOps \in Nat
  BY EsdbAssumption DEF FileTypes
<1>a. Commit \/ AddEdge \/ CallFails \/ LogRollback \/ LogInvalidate \/ RollbackFails =>
        /\ wal' \in Seq(Line) /\ torn' \in BOOLEAN /\ (torn' => Len(wal') > 0)
        /\ seq' \in Nat /\ prevHash' \in Seq(Payload)
        /\ cursor <= Len(wal') /\ struck' \subseteq Faults
  <2>1. ASSUME NEW e \in NewLines, AppendOk(e), struck' = struck
        PROVE  FileTypes' /\ Len(wal') >= Len(wal) /\ struck' \subseteq Faults
    BY <1>0, <2>1, AppendTypes
  <2>2. ASSUME NEW e \in NewLines, AppendErr(e)
        PROVE  FileTypes' /\ Len(wal') >= Len(wal) /\ struck' \subseteq Faults
    BY <1>0, <2>2, AppendTypes
  <2>3. Commit \/ AddEdge \/ CallFails \/ LogRollback \/ LogInvalidate \/ RollbackFails =>
          FileTypes' /\ Len(wal') >= Len(wal) /\ struck' \subseteq Faults
    BY <2>1, <2>2, Appends
  <2> QED BY <1>0, <2>3 DEF FileTypes
<1>1. CASE Open
  <2>1. records' \in [Ids -> Cell] /\ byKind' \in [Kinds -> Seq(Ids)]
    BY <1>1, CellTypes DEF Open, NoRecords, NoIndex
  <2> QED BY <1>1, <2>1 DEF Open, file, Genesis
<1>2. CASE ReplayEntry
  <2> DEFINE e == wal[cursor + 1]
  <2>1. e \in Line
    BY <1>2 DEF ReplayEntry
  <2>2. records' \in [Ids -> Cell] /\ byKind' \in [Kinds -> Seq(Ids)] /\ edges' \subseteq Edge
    <3>1. CASE e.op = "upsert" /\ Upsert(e.id, AsRead(e.rec)) /\ UNCHANGED edges
      BY <2>1, <3>1, LineFields, CellTypes, UpsertTypes
    <3>2. CASE /\ e.op = "invalidate" /\ UNCHANGED <<byKind, edges>>
               /\ records' = [records EXCEPT ![e.id] = Invalidated(records[e.id])]
      BY <2>1, <3>2, LineFields, CellTypes
    <3>3. CASE e.op = "add_edge" /\ edges' = edges \cup e.edge /\ UNCHANGED <<records, byKind>>
      BY <2>1, <3>3, LineFields
    <3>4. CASE UNCHANGED memory
      BY <3>4 DEF memory
    <3> HIDE DEF e
    <3> QED BY <1>2, <3>1, <3>2, <3>3, <3>4 DEF ReplayEntry, Replay, Accepted, e
  <2>3. seq' \in Nat /\ prevHash' \in Seq(Payload)
    BY <1>2, <2>1, LineFields, HashType DEF ReplayEntry, Position, writer
  <2> QED BY <1>2, <2>2, <2>3 DEF ReplayEntry, file
<1>3. CASE Opened \/ OpenFails
  BY <1>3 DEF Opened, OpenFails, file, writer, memory
<1>4. CASE Crash
  BY <1>4 DEF Crash, file, writer, memory
<1>5. CASE Commit
  <2>1. PICK id \in Ids, rec \in Record :
          Upsert(id, rec) /\ unlogged' = unlogged \ {id} /\ decayed' = decayed \ {id}
    BY <1>5, CommittableType DEF Commit
  <2>2. records' \in [Ids -> Cell] /\ byKind' \in [Kinds -> Seq(Ids)]
    BY <2>1, UpsertTypes
  <2> QED BY <1>0, <1>5, <1>a, <2>1, <2>2 DEF Commit, Begin
<1>6. CASE AddEdge
  <2>1. ops' \in 0..MaxOps /\ edges' \subseteq Edge
    BY <1>0, <1>6 DEF AddEdge, Begin
  <2>2. UNCHANGED <<records, byKind, pc, cursor, root, todo, unlogged, decayed, struck>>
    BY <1>6 DEF AddEdge
  <2> QED BY <1>6, <1>a, <2>1, <2>2
<1>7. CASE CallFails
  <2>1. ops' \in 0..MaxOps /\ UNCHANGED <<records, byKind, edges, pc, cursor, root, todo, unlogged, decayed>>
    BY <1>0, <1>7 DEF CallFails, Begin, memory
  <2> QED BY <1>7, <1>a, <2>1
<1>8. CASE Rollback
  <2>1. records' \in [Ids -> Cell]
    <3>1. \A id \in Ids : records[id] # Absent => records[id] \in Record
      BY DEF Cell
    <3> QED BY <1>8, <3>1, CellTypes, RecordAssumption DEF Rollback, Cell, Record
  <2>2. /\ root' \in Ids /\ todo' \subseteq Ids
        /\ unlogged' \subseteq Ids /\ decayed' \subseteq Ids
    BY <1>8 DEF Rollback, TransitiveDependents
  <2> QED BY <1>0, <1>8, <2>1, <2>2 DEF Rollback, Begin, file, writer
<1>9. CASE LogRollback
  BY <1>9, <1>a DEF LogRollback, memory
<1>10. CASE LogInvalidate
  BY <1>10, <1>a DEF LogInvalidate, memory
<1>11. CASE RollbackFails
  BY <1>11, <1>a DEF RollbackFails, memory
<1>12. CASE PyDelete
  <2>1. PICK id \in Ids : /\ records' = [records EXCEPT ![id] = Invalidated(records[id])]
                          /\ unlogged' = unlogged \cup {x \in {id} : records[x].status = "Active"}
    BY <1>12 DEF PyDelete
  <2>2. records' \in [Ids -> Cell] /\ unlogged' \subseteq Ids
    BY <2>1, CellTypes
  <2> QED BY <1>0, <1>12, <2>2 DEF PyDelete, Begin, file, writer
<1>13. CASE UNCHANGED evars
  BY <1>13 DEF evars
<1> QED BY <1>1, <1>2, <1>3, <1>4, <1>5, <1>6, <1>7, <1>8, <1>9, <1>10, <1>11, <1>12, <1>13 DEF ENext

\* Every variable keeps its type, whatever appends fail.
THEOREM EsdbTypeCorrect == ESpec => []ETypeOK
BY TypesInit, TypesStep, PTL DEF ESpec

-----------------------------------------------------------------------------
(* Numbers.  A handle in use has a number that no line exceeds; one that   *)
(* is opening has the number of what it has read.                          *)

NumberBound ==
    /\ InUse => \A i \in Parsed : wal[i].seq <= seq
    /\ pc = "replay" => \A i \in Parsed : i <= cursor => wal[i].seq <= seq

NumberInv == NumbersIncrease /\ NumberBound

LEMMA AppendNumbers ==
    ASSUME FileTypes, NumbersIncrease, \A i \in Parsed : wal[i].seq <= seq,
           NEW e \in NewLines, AppendOk(e) \/ AppendErr(e)
    PROVE  NumbersIncrease' /\ (\A i \in Parsed : wal[i].seq <= seq)'
<1>1. seq' = seq + 1 /\ seq \in Nat /\ e \in Line /\ e.seq = seq + 1
  BY DEF AppendOk, AppendErr, FileTypes, NewLines
<1>2. \A i \in DOMAIN wal : wal[i].seq \in Nat
  BY LineFields DEF FileTypes
<1>3. CASE UNCHANGED file
  BY <1>1, <1>2, <1>3 DEF NumbersIncrease, Parsed, file
<1>4. CASE \E part \in {Garbage, NotUtf8, e} : wal' = AppendLine(part)
  <2>1. PICK part \in {Garbage, NotUtf8, e} : wal' = AppendLine(part)
    BY <1>4
  <2>2. /\ part \in Line /\ (part.op # "garbage" => part.seq = seq + 1)
    BY <1>1, GarbageLine, <2>1
  <2>3. /\ wal' \in Seq(Line)
        /\ torn => Len(wal') = Len(wal) /\ wal'[Len(wal)] \in {Garbage, NotUtf8}
        /\ ~torn => Len(wal') = Len(wal) + 1 /\ wal'[Len(wal) + 1] = part
        /\ \A i \in 1..Len(wal) : (torn => i # Len(wal)) => wal'[i] = wal[i]
    BY <2>1, <2>2, AppendedLines DEF FileTypes
  <2>4. ASSUME NEW i \in Parsed'
        PROVE  \/ i \in Parsed /\ wal'[i] = wal[i] /\ i <= Len(wal)
               \/ i = Len(wal) + 1 /\ wal'[i].seq = seq + 1
    BY <2>2, <2>3, <2>4, GarbageLine DEF Parsed, FileTypes
  <2>5. ASSUME NEW i \in Parsed', NEW j \in Parsed', i < j
        PROVE  wal'[i].seq < wal'[j].seq
    <3>1. i \in Nat /\ j \in Nat /\ i <= Len(wal) /\ i \in Parsed /\ wal'[i] = wal[i]
      BY <2>3, <2>4, <2>5 DEF Parsed, FileTypes
    <3>2. CASE j \in Parsed /\ wal'[j] = wal[j]
      BY <2>5, <3>1, <3>2 DEF NumbersIncrease
    <3>3. CASE wal'[j].seq = seq + 1
      BY <1>1, <1>2, <3>1, <3>3 DEF Parsed
    <3> QED BY <2>4, <3>2, <3>3
  <2>6. ASSUME NEW i \in Parsed' PROVE wal'[i].seq <= seq + 1
    BY <1>1, <1>2, <2>4 DEF Parsed
  <2> QED BY <1>1, <2>5, <2>6 DEF NumbersIncrease
<1> QED BY <1>3, <1>4 DEF AppendOk, AppendErr

LEMMA NumbersInit == EInit => NumberInv
BY DEF EInit, NumberInv, NumberBound, NumbersIncrease, Parsed, InUse

LEMMA NumbersStep == ETypeOK /\ NumberInv /\ [ENext]_evars => NumberInv'
<1> SUFFICES ASSUME ETypeOK, NumberInv, [ENext]_evars PROVE NumberInv'
  OBVIOUS
<1>0. /\ FileTypes /\ records \in [Ids -> Cell]
      /\ NumbersIncrease /\ \A i \in DOMAIN wal : wal[i] \in Line
  BY DEF ETypeOK, FileTypes, NumberInv
<1>a. Commit \/ AddEdge \/ CallFails \/ LogRollback \/ LogInvalidate \/ RollbackFails => NumberInv'
  <2>1. ASSUME InUse, NEW e \in NewLines, AppendOk(e) \/ AppendErr(e)
        PROVE  NumbersIncrease' /\ (\A i \in Parsed : wal[i].seq <= seq)'
    BY <1>0, <2>1, AppendNumbers DEF NumberInv, NumberBound
  <2>2. Commit \/ AddEdge \/ CallFails \/ LogRollback \/ LogInvalidate \/ RollbackFails =>
          NumbersIncrease' /\ (\A i \in Parsed : wal[i].seq <= seq)' /\ InUse'
    BY <2>1, Appends
  <2> QED BY <2>2 DEF NumberInv, NumberBound, InUse
<1>1. CASE Open
  BY <1>0, <1>1 DEF Open, file, NumberInv, NumberBound, NumbersIncrease, Parsed, InUse, ETypeOK
<1>2. CASE ReplayEntry
  <2>1. /\ wal' = wal /\ pc' = "replay" /\ cursor' = cursor + 1 /\ cursor \in Nat
        /\ NumbersIncrease' /\ Parsed' = Parsed
    BY <1>0, <1>2 DEF ReplayEntry, file, NumbersIncrease, Parsed, ETypeOK
  <2>2. CASE wal[cursor + 1].op = "garbage" /\ seq' = seq
    <3>1. \A i \in Parsed : i <= cursor + 1 => i <= cursor
      BY <1>0, <2>1, <2>2 DEF Parsed, FileTypes
    <3> QED BY <1>2, <2>1, <2>2, <3>1 DEF NumberInv, NumberBound, InUse, ReplayEntry
  <2>3. CASE wal[cursor + 1].op # "garbage" /\ seq' = wal[cursor + 1].seq
    <3>1. cursor + 1 \in Parsed
      BY <1>2, <2>1, <2>3 DEF ReplayEntry, Parsed, ETypeOK
    <3>2. ASSUME NEW i \in Parsed, i <= cursor + 1 PROVE wal[i].seq <= wal[cursor + 1].seq
      <4>1. i \in Nat /\ wal[i].seq \in Nat /\ wal[cursor + 1].seq \in Nat
        BY <1>0, <3>1, LineFields DEF Parsed, FileTypes
      <4>2. i = cursor + 1 \/ i < cursor + 1
        BY <2>1, <3>2, <4>1
      <4>3. i < cursor + 1 => wal[i].seq < wal[cursor + 1].seq
        BY <1>0, <3>1 DEF NumbersIncrease
      <4> QED BY <4>1, <4>2, <4>3
    <3> QED BY <2>1, <2>3, <3>2 DEF NumberInv, NumberBound, InUse
  <2> QED BY <1>2, <2>2, <2>3 DEF ReplayEntry, Position, writer
<1>3. CASE Opened \/ OpenFails
  BY <1>3 DEF Opened, OpenFails, file, writer, NumberInv, NumberBound, NumbersIncrease, Parsed, InUse, ETypeOK
<1>4. CASE Crash
  BY <1>4 DEF Crash, file, writer, NumberInv, NumberBound, NumbersIncrease, Parsed, InUse
<1>5. CASE Rollback
  BY <1>5 DEF Rollback, Begin, file, writer, NumberInv, NumberBound, NumbersIncrease, Parsed, InUse
<1>6. CASE PyDelete
  BY <1>6 DEF PyDelete, Begin, file, writer, NumberInv, NumberBound, NumbersIncrease, Parsed, InUse
<1>7. CASE UNCHANGED evars
  BY <1>7 DEF evars, NumberInv, NumberBound, NumbersIncrease, Parsed, InUse
<1> QED BY <1>a, <1>1, <1>2, <1>3, <1>4, <1>5, <1>6, <1>7 DEF ENext

\* No number appears twice in the log, and later lines have higher ones,
\* through failed and torn appends and every reopening.
THEOREM EsdbNumbersIncrease == ESpec => []NumbersIncrease
<1>1. ETypeOK /\ NumberInv /\ [ENext]_evars => (ETypeOK /\ NumberInv)'
  BY TypesStep, NumbersStep
<1>2. NumberInv => NumbersIncrease
  BY DEF NumberInv
<1> QED BY <1>1, <1>2, TypesInit, NumbersInit, PTL DEF ESpec

-----------------------------------------------------------------------------
(* The chain.  Without torn lines every line is an entry, linked to the one *)
(* before it, and the hash in memory is that of the last line read or      *)
(* written, although the number may be past it.                            *)

HashOf(n) == IF n = 0 THEN Genesis ELSE Hash(wal[n])

Linked == \A i \in DOMAIN wal : wal[i].op # "garbage" /\ wal[i].prev = HashOf(i - 1)

ChainInv ==
    "torn_append" \notin struck =>
        /\ torn = FALSE
        /\ Linked
        /\ InUse => prevHash = HashOf(Len(wal))
        /\ pc = "replay" => prevHash = HashOf(cursor)

LEMMA LastIs ==
    ASSUME NEW S, NEW m \in S, S \subseteq Nat, \A j \in S : j <= m
    PROVE  Last(S) = m
<1>1. Last(S) \in S /\ \A j \in S : j <= Last(S)
  <2>1. \E i \in S : \A j \in S : j <= i
    OBVIOUS
  <2> QED BY <2>1 DEF Last
<1>2. Last(S) \in Nat /\ m \in Nat /\ m <= Last(S) /\ Last(S) <= m
  BY <1>1
<1> QED BY <1>2

\* The links of the chain, without the hash of the parsed entries.
LinksHold ==
    \A i \in Parsed :
        LET earlier == {j \in Parsed : j < i}
        IN  wal[i].prev = IF earlier = {} THEN Genesis ELSE Hash(wal[Last(earlier)])

LEMMA LinkedHolds ==
    ASSUME wal \in Seq(Line), Linked
    PROVE  LinksHold
<1> SUFFICES ASSUME NEW i \in Parsed
             PROVE  LET earlier == {j \in Parsed : j < i}
                    IN  wal[i].prev = IF earlier = {} THEN Genesis ELSE Hash(wal[Last(earlier)])
  BY DEF LinksHold
<1> DEFINE earlier == {j \in Parsed : j < i}
<1>1. Parsed = 1..Len(wal) /\ i \in Nat /\ Len(wal) \in Nat
  BY DEF Parsed, Linked
<1>2. CASE i = 1
  <2>1. earlier = {}
    BY <1>1, <1>2
  <2> QED BY <1>1, <1>2, <2>1 DEF Linked, HashOf
<1>3. CASE i # 1
  <2>1. i - 1 \in earlier /\ earlier \subseteq Nat /\ \A j \in earlier : j <= i - 1
    BY <1>1, <1>3
  <2>2. Last(earlier) = i - 1
    <3> HIDE DEF earlier
    <3> QED BY <2>1, LastIs
  <2>3. wal[i].prev = Hash(wal[i - 1])
    BY <1>1, <1>3 DEF Linked, HashOf
  <2> QED BY <2>1, <2>2, <2>3
<1> QED BY <1>2, <1>3

\* The hash of an entry tells its record.
LEMMA HashTellsRecord ==
    ASSUME NEW e \in Line, e.op # "garbage"
    PROVE  Hash(e) = Hash(Parse(e)) <=> AsRead(e.rec) = e.rec
<1> DEFINE payload(x) == [seq |-> x.seq, op |-> x.op, id |-> x.id, rec |-> x.rec, edge |-> x.edge]
<1>1. e.prev \in Seq(Payload) /\ e.seq \in Nat
  BY LineFields
<1>2. DOMAIN e = {"seq", "op", "id", "rec", "edge", "prev"} /\ e = [x \in DOMAIN e |-> e[x]]
  BY DEF Line, Garbage, NotUtf8
<1>3. /\ Parse(e).prev = e.prev /\ Parse(e).seq = e.seq /\ Parse(e).op = e.op
      /\ Parse(e).id = e.id /\ Parse(e).edge = e.edge /\ Parse(e).rec = AsRead(e.rec)
  BY <1>2 DEF Parse
<1>4. Hash(e) = Append(e.prev, payload(e)) /\ Hash(Parse(e)) = Append(e.prev, payload(Parse(e)))
  BY <1>3 DEF Hash
<1>5. Hash(e) = Hash(Parse(e)) => payload(e) = payload(Parse(e))
  <2> DEFINE n == Len(e.prev) + 1
  <2>1. \A x : Append(e.prev, x)[n] = x
    BY <1>1
  <2> HIDE DEF payload
  <2> QED BY <1>4, <2>1
<1>6. payload(e) = payload(Parse(e)) <=> AsRead(e.rec) = e.rec
  BY <1>3
<1> HIDE DEF payload
<1> QED BY <1>4, <1>5, <1>6

\* With the links in place, the answer of verify_chain depends on whether the
\* entries parse back to what was written.
LEMMA LinkedVerifies ==
    ASSUME wal \in Seq(Line), Linked
    PROVE  Verifies <=> Exact
<1>1. \A i \in Parsed : wal[i] \in Line /\ wal[i].op # "garbage"
  BY DEF Parsed
<1>2. Verifies <=> LinksHold /\ \A i \in Parsed : Hash(wal[i]) = Hash(Parse(wal[i]))
  BY DEF Verifies, LinksHold
<1> QED BY <1>1, <1>2, LinkedHolds, HashTellsRecord DEF Exact

LEMMA AppendLinks ==
    ASSUME FileTypes, torn = FALSE, Linked, prevHash = HashOf(Len(wal)),
           NEW e \in NewLines, AppendOk(e)
    PROVE  torn' = FALSE /\ Linked' /\ (prevHash = HashOf(Len(wal)))'
<1>1. /\ wal' = Append(wal, e) /\ torn' = FALSE /\ prevHash' = Hash(e)
      /\ e \in Line /\ e.op # "garbage" /\ e.prev = prevHash /\ wal \in Seq(Line)
  BY DEF AppendOk, AppendLine, FileTypes, NewLines
<1>2. /\ Len(wal') = Len(wal) + 1 /\ wal'[Len(wal) + 1] = e
      /\ \A i \in 1..Len(wal) : wal'[i] = wal[i]
      /\ DOMAIN wal' = 1..(Len(wal) + 1) /\ DOMAIN wal = 1..Len(wal) /\ Len(wal) \in Nat
  BY <1>1
<1>3. \A n \in 0..Len(wal) : HashOf(n)' = HashOf(n)
  BY <1>2 DEF HashOf
<1>4. ASSUME NEW i \in DOMAIN wal' PROVE wal'[i].op # "garbage" /\ wal'[i].prev = HashOf(i - 1)'
  <2>1. CASE i = Len(wal) + 1
    BY <1>1, <1>2, <1>3, <2>1
  <2>2. CASE i \in 1..Len(wal)
    BY <1>2, <1>3, <2>2 DEF Linked
  <2> QED BY <1>2, <2>1, <2>2
<1>5. Linked'
  BY <1>4 DEF Linked
<1>6. prevHash' = HashOf(Len(wal))'
  BY <1>1, <1>2 DEF HashOf
<1> QED BY <1>1, <1>5, <1>6

LEMMA ChainInit == EInit => ChainInv
BY DEF EInit, ChainInv, Linked, InUse

LEMMA ChainStep == ETypeOK /\ ChainInv /\ [ENext]_evars => ChainInv'
<1> SUFFICES ASSUME ETypeOK, ChainInv, [ENext]_evars, "torn_append" \notin struck'
             PROVE  /\ torn' = FALSE /\ Linked'
                    /\ (InUse => prevHash = HashOf(Len(wal)))'
                    /\ (pc = "replay" => prevHash = HashOf(cursor))'
  BY DEF ChainInv
<1>0. FileTypes /\ cursor \in Nat /\ cursor <= Len(wal)
  BY DEF ETypeOK, FileTypes
<1>k. ASSUME "torn_append" \notin struck
      PROVE  /\ torn = FALSE /\ Linked
             /\ InUse => prevHash = HashOf(Len(wal))
             /\ pc = "replay" => prevHash = HashOf(cursor)
  BY <1>k DEF ChainInv
<1>h. wal' = wal => Linked' = Linked /\ \A n : HashOf(n)' = HashOf(n)
  BY DEF Linked, HashOf
<1>1. CASE Open
  BY <1>1, <1>k, <1>h DEF Open, file, InUse, HashOf
<1>2. CASE ReplayEntry
  <2>1. /\ wal' = wal /\ torn' = torn /\ struck' = struck /\ pc = "replay" /\ pc' = "replay"
        /\ cursor' = cursor + 1 /\ cursor + 1 \in DOMAIN wal /\ Position(wal[cursor + 1])
    BY <1>0, <1>2 DEF ReplayEntry, file, FileTypes
  <2>2. prevHash' = Hash(wal[cursor + 1])
    BY <1>k, <2>1 DEF Linked, Position
  <2>3. HashOf(cursor + 1) = Hash(wal[cursor + 1])
    BY <1>0 DEF HashOf
  <2> QED BY <1>k, <1>h, <2>1, <2>2, <2>3 DEF InUse
<1>3. CASE Opened \/ OpenFails
  BY <1>3, <1>k, <1>h DEF Opened, OpenFails, file, writer, InUse
<1>4. CASE Crash
  BY <1>4, <1>k, <1>h DEF Crash, file, InUse
<1>5. CASE Commit \/ AddEdge \/ LogRollback \/ LogInvalidate
  <2>1. PICK e \in NewLines : AppendOk(e) /\ struck' = struck /\ InUse /\ InUse'
    BY <1>5, Appends
  <2> QED BY <1>0, <1>k, <2>1, AppendLinks DEF InUse
<1>6. CASE CallFails \/ RollbackFails
  <2>1. PICK e \in NewLines : AppendErr(e) /\ InUse /\ InUse'
    BY <1>6, Appends
  <2>2. UNCHANGED <<file, prevHash>> /\ "torn_append" \notin struck
    BY <2>1 DEF AppendErr
  <2> QED BY <1>k, <1>h, <2>1, <2>2 DEF InUse, file
<1>7. CASE Rollback
  BY <1>7, <1>k, <1>h DEF Rollback, Begin, file, writer, InUse
<1>8. CASE PyDelete
  BY <1>8, <1>k, <1>h DEF PyDelete, Begin, file, writer, InUse
<1>9. CASE UNCHANGED evars
  BY <1>9, <1>k, <1>h DEF evars, InUse
<1> QED BY <1>1, <1>2, <1>3, <1>4, <1>5, <1>6, <1>7, <1>8, <1>9 DEF ENext

\* As long as no append tears a line, verify_chain is true of the log exactly
\* when all of its numbers parse back to what was written.
THEOREM EsdbChain == ESpec => []FailedAppendsKeepChain
<1>1. ETypeOK /\ ChainInv /\ [ENext]_evars => (ETypeOK /\ ChainInv)'
  BY TypesStep, ChainStep
<1>2. ETypeOK /\ ChainInv => FailedAppendsKeepChain
  BY LinkedVerifies DEF ETypeOK, ChainInv, FailedAppendsKeepChain
<1> QED BY <1>1, <1>2, TypesInit, ChainInit, PTL DEF ESpec

-----------------------------------------------------------------------------
(* The index.                                                              *)

Listed(id, k) == \E i \in DOMAIN byKind[k] : byKind[k][i] = id

LEMMA UpsertLists ==
    ASSUME records \in [Ids -> Cell], byKind \in [Kinds -> Seq(Ids)],
           \A x \in Ids : records[x] # Absent => Listed(x, records[x].kind),
           NEW id \in Ids, NEW rec \in Record, Upsert(id, rec)
    PROVE  (\A x \in Ids : records[x] # Absent => Listed(x, records[x].kind))'
<1>1. /\ records' = [records EXCEPT ![id] = rec] /\ rec.kind \in Kinds
      /\ byKind' = [byKind EXCEPT ![rec.kind] = Append(@, id)]
  BY DEF Upsert, Record
<1>2. byKind'[rec.kind] = Append(byKind[rec.kind], id) /\ byKind[rec.kind] \in Seq(Ids)
  BY <1>1
<1>3. Listed(id, rec.kind)'
  <2>1. /\ Len(byKind[rec.kind]) + 1 \in DOMAIN byKind'[rec.kind]
        /\ byKind'[rec.kind][Len(byKind[rec.kind]) + 1] = id
    BY <1>2
  <2> QED BY <2>1 DEF Listed
<1>4. ASSUME NEW x \in Ids, NEW k \in Kinds, Listed(x, k) PROVE Listed(x, k)'
  <2>1. CASE k = rec.kind
    <3>1. PICK i \in DOMAIN byKind[k] : byKind[k][i] = x
      BY <1>4 DEF Listed
    <3>2. i \in DOMAIN byKind'[k] /\ byKind'[k][i] = x
      BY <1>2, <2>1, <3>1
    <3> QED BY <3>2 DEF Listed
  <2>2. CASE k # rec.kind
    BY <1>1, <1>4, <2>2 DEF Listed
  <2> QED BY <2>1, <2>2
<1>5. ASSUME NEW x \in Ids, records'[x] # Absent PROVE Listed(x, records[x].kind)'
  <2>1. CASE x = id
    <3>1. records'[x] = rec
      BY <1>1, <2>1
    <3> QED BY <1>3, <2>1, <3>1 DEF Listed
  <2>2. CASE x # id
    <3>1. records'[x] = records[x] /\ records[x].kind \in Kinds
      BY <1>1, <1>5, <2>2 DEF Cell, Record
    <3>2. Listed(x, records[x].kind)
      BY <1>5, <3>1
    <3>3. PICK k \in Kinds : k = records[x].kind
      BY <3>1
    <3>4. Listed(x, k)'
      BY <1>4, <3>2, <3>3
    <3> QED BY <3>1, <3>3, <3>4 DEF Listed
  <2> QED BY <2>1, <2>2
<1> QED BY <1>5

\* A change that keeps presence and kinds keeps the index complete.
LEMMA KindsKept ==
    ASSUME \A x \in Ids : records[x] # Absent => Listed(x, records[x].kind),
           byKind' = byKind,
           \A x \in Ids : records'[x] # Absent =>
               records[x] # Absent /\ records'[x].kind = records[x].kind
    PROVE  (\A x \in Ids : records[x] # Absent => Listed(x, records[x].kind))'
BY DEF Listed

LEMMA InvalidatedKind ==
    ASSUME NEW r \in Cell, Invalidated(r) # Absent
    PROVE  r # Absent /\ Invalidated(r).kind = r.kind
BY DEF Invalidated, Cell, Record

LEMMA IndexStep == ETypeOK /\ IndexMissesNothing /\ [ENext]_evars => IndexMissesNothing'
<1> SUFFICES ASSUME ETypeOK, IndexMissesNothing, [ENext]_evars, pc' # "down"
             PROVE  (\A x \in Ids : records[x] # Absent => Listed(x, records[x].kind))'
  BY DEF IndexMissesNothing, Listed
<1>0. records \in [Ids -> Cell] /\ byKind \in [Kinds -> Seq(Ids)]
  BY DEF ETypeOK
<1>k. pc # "down" => \A x \in Ids : records[x] # Absent => Listed(x, records[x].kind)
  BY DEF IndexMissesNothing, Listed
<1>u. UNCHANGED <<records, byKind>> /\ pc # "down" =>
        (\A x \in Ids : records[x] # Absent => Listed(x, records[x].kind))'
  BY <1>k, KindsKept
<1>i. ASSUME NEW id \in Ids, records' = [records EXCEPT ![id] = Invalidated(records[id])],
             byKind' = byKind, pc # "down"
      PROVE  (\A x \in Ids : records[x] # Absent => Listed(x, records[x].kind))'
  BY <1>0, <1>k, <1>i, KindsKept, InvalidatedKind
<1>1. CASE Open
  BY <1>1 DEF Open, NoRecords
<1>2. CASE ReplayEntry
  <2> DEFINE e == wal[cursor + 1]
  <2>1. e \in Line /\ pc = "replay"
    BY <1>2 DEF ReplayEntry, ETypeOK
  <2>2. CASE e.op = "upsert" /\ Upsert(e.id, AsRead(e.rec))
    <3>1. AsRead(e.rec) \in Record /\ e.id \in Ids
      BY <2>1, <2>2, LineFields, CellTypes
    <3> QED BY <1>0, <1>k, <2>1, <2>2, <3>1, UpsertLists
  <2>3. CASE /\ e.op = "invalidate" /\ UNCHANGED byKind
             /\ records' = [records EXCEPT ![e.id] = Invalidated(records[e.id])]
    BY <1>i, <2>1, <2>3, LineFields
  <2>4. CASE UNCHANGED <<records, byKind>>
    BY <1>u, <2>1, <2>4
  <2> QED BY <1>2, <2>2, <2>3, <2>4 DEF ReplayEntry, Replay, Accepted, memory
<1>3. CASE Opened
  BY <1>3, <1>u DEF Opened, memory
<1>4. CASE Crash \/ OpenFails
  BY <1>4 DEF Crash, OpenFails
<1>5. CASE Commit
  <2>1. PICK id \in Ids, rec \in Record : Upsert(id, rec)
    BY <1>0, <1>5, CommittableType DEF Commit
  <2>2. pc # "down"
    BY <1>5 DEF Commit, Begin
  <2> QED BY <1>0, <1>k, <2>1, <2>2, UpsertLists
<1>6. CASE AddEdge
  BY <1>6, <1>u DEF AddEdge, Begin
<1>7. CASE CallFails
  BY <1>7, <1>u DEF CallFails, Begin, memory
<1>8. CASE Rollback
  <2>1. \A x \in Ids : records'[x] # Absent =>
            records[x] # Absent /\ records'[x].kind = records[x].kind
    BY <1>8 DEF Rollback
  <2> QED BY <1>8, <1>k, <2>1, KindsKept DEF Rollback, Begin
<1>9. CASE LogRollback \/ LogInvalidate \/ RollbackFails
  BY <1>9, <1>u DEF LogRollback, LogInvalidate, RollbackFails, memory
<1>10. CASE PyDelete
  BY <1>10, <1>i DEF PyDelete, Begin
<1>11. CASE UNCHANGED evars
  BY <1>11, <1>u DEF evars
<1> QED BY <1>1, <1>2, <1>3, <1>4, <1>5, <1>6, <1>7, <1>8, <1>9, <1>10, <1>11 DEF ENext

\* No record is missing from the list of its kind.
THEOREM EsdbIndex == ESpec => []IndexMissesNothing
<1>1. EInit => IndexMissesNothing
  BY DEF EInit, IndexMissesNothing
<1>2. ETypeOK /\ IndexMissesNothing /\ [ENext]_evars => (ETypeOK /\ IndexMissesNothing)'
  BY TypesStep, IndexStep
<1> QED BY <1>1, <1>2, TypesInit, PTL DEF ESpec

-----------------------------------------------------------------------------
(* What a replay rebuilds.  Each part of the memory is described by the     *)
(* first n lines of the log, all of them or, while a handle opens, those   *)
(* already read, so that reading or writing one more line keeps it so.     *)

UpsIn(log, n, id) == {i \in 1..n : Accepted(log[i]) /\ log[i].id = id}

InvsIn(log, n, id) == {i \in 1..n : log[i].op = "invalidate" /\ log[i].id = id}

LoggedIn(log, n, id) ==
    LET ups == UpsIn(log, n, id) IN
    IF ups = {} THEN Absent
    ELSE IF \E i \in InvsIn(log, n, id) : i > Last(ups)
         THEN Invalidated(AsRead(log[Last(ups)].rec)) ELSE AsRead(log[Last(ups)].rec)

PushesIn(log, n, k) == {i \in 1..n : Accepted(log[i]) /\ log[i].rec.kind = k}

\* `list` is what these lines push for kind k.
Pushed(log, n, k, list) ==
    \E line \in [DOMAIN list -> PushesIn(log, n, k)] :
        /\ \A j \in DOMAIN list : list[j] = log[line[j]].id
        /\ \A i, j \in DOMAIN list : i < j => line[i] < line[j]
        /\ \A i \in PushesIn(log, n, k) : \E j \in DOMAIN list : line[j] = i

ParsedIn(log, n) == {i \in 1..n : log[i].op # "garbage"}

EdgesIn(log, n) == UNION {log[i].edge : i \in ParsedIn(log, n)}

HasLast(S) == S = {} \/ \E m \in S : \A j \in S : j <= m

\* A record in memory against the one that the log gives.
Agrees(rec, logged, hidden, lower) ==
    /\ rec = Absent <=> logged = Absent
    /\ rec.kind = logged.kind
    /\ hidden <=> rec.status # logged.status
    /\ hidden => rec.status = "Invalidated"
    /\ lower \/ logged.conf \in {rec.conf, AsRead(rec).conf}

\* The records rs, the index lists and the edges es against the log, where the
\* ids in ul are invalidated and those in dc decayed in memory only.
MemoryIs(log, n, rs, lists, es, ul, dc) ==
    /\ es = EdgesIn(log, n)
    /\ \A k \in Kinds : Pushed(log, n, k, lists[k])
    /\ \A id \in Ids : /\ HasLast(UpsIn(log, n, id))
                       /\ Agrees(rs[id], LoggedIn(log, n, id), id \in ul, id \in dc)

\* What one more line makes of a record.
Effect(e, id, rec) ==
    IF e.id # id THEN rec
    ELSE IF Accepted(e) THEN AsRead(e.rec)
    ELSE IF e.op = "invalidate" THEN Invalidated(rec)
    ELSE rec

LEMMA NothingSeen ==
    ASSUME NEW log
    PROVE  MemoryIs(log, 0, NoRecords, NoIndex, {}, {}, {})
<1>1. \A id : UpsIn(log, 0, id) = {}
  BY DEF UpsIn
<1>2. \A id \in Ids : HasLast(UpsIn(log, 0, id)) /\ LoggedIn(log, 0, id) = Absent
  BY <1>1 DEF HasLast, LoggedIn
<1>3. ASSUME NEW k \in Kinds PROVE Pushed(log, 0, k, NoIndex[k])
  <2>1. PushesIn(log, 0, k) = {} /\ NoIndex[k] = <<>> /\ DOMAIN <<>> = {}
    BY DEF PushesIn, NoIndex
  <2>2. [i \in {} |-> i] \in [{} -> {}]
    OBVIOUS
  <2> QED BY <2>1, <2>2 DEF Pushed
<1>4. EdgesIn(log, 0) = {}
  BY DEF EdgesIn, ParsedIn
<1> QED BY <1>2, <1>3, <1>4 DEF MemoryIs, Agrees, NoRecords

LEMMA LoggedCell ==
    ASSUME NEW n \in Nat, NEW log, NEW id, \A i \in 1..n : log[i] \in Line,
           HasLast(UpsIn(log, n, id))
    PROVE  LoggedIn(log, n, id) \in Cell
<1> DEFINE ups == UpsIn(log, n, id)
<1>1. CASE ups = {}
  BY <1>1, CellTypes DEF LoggedIn
<1>2. CASE ups # {}
  <2>1. PICK m \in ups : \A j \in ups : j <= m
    BY <1>2 DEF HasLast
  <2>2. ups \subseteq Nat /\ m \in 1..n /\ log[m].op = "upsert"
    BY DEF UpsIn, Accepted
  <2>3. Last(ups) = m
    <3> HIDE DEF ups
    <3> QED BY <2>1, <2>2, LastIs
  <2>4. AsRead(log[m].rec) \in Record /\ Invalidated(AsRead(log[m].rec)) \in Record
    BY <2>2, LineFields, CellTypes DEF Cell
  <2> QED BY <1>2, <2>3, <2>4 DEF LoggedIn, Cell
<1> QED BY <1>1, <1>2

\* The record that one more line gives.
LEMMA LoggedExtend ==
    ASSUME NEW n \in Nat, NEW old, NEW new, NEW id,
           \A i \in 1..n : old[i] \in Line /\ new[i] = old[i],
           HasLast(UpsIn(old, n, id))
    PROVE  /\ HasLast(UpsIn(new, n + 1, id))
           /\ LoggedIn(new, n + 1, id) = Effect(new[n + 1], id, LoggedIn(old, n, id))
<1> DEFINE e == new[n + 1]
           ups == UpsIn(old, n, id)
           invs == InvsIn(old, n, id)
<1>1. 1..(n + 1) = (1..n) \cup {n + 1} /\ n + 1 \notin 1..n /\ \A i \in 1..n : i < n + 1
  OBVIOUS
<1>2. UpsIn(new, n + 1, id) = ups \cup (IF Accepted(e) /\ e.id = id THEN {n + 1} ELSE {})
  BY <1>1 DEF UpsIn
<1>3. InvsIn(new, n + 1, id) = invs \cup (IF e.op = "invalidate" /\ e.id = id THEN {n + 1} ELSE {})
  BY <1>1 DEF InvsIn
<1>4. ups \subseteq 1..n /\ invs \subseteq 1..n /\ \A i \in ups : old[i].op = "upsert"
  BY DEF UpsIn, InvsIn, Accepted
<1> HIDE DEF e, ups, invs
<1>5. ups # {} => Last(ups) \in ups
  <2> SUFFICES ASSUME ups # {} PROVE Last(ups) \in ups
    OBVIOUS
  <2>1. PICK m \in ups : \A j \in ups : j <= m
    BY DEF HasLast, ups
  <2>2. Last(ups) = m
    <3>1. ups \subseteq Nat
      BY <1>4
    <3> QED BY <2>1, <3>1, LastIs
  <2> QED BY <2>1, <2>2
<1>6. ups # {} => /\ new[Last(ups)] = old[Last(ups)] /\ AsRead(old[Last(ups)].rec) \in Record
                  /\ Last(ups) < n + 1 /\ Last(ups) \in Nat
  <2> SUFFICES ASSUME ups # {}
               PROVE  /\ new[Last(ups)] = old[Last(ups)] /\ AsRead(old[Last(ups)].rec) \in Record
                      /\ Last(ups) < n + 1 /\ Last(ups) \in Nat
    OBVIOUS
  <2>1. PICK m \in 1..n : m = Last(ups) /\ old[m].op = "upsert"
    BY <1>4, <1>5
  <2>2. new[m] = old[m] /\ old[m] \in Line /\ m < n + 1 /\ m \in Nat
    OBVIOUS
  <2>3. AsRead(old[m].rec) \in Record
    BY <2>1, <2>2, LineFields, CellTypes
  <2> QED BY <2>1, <2>2, <2>3
<1>7. LoggedIn(old, n, id) =
        IF ups = {} THEN Absent
        ELSE IF \E i \in invs : i > Last(ups)
             THEN Invalidated(AsRead(old[Last(ups)].rec)) ELSE AsRead(old[Last(ups)].rec)
  BY DEF LoggedIn, ups, invs
<1>8. CASE Accepted(e) /\ e.id = id
  <2>1. UpsIn(new, n + 1, id) = ups \cup {n + 1} /\ InvsIn(new, n + 1, id) = invs
    BY <1>2, <1>3, <1>8 DEF Accepted
  <2>2. \A j \in ups \cup {n + 1} : j \in Nat /\ j <= n + 1
    BY <1>1, <1>4
  <2>3. Last(ups \cup {n + 1}) = n + 1
    BY <2>2, LastIs
  <2>4. ~ \E i \in invs : i > n + 1
    BY <1>4
  <2>5. LoggedIn(new, n + 1, id) = AsRead(e.rec)
    BY <2>1, <2>3, <2>4 DEF LoggedIn, e
  <2>6. HasLast(UpsIn(new, n + 1, id))
    BY <2>1, <2>2 DEF HasLast
  <2> QED BY <1>8, <2>5, <2>6 DEF Effect, e
<1>9. CASE ~(Accepted(e) /\ e.id = id)
  <2>1. UpsIn(new, n + 1, id) = ups
    BY <1>2, <1>9
  <2>2. HasLast(UpsIn(new, n + 1, id))
    BY <2>1 DEF ups
  <2>3. CASE ups = {}
    <3>1. LoggedIn(old, n, id) = Absent /\ LoggedIn(new, n + 1, id) = Absent
      BY <1>7, <2>1, <2>3 DEF LoggedIn
    <3>2. Invalidated(Absent) = Absent
      BY DEF Invalidated
    <3> QED BY <1>9, <2>2, <3>1, <3>2 DEF Effect, e
  <2>4. CASE ups # {} /\ e.op = "invalidate" /\ e.id = id
    <3>1. \E i \in InvsIn(new, n + 1, id) : i > Last(ups)
      BY <1>3, <1>6, <2>4
    <3>2. LoggedIn(new, n + 1, id) = Invalidated(AsRead(old[Last(ups)].rec))
      BY <1>6, <2>1, <2>4, <3>1 DEF LoggedIn
    <3>3. Invalidated(Invalidated(AsRead(old[Last(ups)].rec))) = Invalidated(AsRead(old[Last(ups)].rec))
      BY <1>6, <2>4, CellTypes DEF Invalidated, Record
    <3> QED BY <1>7, <1>9, <2>2, <2>4, <3>2, <3>3 DEF Effect, e
  <2>5. CASE ups # {} /\ ~(e.op = "invalidate" /\ e.id = id)
    <3>1. InvsIn(new, n + 1, id) = invs
      BY <1>3, <2>5
    <3>2. LoggedIn(new, n + 1, id) = LoggedIn(old, n, id)
      BY <1>6, <1>7, <2>1, <2>5, <3>1 DEF LoggedIn
    <3> QED BY <1>9, <2>2, <2>5, <3>2 DEF Effect, e
  <2> QED BY <2>3, <2>4, <2>5
<1> QED BY <1>8, <1>9

\* The index that one more line gives.
LEMMA PushedExtend ==
    ASSUME NEW n \in Nat, NEW old, NEW new, NEW k, NEW list \in Seq(Ids),
           \A i \in 1..n : new[i] = old[i],
           Pushed(old, n, k, list)
    PROVE  Pushed(new, n + 1, k, IF Accepted(new[n + 1]) /\ new[n + 1].rec.kind = k
                                 THEN Append(list, new[n + 1].id) ELSE list)
<1> DEFINE e == new[n + 1]
           last == Len(list) + 1
           longer == Append(list, e.id)
<1>1. 1..(n + 1) = (1..n) \cup {n + 1} /\ \A i \in 1..n : i < n + 1
  OBVIOUS
<1>2. PushesIn(new, n + 1, k) = PushesIn(old, n, k) \cup
          (IF Accepted(e) /\ e.rec.kind = k THEN {n + 1} ELSE {})
  BY <1>1 DEF PushesIn
<1>3. PushesIn(old, n, k) \subseteq 1..n
  BY DEF PushesIn
<1>4. /\ DOMAIN list = 1..Len(list) /\ Len(list) \in Nat /\ DOMAIN longer = 1..last
      /\ longer[last] = e.id /\ \A j \in 1..Len(list) : longer[j] = list[j]
      /\ 1..last = (1..Len(list)) \cup {last} /\ last \notin 1..Len(list)
      /\ \A j \in 1..Len(list) : j < last
  OBVIOUS
<1>5. PICK line \in [DOMAIN list -> PushesIn(old, n, k)] :
        /\ \A j \in DOMAIN list : list[j] = old[line[j]].id
        /\ \A i, j \in DOMAIN list : i < j => line[i] < line[j]
        /\ \A i \in PushesIn(old, n, k) : \E j \in DOMAIN list : line[j] = i
  BY DEF Pushed
<1>6. \A j \in DOMAIN list : line[j] \in 1..n /\ new[line[j]] = old[line[j]]
  BY <1>3, <1>5
<1> HIDE DEF e, last, longer
<1>7. CASE Accepted(e) /\ e.rec.kind = k
  <2> DEFINE more == [j \in 1..last |-> IF j = last THEN n + 1 ELSE line[j]]
  <2>1. PushesIn(new, n + 1, k) = PushesIn(old, n, k) \cup {n + 1}
    BY <1>2, <1>7
  <2>2. more[last] = n + 1 /\ \A j \in 1..Len(list) : more[j] = line[j]
    BY <1>4
  <2>3. more \in [DOMAIN longer -> PushesIn(new, n + 1, k)]
    BY <1>4, <1>5, <2>1
  <2> HIDE DEF more
  <2>4. \A j \in DOMAIN longer : longer[j] = new[more[j]].id
    BY <1>4, <1>5, <1>6, <2>2 DEF e
  <2>5. \A i, j \in DOMAIN longer : i < j => more[i] < more[j]
    <3> SUFFICES ASSUME NEW i \in 1..last, NEW j \in 1..last, i < j PROVE more[i] < more[j]
      BY <1>4
    <3>1. i \in 1..Len(list)
      BY <1>4 DEF last
    <3>2. CASE j = last
      BY <1>1, <1>4, <1>6, <2>2, <3>1, <3>2
    <3>3. CASE j \in 1..Len(list)
      BY <1>4, <1>5, <2>2, <3>1, <3>3
    <3> QED BY <1>4, <3>2, <3>3
  <2>6. \A i \in PushesIn(new, n + 1, k) : \E j \in DOMAIN longer : more[j] = i
    <3>1. ASSUME NEW i \in PushesIn(old, n, k) PROVE \E j \in DOMAIN longer : more[j] = i
      BY <1>4, <1>5, <2>2, <3>1
    <3>2. \E j \in DOMAIN longer : more[j] = n + 1
      BY <1>4, <2>2
    <3> QED BY <2>1, <3>1, <3>2
  <2>7. Pushed(new, n + 1, k, longer)
    BY <2>3, <2>4, <2>5, <2>6 DEF Pushed
  <2> QED BY <1>7, <2>7 DEF e, longer
<1>8. CASE ~(Accepted(e) /\ e.rec.kind = k)
  <2>1. PushesIn(new, n + 1, k) = PushesIn(old, n, k)
    BY <1>2, <1>8
  <2>2. Pushed(new, n + 1, k, list)
    <3>1. \A j \in DOMAIN list : list[j] = new[line[j]].id
      BY <1>5, <1>6
    <3>2. /\ line \in [DOMAIN list -> PushesIn(new, n + 1, k)]
          /\ \A i, j \in DOMAIN list : i < j => line[i] < line[j]
          /\ \A i \in PushesIn(new, n + 1, k) : \E j \in DOMAIN list : line[j] = i
      BY <1>5, <2>1, Zenon
    <3> QED BY <3>1, <3>2, Zenon DEF Pushed
  <2> QED BY <1>8, <2>2 DEF e
<1> QED BY <1>7, <1>8

\* One more line, read or written.
LEMMA MemoryExtend ==
    ASSUME NEW n \in Nat, NEW old, NEW new, NEW rs, NEW lists \in [Kinds -> Seq(Ids)], NEW es, NEW ul, NEW dc,
           \A i \in 1..n : old[i] \in Line /\ new[i] = old[i],
           MemoryIs(old, n, rs, lists, es, ul, dc),
           NEW rs2, NEW lists2, NEW es2, NEW ul2, NEW dc2,
           Accepted(new[n + 1]) => new[n + 1].rec.kind \in Kinds,
           \A id \in Ids : Agrees(rs2[id], Effect(new[n + 1], id, LoggedIn(old, n, id)), id \in ul2, id \in dc2),
           lists2 = IF Accepted(new[n + 1])
                    THEN [lists EXCEPT ![new[n + 1].rec.kind] = Append(@, new[n + 1].id)] ELSE lists,
           es2 = IF new[n + 1].op = "garbage" THEN es ELSE es \cup new[n + 1].edge
    PROVE  MemoryIs(new, n + 1, rs2, lists2, es2, ul2, dc2)
<1>1. 1..(n + 1) = (1..n) \cup {n + 1}
  OBVIOUS
<1>2. es2 = EdgesIn(new, n + 1)
  <2>1. ParsedIn(new, n + 1) = ParsedIn(old, n) \cup (IF new[n + 1].op = "garbage" THEN {} ELSE {n + 1})
    BY <1>1 DEF ParsedIn
  <2>2. \A i \in ParsedIn(old, n) : new[i].edge = old[i].edge
    BY DEF ParsedIn
  <2> QED BY <2>1, <2>2 DEF MemoryIs, EdgesIn
<1>3. ASSUME NEW k \in Kinds PROVE Pushed(new, n + 1, k, lists2[k])
  <2>1. lists2[k] = IF Accepted(new[n + 1]) /\ new[n + 1].rec.kind = k
                    THEN Append(lists[k], new[n + 1].id) ELSE lists[k]
    OBVIOUS
  <2> QED BY <2>1, PushedExtend DEF MemoryIs
<1>4. \A id \in Ids : /\ HasLast(UpsIn(new, n + 1, id))
                      /\ Agrees(rs2[id], LoggedIn(new, n + 1, id), id \in ul2, id \in dc2)
  BY LoggedExtend DEF MemoryIs
<1> QED BY <1>2, <1>3, <1>4 DEF MemoryIs

-----------------------------------------------------------------------------
(* The handle against its log.  The lines that memory stands for are those *)
(* read so far while it opens, and all of them once it is in use.          *)

Seen == IF pc = "replay" THEN cursor ELSE Len(wal)

EdgesInPlace ==
    \A i \in DOMAIN wal : wal[i].op \notin {"add_edge", "garbage"} => wal[i].edge = {}

\* What rollback has not logged yet is invalidated in memory.
TodoInv ==
    /\ \A id \in todo : records[id] \in Record /\ records[id].status = "Invalidated"
    /\ pc \notin {"rollback", "invalidate"} => todo = {}
    /\ pc = "replay" => unlogged = {} /\ decayed = {}

LiveInv ==
    /\ TodoInv
    /\ ("torn_append" \notin struck /\ AllAccepted) =>
         /\ EdgesInPlace
         /\ pc # "down" => MemoryIs(wal, Seen, records, byKind, edges, unlogged, decayed)

\* Memory changes alone: a record is invalidated, and its confidence moves
\* only when it counts as decayed.
Moved(id) ==
    \/ UNCHANGED <<records[id], id \in unlogged, id \in decayed>>
    \/ /\ records[id] \in Record /\ records'[id] \in Record
       /\ records'[id].kind = records[id].kind
       /\ records'[id].status = "Invalidated"
       /\ id \in unlogged' <=> (id \in unlogged \/ records[id].status = "Active")
       /\ id \in decayed' \/ (records'[id].conf = records[id].conf /\ id \notin decayed)

LEMMA MemoryMoves ==
    ASSUME NEW n, MemoryIs(wal, n, records, byKind, edges, unlogged, decayed),
           UNCHANGED <<wal, byKind, edges>>,
           \A id \in Ids : LoggedIn(wal, n, id) \in Cell /\ Moved(id)
    PROVE  MemoryIs(wal', n, records', byKind', edges', unlogged', decayed')
<1>1. ASSUME NEW id \in Ids
      PROVE  Agrees(records'[id], LoggedIn(wal, n, id), id \in unlogged', id \in decayed')
  <2> DEFINE logged == LoggedIn(wal, n, id)
  <2>1. Agrees(records[id], logged, id \in unlogged, id \in decayed) /\ logged \in Cell /\ Moved(id)
    BY DEF MemoryIs
  <2> HIDE DEF logged
  <2>2. CASE UNCHANGED <<records[id], id \in unlogged, id \in decayed>>
    BY <2>1, <2>2 DEF logged
  <2>3. CASE ~UNCHANGED <<records[id], id \in unlogged, id \in decayed>>
    <3>1. /\ records[id] \in Record /\ records'[id] \in Record
          /\ records'[id].kind = records[id].kind
          /\ records'[id].status = "Invalidated"
          /\ id \in unlogged' <=> (id \in unlogged \/ records[id].status = "Active")
          /\ id \in decayed' \/ (records'[id].conf = records[id].conf /\ id \notin decayed)
      BY <2>1, <2>3 DEF Moved
    <3>2. records[id] # Absent /\ records'[id] # Absent /\ logged # Absent /\ logged \in Record
      BY <2>1, <3>1, CellTypes DEF Agrees, Cell
    <3>3. AsRead(records'[id]).conf = ReadBack[records'[id].conf]
          /\ AsRead(records[id]).conf = ReadBack[records[id].conf]
      BY <3>1, <3>2 DEF AsRead, Record
    <3>4. id \in decayed' \/ logged.conf \in {records'[id].conf, AsRead(records'[id]).conf}
      BY <2>1, <3>1, <3>3 DEF Agrees
    <3>5. id \in unlogged' <=> records'[id].status # logged.status
      BY <2>1, <3>1, <3>2 DEF Agrees, Record
    <3> QED BY <2>1, <3>1, <3>2, <3>4, <3>5 DEF Agrees, logged
  <2> QED BY <2>2, <2>3
<1> QED BY <1>1 DEF MemoryIs

\* A line and the memory that goes with it.
LEMMA MemoryLogged ==
    ASSUME ETypeOK, torn = FALSE, EdgesInPlace,
           MemoryIs(wal, Len(wal), records, byKind, edges, unlogged, decayed),
           NEW e \in NewLines, AppendOk(e),
           \A id \in Ids : Agrees(records'[id], Effect(e, id, LoggedIn(wal, Len(wal), id)), id \in unlogged', id \in decayed'),
           byKind' = IF Accepted(e) THEN [byKind EXCEPT ![e.rec.kind] = Append(@, e.id)] ELSE byKind,
           edges' = edges \cup e.edge
    PROVE  EdgesInPlace' /\ MemoryIs(wal', Len(wal'), records', byKind', edges', unlogged', decayed')
<1>1. wal' = Append(wal, e) /\ e \in Line /\ wal \in Seq(Line) /\ byKind \in [Kinds -> Seq(Ids)]
  BY DEF AppendOk, AppendLine, NewLines, ETypeOK
<1>2. /\ Len(wal') = Len(wal) + 1 /\ wal'[Len(wal) + 1] = e /\ Len(wal) \in Nat
      /\ \A i \in 1..Len(wal) : wal[i] \in Line /\ wal'[i] = wal[i]
      /\ DOMAIN wal' = (1..Len(wal)) \cup {Len(wal) + 1} /\ DOMAIN wal = 1..Len(wal)
  BY <1>1
<1>3. EdgesInPlace'
  BY <1>2 DEF EdgesInPlace, NewLines
<1>4. Accepted(e) => e.rec.kind \in Kinds
  BY <1>1, LineFields DEF Record, Accepted
<1>5. MemoryIs(wal', Len(wal) + 1, records', byKind', edges', unlogged', decayed')
  BY <1>1, <1>2, <1>4, MemoryExtend DEF NewLines
<1> QED BY <1>2, <1>3, <1>5

\* One line of the log, read.
LEMMA MemoryRead ==
    ASSUME ETypeOK, EdgesInPlace, ReplayEntry, unlogged = {}, decayed = {},
           MemoryIs(wal, cursor, records, byKind, edges, unlogged, decayed)
    PROVE  MemoryIs(wal', cursor', records', byKind', edges', unlogged', decayed')
<1> DEFINE e == wal[cursor + 1]
<1>1. /\ cursor \in Nat /\ cursor + 1 \in DOMAIN wal /\ cursor' = cursor + 1 /\ wal' = wal
      /\ unlogged' = {} /\ decayed' = {} /\ Replay(e) /\ byKind \in [Kinds -> Seq(Ids)] /\ records \in [Ids -> Cell]
      /\ \A i \in 1..cursor : wal[i] \in Line
  BY DEF ETypeOK, ReplayEntry, file
<1>2. /\ e \in Line /\ (e.op # "garbage" => e.id \in Ids)
      /\ e.op \notin {"add_edge", "garbage"} => e.edge = {}
  BY <1>1, LineFields DEF ETypeOK, EdgesInPlace
<1>3. Accepted(e) => /\ e.op = "upsert" /\ e.rec \in Record /\ e.rec.kind \in Kinds
                     /\ AsRead(e.rec).kind = e.rec.kind
  BY <1>2, LineFields, CellTypes DEF Record, Accepted
<1> HIDE DEF e
<1>4. \A id \in Ids : Agrees(records[id], LoggedIn(wal, cursor, id), FALSE, FALSE)
  BY DEF MemoryIs, Agrees
<1>5. \A id \in Ids : Agrees(records'[id], Effect(e, id, LoggedIn(wal, cursor, id)), FALSE, FALSE)
  <2>1. CASE Accepted(e)
    <3>1. records' = [records EXCEPT ![e.id] = AsRead(e.rec)]
      BY <1>1, <1>3, <2>1 DEF Replay, Upsert, memory
    <3>2. Agrees(AsRead(e.rec), AsRead(e.rec), FALSE, FALSE)
      BY DEF Agrees
    <3> QED BY <1>1, <1>2, <1>3, <1>4, <2>1, <3>1, <3>2 DEF Effect
  <2>2. CASE e.op = "invalidate"
    <3>1. records' = [records EXCEPT ![e.id] = Invalidated(records[e.id])]
      BY <1>1, <1>3, <2>2 DEF Replay, memory
    <3>2. ASSUME NEW rec \in Cell, NEW logged, Agrees(rec, logged, FALSE, FALSE), logged \in Cell
          PROVE  Agrees(Invalidated(rec), Invalidated(logged), FALSE, FALSE)
      BY <3>2, RecordAssumption DEF Agrees, Invalidated, AsRead, Cell, Record, Absent
    <3>3. \A id \in Ids : LoggedIn(wal, cursor, id) \in Cell
      BY <1>1, LoggedCell DEF MemoryIs
    <3> QED BY <1>1, <1>2, <1>3, <1>4, <2>2, <3>1, <3>2, <3>3 DEF Effect
  <2>3. CASE ~Accepted(e) /\ e.op # "invalidate"
    <3>1. records' = records
      BY <1>1, <2>3 DEF Replay, memory
    <3> QED BY <1>4, <2>3, <3>1 DEF Effect
  <2> QED BY <2>1, <2>2, <2>3
<1>6. byKind' = IF Accepted(e) THEN [byKind EXCEPT ![e.rec.kind] = Append(@, e.id)] ELSE byKind
  BY <1>1, <1>3 DEF Replay, Upsert, memory
<1>7. edges' = IF e.op = "garbage" THEN edges ELSE edges \cup e.edge
  BY <1>1, <1>2, <1>3 DEF Replay, memory
<1>8. \A id \in Ids : Agrees(records'[id], Effect(e, id, LoggedIn(wal, cursor, id)), id \in {}, id \in {})
  BY <1>5 DEF Agrees
<1>9. MemoryIs(wal, cursor + 1, records', byKind', edges', {}, {})
  BY <1>1, <1>3, <1>6, <1>7, <1>8, MemoryExtend DEF e
<1> QED BY <1>1, <1>9

LEMMA LiveInit == EInit => LiveInv
BY DEF EInit, LiveInv, TodoInv, EdgesInPlace

\* What rollback does to one record.
LEMMA RollbackMoves ==
    ASSUME ETypeOK, Rollback, NEW id \in Ids
    PROVE  /\ Moved(id)
           /\ id \in todo' => records'[id] \in Record /\ records'[id].status = "Invalidated"
<1>1. PICK deps \in SUBSET Ids, hit \in SUBSET Ids :
        /\ records' = [x \in Ids |->
             IF records[x] = Absent \/ x \notin hit THEN records[x]
             ELSE [kind |-> records[x].kind, status |-> "Invalidated",
                   conf |-> IF x \in deps THEN Decay[records[x].conf] ELSE records[x].conf]]
        /\ deps \subseteq hit
        /\ todo' = {x \in hit : records[x] # Absent}
        /\ unlogged' = unlogged \cup {x \in hit : records[x].status = "Active"}
        /\ decayed' = decayed \cup {x \in deps : records[x] # Absent}
  <2> DEFINE deps == TransitiveDependents(root')
  <2>1. deps \subseteq Ids /\ root' \in Ids
    BY DEF Rollback, TransitiveDependents
  <2>2. /\ records' = [x \in Ids |->
             IF records[x] = Absent \/ x \notin deps \cup {root'} THEN records[x]
             ELSE [kind |-> records[x].kind, status |-> "Invalidated",
                   conf |-> IF x \in deps THEN Decay[records[x].conf] ELSE records[x].conf]]
        /\ todo' = {x \in deps \cup {root'} : records[x] # Absent}
        /\ unlogged' = unlogged \cup {x \in deps \cup {root'} : records[x].status = "Active"}
        /\ decayed' = decayed \cup {x \in deps : records[x] # Absent}
    BY DEF Rollback
  <2> HIDE DEF deps
  <2>3. deps \cup {root'} \in SUBSET Ids /\ deps \subseteq deps \cup {root'}
    BY <2>1
  <2> QED BY <2>1, <2>2, <2>3
<1>2. records[id] = Absent \/ records[id] \in Record
  BY DEF ETypeOK, Cell
<1>3. CASE records[id] = Absent \/ id \notin hit
  <2>1. records[id] = Absent => records[id].status # "Active"
    BY DEF Absent
  <2>2. /\ records'[id] = records[id] /\ id \notin todo'
        /\ id \in unlogged' <=> id \in unlogged
        /\ id \in decayed' <=> id \in decayed
    BY <1>1, <1>3, <2>1
  <2> QED BY <2>2 DEF Moved
<1>4. CASE records[id] # Absent /\ id \in hit
  <2>1. records'[id] = [kind |-> records[id].kind, status |-> "Invalidated",
                        conf |-> IF id \in deps THEN Decay[records[id].conf] ELSE records[id].conf]
    BY <1>1, <1>4
  <2>2. records[id] \in Record /\ records'[id] \in Record
    BY <1>2, <1>4, <2>1, RecordAssumption DEF Record
  <2>3. /\ records'[id].kind = records[id].kind /\ records'[id].status = "Invalidated"
        /\ id \notin deps => records'[id].conf = records[id].conf
    BY <2>1
  <2>4. /\ id \in unlogged' <=> (id \in unlogged \/ records[id].status = "Active")
        /\ id \in decayed' <=> (id \in decayed \/ id \in deps)
    BY <1>1, <1>4
  <2> QED BY <2>2, <2>3, <2>4 DEF Moved
<1> QED BY <1>3, <1>4

LEMMA TodoStep == ETypeOK /\ TodoInv /\ [ENext]_evars => TodoInv'
<1> SUFFICES ASSUME ETypeOK, TodoInv, [ENext]_evars PROVE TodoInv'
  OBVIOUS
<1> USE DEF TodoInv
<1>1. CASE Open \/ ReplayEntry \/ Opened \/ OpenFails \/ Crash
  BY <1>1 DEF Open, ReplayEntry, Opened, OpenFails, Crash
<1>2. CASE Commit \/ AddEdge \/ CallFails \/ PyDelete
  BY <1>2 DEF Commit, AddEdge, CallFails, PyDelete, Begin
<1>3. CASE Rollback
  <2>1. todo' \subseteq Ids /\ pc' = "rollback"
    BY <1>3, TypesStep DEF Rollback, ETypeOK
  <2> QED BY <1>3, <2>1, RollbackMoves
<1>4. CASE LogRollback \/ LogInvalidate \/ RollbackFails
  BY <1>4 DEF LogRollback, LogInvalidate, RollbackFails, memory
<1>5. CASE UNCHANGED evars
  BY <1>5 DEF evars
<1> QED BY <1>1, <1>2, <1>3, <1>4, <1>5 DEF ENext

LEMMA LiveStep == ETypeOK /\ ChainInv /\ LiveInv /\ [ENext]_evars => LiveInv'
<1> SUFFICES ASSUME ETypeOK, ChainInv, LiveInv, [ENext]_evars, "torn_append" \notin struck', AllAccepted'
             PROVE  EdgesInPlace' /\ (pc # "down" => MemoryIs(wal, Seen, records, byKind, edges, unlogged, decayed))'
  BY TodoStep DEF LiveInv
<1> DEFINE Memory == MemoryIs(wal, Len(wal), records, byKind, edges, unlogged, decayed)
<1>0. FileTypes /\ records \in [Ids -> Cell] /\ byKind \in [Kinds -> Seq(Ids)] /\ TodoInv
  BY DEF ETypeOK, FileTypes, LiveInv
\* The lines before a step are among those after it.
<1>p. "torn_append" \notin struck => AllAccepted
  <2> SUFFICES ASSUME "torn_append" \notin struck PROVE AllAccepted
    OBVIOUS
  <2>1. torn = FALSE /\ wal \in Seq(Line)
    BY <1>0 DEF ChainInv, FileTypes
  <2>2. CASE wal' = wal
    BY <2>2 DEF AllAccepted
  <2>3. ASSUME NEW e \in NewLines, wal' = Append(wal, e) PROVE AllAccepted
    <3>1. \A i \in DOMAIN wal : i \in DOMAIN wal' /\ wal'[i] = wal[i]
      BY <2>1, <2>3
    <3> QED BY <3>1 DEF AllAccepted
  <2>4. CASE Commit \/ AddEdge \/ LogRollback \/ LogInvalidate
    BY <2>1, <2>3, <2>4, Appends DEF AppendOk, AppendLine
  <2>5. CASE CallFails \/ RollbackFails
    BY <2>2, <2>5, Appends DEF AppendErr, file
  <2>6. CASE Open \/ ReplayEntry \/ Opened \/ OpenFails \/ Crash \/ Rollback \/ PyDelete \/ UNCHANGED evars
    BY <2>2, <2>6 DEF Open, ReplayEntry, Opened, OpenFails, Crash, Rollback, PyDelete, file, evars
  <2> QED BY <2>4, <2>5, <2>6 DEF ENext
<1>k. "torn_append" \notin struck =>
         /\ torn = FALSE /\ Linked /\ EdgesInPlace
         /\ InUse => Memory
         /\ pc = "replay" => MemoryIs(wal, cursor, records, byKind, edges, unlogged, decayed)
  BY <1>p DEF ChainInv, LiveInv, Seen, InUse
<1>s. InUse' /\ Memory' => (pc # "down" => MemoryIs(wal, Seen, records, byKind, edges, unlogged, decayed))'
  BY DEF Seen, InUse
<1>h. ASSUME wal' = wal, "torn_append" \notin struck PROVE EdgesInPlace'
  BY <1>h, <1>k DEF EdgesInPlace
\* Of the agreement only the record that a line names changes.
<1>a. ASSUME "torn_append" \notin struck, InUse, NEW id \in Ids
      PROVE  Agrees(records[id], LoggedIn(wal, Len(wal), id), id \in unlogged, id \in decayed)
  BY <1>a, <1>k DEF MemoryIs
<1>c. ASSUME "torn_append" \notin struck, InUse, NEW id \in Ids
      PROVE  LoggedIn(wal, Len(wal), id) \in Cell
  <2>1. Len(wal) \in Nat /\ \A i \in 1..Len(wal) : wal[i] \in Line
    BY <1>0 DEF FileTypes
  <2>2. HasLast(UpsIn(wal, Len(wal), id))
    BY <1>c, <1>k DEF Memory, MemoryIs
  <2> QED BY <2>1, <2>2, LoggedCell
<1> HIDE DEF Memory
<1>1. CASE Open
  <2>1. /\ wal' = wal /\ struck' = struck /\ pc' = "replay" /\ cursor' = 0 /\ unlogged' = {} /\ decayed' = {}
        /\ records' = NoRecords /\ byKind' = NoIndex /\ edges' = {}
    BY <1>1 DEF Open, file
  <2> QED BY <1>h, <2>1, NothingSeen DEF Seen
<1>2. CASE ReplayEntry
  <2>1. wal' = wal /\ struck' = struck /\ pc = "replay" /\ pc' = "replay"
        /\ unlogged = {} /\ decayed = {}
    BY <1>0, <1>2 DEF ReplayEntry, file, TodoInv
  <2>2. MemoryIs(wal', cursor', records', byKind', edges', unlogged', decayed')
    BY <1>2, <1>k, <2>1, MemoryRead
  <2> QED BY <1>h, <2>1, <2>2 DEF Seen
<1>3. CASE Opened
  <2>1. /\ UNCHANGED <<wal, records, byKind, edges, unlogged, decayed, struck>>
        /\ pc = "replay" /\ pc' = "idle" /\ cursor = Len(wal)
    BY <1>3 DEF Opened, file, memory
  <2> QED BY <1>h, <1>k, <2>1 DEF Seen
<1>4. CASE Crash \/ OpenFails
  BY <1>4, <1>h DEF Crash, OpenFails, file
<1>5. CASE Commit
  <2>p. PICK id \in Ids : \E rec \in Committable(id) :
          /\ AppendOk(Entry("upsert", id, rec, {}))
          /\ Upsert(id, rec)
          /\ unlogged' = unlogged \ {id} /\ decayed' = decayed \ {id}
    BY <1>5 DEF Commit
  <2>1. PICK rec \in Committable(id) :
          /\ AppendOk(Entry("upsert", id, rec, {}))
          /\ Upsert(id, rec)
          /\ unlogged' = unlogged \ {id} /\ decayed' = decayed \ {id}
    BY <2>p
  <2> DEFINE e == Entry("upsert", id, rec, {})
  <2>2. /\ e \in NewLines /\ rec \in Record
        /\ e.op = "upsert" /\ e.id = id /\ e.rec = rec /\ e.edge = {}
    BY <1>0, CommittableType, EntriesAreNew, EntryFields DEF Entry
  <2>a. Accepted(e)
    <3>1. torn = FALSE /\ wal \in Seq(Line) /\ struck' = struck
      BY <1>0, <1>5, <1>k DEF FileTypes, Commit
    <3>2. wal' = Append(wal, e)
      BY <2>1, <3>1 DEF AppendOk, AppendLine
    <3>3. Len(wal) + 1 \in DOMAIN wal' /\ wal'[Len(wal) + 1] = e
      <4> HIDE DEF e
      <4> QED BY <3>1, <3>2
    <3> QED BY <2>2, <3>3 DEF AllAccepted
  <2>3. UNCHANGED <<edges, pc, struck>> /\ InUse /\ InUse'
    BY <1>5 DEF Commit, Begin, InUse
  <2>4. \A x \in Ids : Agrees(records'[x], Effect(e, x, LoggedIn(wal, Len(wal), x)), x \in unlogged', x \in decayed')
    <3> SUFFICES ASSUME NEW x \in Ids
                 PROVE  Agrees(records'[x], Effect(e, x, LoggedIn(wal, Len(wal), x)), x \in unlogged', x \in decayed')
      OBVIOUS
    <3>1. CASE x = id
      <4>1. /\ records'[x] = rec /\ x \notin unlogged' /\ rec # Absent
            /\ Effect(e, x, LoggedIn(wal, Len(wal), x)) = AsRead(rec)
        BY <1>0, <2>1, <2>2, <2>a, <3>1, CellTypes DEF Upsert, Effect
      <4>2. /\ AsRead(rec) \in Record /\ AsRead(rec) # Absent
            /\ AsRead(rec).kind = rec.kind /\ AsRead(rec).status = rec.status
        BY <2>2, <4>1, CellTypes DEF AsRead, Record
      <4> QED BY <4>1, <4>2 DEF Agrees
    <3>2. CASE x # id
      <4>1. /\ records'[x] = records[x] /\ (x \in unlogged' <=> x \in unlogged)
            /\ x \in decayed' <=> x \in decayed
            /\ Effect(e, x, LoggedIn(wal, Len(wal), x)) = LoggedIn(wal, Len(wal), x)
        BY <1>0, <2>1, <2>2, <3>2 DEF Upsert, Effect
      <4> QED BY <1>a, <2>3, <4>1 DEF Agrees
    <3> QED BY <3>1, <3>2
  <2>5. /\ AppendOk(e) /\ edges' = edges \cup e.edge
        /\ byKind' = [byKind EXCEPT ![e.rec.kind] = Append(@, e.id)]
    BY <2>1, <2>2, <2>3 DEF Upsert
  <2> HIDE DEF e
  <2>6. EdgesInPlace' /\ Memory'
    BY <1>k, <2>2, <2>3, <2>4, <2>5, <2>a, MemoryLogged DEF Memory
  <2> QED BY <1>s, <2>3, <2>6
<1>6. CASE AddEdge
  <2>1. PICK x \in Edge : /\ AppendOk(Entry("add_edge", x.from, Absent, {x}))
                          /\ edges' = edges \cup {x}
    BY <1>6 DEF AddEdge
  <2> DEFINE e == Entry("add_edge", x.from, Absent, {x})
  <2>2. e \in NewLines /\ e.op = "add_edge" /\ e.edge = {x}
    BY <1>0, EntriesAreNew DEF Entry
  <2>3. UNCHANGED <<records, byKind, unlogged, decayed, pc, struck>> /\ InUse /\ InUse'
    BY <1>6 DEF AddEdge, Begin, InUse
  <2>4. \A id \in Ids : Agrees(records'[id], Effect(e, id, LoggedIn(wal, Len(wal), id)), id \in unlogged', id \in decayed')
    BY <1>a, <2>2, <2>3 DEF Effect, Accepted
  <2>5. AppendOk(e) /\ edges' = edges \cup e.edge
    BY <2>1, <2>2
  <2> HIDE DEF e
  <2>6. EdgesInPlace' /\ Memory'
    BY <1>k, <2>2, <2>3, <2>4, <2>5, MemoryLogged DEF Memory, Accepted
  <2> QED BY <1>s, <2>3, <2>6
<1>7. CASE CallFails \/ RollbackFails
  <2>1. PICK e \in NewLines : AppendErr(e) /\ InUse /\ InUse'
    BY <1>7, Appends
  <2>2. UNCHANGED wal /\ "torn_append" \notin struck
    BY <2>1 DEF AppendErr, file
  <2>3. UNCHANGED <<records, byKind, edges, unlogged, decayed>>
    BY <1>7 DEF CallFails, RollbackFails, memory
  <2>4. Memory'
    BY <1>k, <2>1, <2>2, <2>3 DEF Memory
  <2> QED BY <1>h, <1>s, <2>1, <2>2, <2>4
<1>8. CASE Rollback
  <2>1. UNCHANGED <<wal, byKind, edges, struck>> /\ InUse /\ InUse'
    BY <1>8 DEF Rollback, Begin, InUse, file
  <2>2. \A id \in Ids : Moved(id)
    BY <1>8, RollbackMoves
  <2>3. Memory'
    BY <1>c, <1>k, <2>1, <2>2, MemoryMoves DEF Memory
  <2> QED BY <1>h, <1>s, <2>1, <2>3
<1>9. CASE LogRollback
  <2> DEFINE e == Entry("rollback", root, Absent, {})
  <2>1. /\ AppendOk(e) /\ UNCHANGED <<records, byKind, edges, unlogged, decayed, struck>>
        /\ InUse /\ InUse'
    BY <1>9 DEF LogRollback, memory, InUse
  <2>2. e \in NewLines /\ e.op = "rollback" /\ e.edge = {}
    BY <1>0, EntriesAreNew DEF Entry, ETypeOK
  <2>3. \A id \in Ids : Agrees(records'[id], Effect(e, id, LoggedIn(wal, Len(wal), id)), id \in unlogged', id \in decayed')
    BY <1>a, <2>1, <2>2 DEF Effect, Accepted
  <2> HIDE DEF e
  <2>4. EdgesInPlace' /\ Memory'
    BY <1>k, <2>1, <2>2, <2>3, MemoryLogged DEF Memory, Accepted
  <2> QED BY <1>s, <2>1, <2>4
<1>10. CASE LogInvalidate
  <2>1. PICK n \in NextToLog : AppendOk(Entry("invalidate", n, Absent, {})) /\ unlogged' = unlogged \ {n}
    BY <1>10 DEF LogInvalidate
  <2> DEFINE e == Entry("invalidate", n, Absent, {})
  <2>2. UNCHANGED <<records, byKind, edges, decayed, struck>> /\ InUse /\ InUse'
    BY <1>10 DEF LogInvalidate, memory, InUse
  <2>3. n \in Ids /\ records[n] \in Record /\ records[n].status = "Invalidated"
    BY <1>0 DEF NextToLog, TodoInv, ETypeOK
  <2>4. e \in NewLines /\ e.op = "invalidate" /\ e.id = n /\ e.edge = {}
    BY <1>0, <2>3, EntriesAreNew DEF Entry
  <2>5. \A id \in Ids : Agrees(records'[id], Effect(e, id, LoggedIn(wal, Len(wal), id)), id \in unlogged', id \in decayed')
    <3> SUFFICES ASSUME NEW id \in Ids
                 PROVE  Agrees(records[id], Effect(e, id, LoggedIn(wal, Len(wal), id)), id \in unlogged', id \in decayed)
      BY <2>2
    <3>1. Agrees(records[id], LoggedIn(wal, Len(wal), id), id \in unlogged, id \in decayed)
      BY <1>a, <2>2
    <3>2. CASE id # n
      BY <2>1, <2>4, <3>1, <3>2 DEF Effect, Agrees
    <3>3. CASE id = n
      <4>1. LoggedIn(wal, Len(wal), id) \in Cell
        BY <1>c, <2>2
      <4>2. Effect(e, id, LoggedIn(wal, Len(wal), id)) = Invalidated(LoggedIn(wal, Len(wal), id))
        BY <2>4, <3>3 DEF Effect, Accepted
      <4>3. ASSUME NEW rec \in Record, rec.status = "Invalidated", NEW logged \in Cell,
                   Agrees(rec, logged, id \in unlogged, id \in decayed)
            PROVE  Agrees(rec, Invalidated(logged), FALSE, id \in decayed)
        <5>1. logged \in Record /\ logged # Absent /\ rec # Absent
          BY <4>3, CellTypes DEF Agrees, Cell
        <5>2. Invalidated(logged) = [logged EXCEPT !.status = "Invalidated"]
          BY <5>1 DEF Invalidated
        <5>3. /\ Invalidated(logged).kind = logged.kind /\ Invalidated(logged).conf = logged.conf
              /\ Invalidated(logged).status = "Invalidated" /\ Invalidated(logged) # Absent
          BY <5>1, <5>2 DEF Record, Absent
        <5> QED BY <4>3, <5>1, <5>3 DEF Agrees
      <4>4. Agrees(records[id], Invalidated(LoggedIn(wal, Len(wal), id)), FALSE, id \in decayed)
        BY <2>3, <3>1, <3>3, <4>1, <4>3
      <4>5. (id \in unlogged') = FALSE
        BY <2>1, <3>3
      <4> QED BY <4>2, <4>4, <4>5
    <3> QED BY <3>2, <3>3
  <2> HIDE DEF e
  <2>6. AppendOk(e)
    BY <2>1 DEF e
  <2>7. EdgesInPlace' /\ Memory'
    BY <1>k, <2>2, <2>4, <2>5, <2>6, MemoryLogged DEF Memory, Accepted
  <2> QED BY <1>s, <2>2, <2>7
<1>11. CASE PyDelete
  <2>1. PICK id \in Ids : /\ records' = [records EXCEPT ![id] = Invalidated(records[id])]
                          /\ unlogged' = unlogged \cup {x \in {id} : records[x].status = "Active"}
    BY <1>11 DEF PyDelete
  <2>2. UNCHANGED <<wal, byKind, edges, struck>> /\ InUse /\ InUse'
    BY <1>11 DEF PyDelete, Begin, InUse, file
  <2>3. ASSUME NEW x \in Ids PROVE Moved(x)
    <3>1. decayed' = decayed
      BY <1>11 DEF PyDelete
    <3>2. CASE x # id \/ records[x] = Absent
      <4>1. Absent.status # "Active"
        BY DEF Absent
      <4>2. records'[x] = records[x] /\ (x \in unlogged' <=> x \in unlogged)
        BY <1>0, <2>1, <3>2, <4>1 DEF Invalidated
      <4> QED BY <3>1, <4>2 DEF Moved
    <3>3. CASE x = id /\ records[x] # Absent
      <4>1. records[x] \in Record /\ records'[x] = [records[x] EXCEPT !.status = "Invalidated"]
        BY <1>0, <2>1, <3>3 DEF Invalidated, Cell
      <4>2. /\ records'[x] \in Record /\ records'[x].kind = records[x].kind
            /\ records'[x].status = "Invalidated" /\ records'[x].conf = records[x].conf
        BY <4>1 DEF Record
      <4>3. x \in unlogged' <=> (x \in unlogged \/ records[x].status = "Active")
        BY <2>1, <3>3
      <4> QED BY <3>1, <4>1, <4>2, <4>3 DEF Moved
    <3> QED BY <3>2, <3>3
  <2>4. Memory'
    BY <1>c, <1>k, <2>2, <2>3, MemoryMoves DEF Memory
  <2> QED BY <1>h, <1>s, <2>2, <2>4
<1>12. CASE UNCHANGED evars
  BY <1>12, <1>h, <1>k, <1>p DEF evars, Seen, LiveInv
<1> QED BY <1>1, <1>2, <1>3, <1>4, <1>5, <1>6, <1>7, <1>8, <1>9, <1>10, <1>11, <1>12 DEF ENext

\* What the log says is told by all of its lines, since all of them parse.
LEMMA LiveReplayed ==
    ASSUME ETypeOK, ChainInv, LiveInv
    PROVE  LiveIsReplayed
<1> SUFFICES ASSUME InUse, "torn_append" \notin struck, AllAccepted
             PROVE  /\ edges = LoggedEdges
                    /\ \A k \in Kinds : InLogOrder(k)
                    /\ \A id \in Ids :
                         /\ records[id].kind = Logged(id).kind
                         /\ (records[id].status # Logged(id).status) <=> id \in unlogged
                         /\ id \in decayed \/ Logged(id).conf \in {records[id].conf, AsRead(records[id]).conf}
  BY DEF LiveIsReplayed
<1>1. Parsed = 1..Len(wal)
  BY DEF ChainInv, Linked, Parsed, ETypeOK
<1>2. MemoryIs(wal, Len(wal), records, byKind, edges, unlogged, decayed)
  BY DEF LiveInv, Seen, InUse
<1>3. LoggedEdges = EdgesIn(wal, Len(wal))
  BY <1>1 DEF LoggedEdges, EdgesIn, ParsedIn, Parsed
<1>4. ASSUME NEW k \in Kinds PROVE InLogOrder(k)
  <2>1. Pushes(k) = PushesIn(wal, Len(wal), k)
    BY <1>1 DEF Pushes, PushesIn
  <2> QED BY <1>2, <2>1 DEF MemoryIs, Pushed, InLogOrder
<1>5. ASSUME NEW id \in Ids PROVE Logged(id) = LoggedIn(wal, Len(wal), id)
  <2>1. /\ Upserts(id) = UpsIn(wal, Len(wal), id)
        /\ Invalidations(id) = InvsIn(wal, Len(wal), id)
    BY <1>1 DEF Upserts, Invalidations, UpsIn, InvsIn
  <2> QED BY <2>1 DEF Logged, LoggedIn
<1>6. \A id \in Ids : Agrees(records[id], Logged(id), id \in unlogged, id \in decayed)
  BY <1>2, <1>5 DEF MemoryIs
<1> QED BY <1>2, <1>3, <1>4, <1>6 DEF MemoryIs, Agrees

\* While replay accepts every upsert in the log, a handle in use holds what a
\* reopening would rebuild from the file, but for
\* the status of the records that were invalidated in memory only, all of
\* which a reopening has active again, and for confidences that a rollback has
\* decayed or that do not read back as they were written.
THEOREM EsdbLiveIsReplayed == ESpec => []LiveIsReplayed
<1>1. ETypeOK /\ ChainInv /\ LiveInv /\ [ENext]_evars => (ETypeOK /\ ChainInv /\ LiveInv)'
  BY TypesStep, ChainStep, LiveStep
<1>2. ETypeOK /\ ChainInv /\ LiveInv => LiveIsReplayed
  BY LiveReplayed
<1> QED BY <1>1, <1>2, TypesInit, ChainInit, LiveInit, PTL DEF ESpec

-----------------------------------------------------------------------------
(* What a reopening finds, torn lines and all.                             *)

\* The position of the writer after n lines.
PositionIs(log, n) ==
    LET read == ParsedIn(log, n) IN
    IF read = {} THEN seq = 0 /\ prevHash = Genesis
    ELSE seq = log[Last(read)].seq /\ prevHash = Hash(log[Last(read)])

\* While a handle opens, what it has is what the lines read so far say.
RecoveryInv ==
    /\ EdgesInPlace
    /\ TodoInv
    /\ pc = "replay" =>
         /\ MemoryIs(wal, cursor, records, byKind, edges, unlogged, decayed)
         /\ \A id \in Ids : records[id] = LoggedIn(wal, cursor, id)
         /\ PositionIs(wal, cursor)

LEMMA RecoveryInit == EInit => RecoveryInv
BY LiveInit DEF EInit, RecoveryInv, LiveInv, EdgesInPlace

\* A failed append leaves unreadable lines or whole ones, never an edge in a
\* line that is not one of add_edge.
LEMMA EdgesStayInPlace ==
    ASSUME FileTypes, EdgesInPlace, NEW e \in NewLines, AppendOk(e) \/ AppendErr(e)
    PROVE  EdgesInPlace'
<1>1. \/ wal' = wal
      \/ \E line \in {Garbage, NotUtf8, e} : wal' = AppendLine(line)
  BY DEF AppendOk, AppendErr, file
<1>2. CASE wal' = wal
  BY <1>2 DEF EdgesInPlace
<1>3. ASSUME NEW line \in {Garbage, NotUtf8, e}, wal' = AppendLine(line) PROVE EdgesInPlace'
  <2>1. line \in Line /\ (line.op \notin {"add_edge", "garbage"} => line.edge = {})
    BY GarbageLine DEF NewLines
  <2>2. \A part \in {Garbage, NotUtf8} : part.op = "garbage"
    BY GarbageLine
  <2>3. \A i \in DOMAIN wal' : wal'[i] \in {line, Garbage, NotUtf8} \/ (i \in DOMAIN wal /\ wal'[i] = wal[i])
    <3> DEFINE new == AppendLine(line)
    <3>1. /\ new \in Seq(Line) /\ wal \in Seq(Line)
          /\ torn => Len(new) = Len(wal) /\ new[Len(wal)] \in {Garbage, NotUtf8}
          /\ ~torn => Len(new) = Len(wal) + 1 /\ new[Len(wal) + 1] = line
          /\ \A i \in 1..Len(wal) : (torn => i # Len(wal)) => new[i] = wal[i]
      BY <2>1, AppendedLines DEF FileTypes
    <3> HIDE DEF new
    <3>2. DOMAIN new = 1..Len(new) /\ DOMAIN wal = 1..Len(wal) /\ Len(wal) \in Nat
      BY <3>1
    <3>3. CASE torn
      BY <3>1, <3>2, <3>3, <1>3 DEF new
    <3>4. CASE ~torn
      <4>n. DOMAIN new = 1..(Len(wal) + 1) /\ Len(wal) \in Nat
        BY <3>1, <3>2, <3>4
      <4>1. \A i \in DOMAIN new : i = Len(wal) + 1 \/ i \in 1..Len(wal)
        BY <4>n
      <4>2. \A i \in DOMAIN new : new[i] = line \/ (i \in DOMAIN wal /\ new[i] = wal[i])
        BY <3>1, <3>2, <3>4, <4>1
      <4> QED BY <4>2, <1>3 DEF new
    <3> QED BY <3>3, <3>4 DEF FileTypes
  <2> QED BY <2>1, <2>2, <2>3 DEF EdgesInPlace
<1> QED BY <1>1, <1>2, <1>3

LEMMA PositionRead ==
    ASSUME ETypeOK, ReplayEntry, PositionIs(wal, cursor)
    PROVE  PositionIs(wal, cursor)'
<1> DEFINE e == wal[cursor + 1]
           read == ParsedIn(wal, cursor)
           more == ParsedIn(wal, cursor + 1)
<1>1. cursor \in Nat /\ cursor' = cursor + 1 /\ wal' = wal /\ Position(e)
  BY DEF ETypeOK, ReplayEntry, file
<1>2. 1..(cursor + 1) = (1..cursor) \cup {cursor + 1}
  BY <1>1
<1>3. more = read \cup (IF e.op = "garbage" THEN {} ELSE {cursor + 1}) /\ read \subseteq 1..cursor
  BY <1>2 DEF ParsedIn
<1>4. PositionIs(wal, cursor)' <=> (IF more = {} THEN seq' = 0 /\ prevHash' = Genesis
                                    ELSE seq' = wal[Last(more)].seq /\ prevHash' = Hash(wal[Last(more)]))
  BY <1>1 DEF PositionIs
<1>5. CASE e.op = "garbage"
  <2>1. more = read /\ seq' = seq /\ prevHash' = prevHash
    BY <1>1, <1>3, <1>5 DEF Position, writer
  <2>2. IF read = {} THEN seq = 0 /\ prevHash = Genesis
        ELSE seq = wal[Last(read)].seq /\ prevHash = Hash(wal[Last(read)])
    BY DEF PositionIs
  <2> HIDE DEF more, read
  <2> QED BY <1>4, <2>1, <2>2
<1>6. CASE e.op # "garbage"
  <2>1. cursor + 1 \in more /\ more \subseteq Nat /\ \A j \in more : j <= cursor + 1
    BY <1>1, <1>3, <1>6
  <2>2. seq' = e.seq /\ prevHash' = Hash(e)
    BY <1>1, <1>6 DEF Position
  <2> HIDE DEF more, read
  <2>3. Last(more) = cursor + 1
    BY <1>1, <2>1, LastIs
  <2> QED BY <1>4, <2>1, <2>2, <2>3 DEF e
<1> QED BY <1>5, <1>6

LEMMA RecoveryStep == ETypeOK /\ RecoveryInv /\ [ENext]_evars => RecoveryInv'
<1> SUFFICES ASSUME ETypeOK, RecoveryInv, [ENext]_evars PROVE RecoveryInv'
  OBVIOUS
<1>1. TodoInv'
  BY TodoStep DEF RecoveryInv
<1>2. EdgesInPlace'
  <2>1. FileTypes
    BY DEF ETypeOK, FileTypes
  <2>2. CASE wal' = wal
    BY <2>2 DEF RecoveryInv, EdgesInPlace
  <2>3. CASE Commit \/ AddEdge \/ LogRollback \/ LogInvalidate \/ CallFails \/ RollbackFails
    <3>1. \E e \in NewLines : AppendOk(e) \/ AppendErr(e)
      BY <2>3, Appends
    <3> QED BY <2>1, <3>1, EdgesStayInPlace DEF RecoveryInv
  <2>4. CASE Open \/ ReplayEntry \/ Opened \/ OpenFails \/ Crash \/ Rollback \/ PyDelete \/ UNCHANGED evars
    BY <2>2, <2>4 DEF Open, ReplayEntry, Opened, OpenFails, Crash, Rollback, PyDelete, file, evars
  <2> QED BY <2>3, <2>4 DEF ENext
<1> DEFINE Recovered == /\ MemoryIs(wal, cursor, records, byKind, edges, unlogged, decayed)
                        /\ \A id \in Ids : records[id] = LoggedIn(wal, cursor, id)
                        /\ PositionIs(wal, cursor)
<1>3. ASSUME pc' = "replay" PROVE Recovered'
  <2>1. CASE Open
    <3>1. /\ wal' = wal /\ cursor' = 0 /\ unlogged' = {} /\ decayed' = {}
          /\ seq' = 0 /\ prevHash' = Genesis
          /\ records' = NoRecords /\ byKind' = NoIndex /\ edges' = {}
      BY <2>1 DEF Open, file
    <3>2. ParsedIn(wal, 0) = {} /\ \A id : UpsIn(wal, 0, id) = {}
      BY DEF ParsedIn, UpsIn
    <3>3. MemoryIs(wal, cursor, records, byKind, edges, unlogged, decayed)'
      BY <3>1, NothingSeen
    <3>4. PositionIs(wal, cursor)'
      BY <3>1, <3>2 DEF PositionIs
    <3>5. \A id \in Ids : (records[id] = LoggedIn(wal, cursor, id))'
      BY <3>1, <3>2 DEF LoggedIn, NoRecords
    <3> QED BY <3>3, <3>4, <3>5
  <2>2. CASE ReplayEntry
    <3>1. pc = "replay" /\ Recovered /\ unlogged = {} /\ decayed = {} /\ EdgesInPlace
      BY <2>2 DEF ReplayEntry, RecoveryInv, TodoInv
    <3>2. MemoryIs(wal, cursor, records, byKind, edges, unlogged, decayed)'
      BY <2>2, <3>1, MemoryRead
    <3>3. PositionIs(wal, cursor)'
      BY <2>2, <3>1, PositionRead
    <3>4. ASSUME NEW id \in Ids PROVE (records[id] = LoggedIn(wal, cursor, id))'
      <4>1. /\ cursor \in Nat /\ cursor' = cursor + 1 /\ wal' = wal /\ Replay(wal[cursor + 1])
            /\ records \in [Ids -> Cell] /\ \A i \in 1..cursor : wal[i] \in Line
        BY <2>2 DEF ETypeOK, ReplayEntry, file
      <4>2. HasLast(UpsIn(wal, cursor, id)) /\ records[id] = LoggedIn(wal, cursor, id)
        BY <3>1 DEF MemoryIs
      <4>3. LoggedIn(wal, cursor + 1, id) = Effect(wal[cursor + 1], id, LoggedIn(wal, cursor, id))
        BY <4>1, <4>2, LoggedExtend
      <4>4. records'[id] = Effect(wal[cursor + 1], id, records[id])
        BY <4>1 DEF Replay, Upsert, Effect, Accepted, memory
      <4> QED BY <4>1, <4>2, <4>3, <4>4
    <3> QED BY <3>2, <3>3, <3>4
  <2>3. CASE UNCHANGED evars
    BY <1>3, <2>3 DEF evars, RecoveryInv, PositionIs
  <2>4. CASE Opened \/ OpenFails \/ Crash
    BY <1>3, <2>4 DEF Opened, OpenFails, Crash
  <2>5. CASE Commit \/ AddEdge \/ LogRollback \/ LogInvalidate \/ CallFails \/ RollbackFails
    BY <1>3, <2>5, Appends DEF InUse
  <2>6. CASE Rollback \/ PyDelete
    BY <1>3, <2>6 DEF Rollback, PyDelete, Begin
  <2> QED BY <2>1, <2>2, <2>3, <2>4, <2>5, <2>6 DEF ENext
<1> QED BY <1>1, <1>2, <1>3 DEF RecoveryInv

\* Whatever appends failed or were cut half way, and wherever the process
\* died before, replay_full gives every record its last accepted upsert and
\* invalidation, every edge and the index in the order of the log, and
\* last_seq_and_hash the number and hash of the last readable entry
\* (replay.rs:22-66, wal.rs:85-107).
THEOREM EsdbOpeningRecovers == ESpec => []OpeningRecovers
<1>1. ETypeOK /\ RecoveryInv => OpeningRecovers
  <2> SUFFICES ASSUME ETypeOK, RecoveryInv, pc = "replay", cursor = Len(wal)
               PROVE  /\ \A id \in Ids : records[id] = Logged(id)
                      /\ edges = LoggedEdges
                      /\ \A k \in Kinds : InLogOrder(k)
                      /\ IF Parsed = {} THEN seq = 0 /\ prevHash = Genesis
                         ELSE seq = wal[Last(Parsed)].seq /\ prevHash = Hash(wal[Last(Parsed)])
    BY DEF OpeningRecovers
  <2>1. DOMAIN wal = 1..Len(wal)
    BY DEF ETypeOK
  <2>2. Parsed = ParsedIn(wal, Len(wal))
    BY <2>1 DEF Parsed, ParsedIn
  <2>3. /\ MemoryIs(wal, Len(wal), records, byKind, edges, unlogged, decayed)
        /\ \A id \in Ids : records[id] = LoggedIn(wal, Len(wal), id)
        /\ PositionIs(wal, Len(wal))
    BY DEF RecoveryInv
  <2>4. ASSUME NEW id \in Ids PROVE Logged(id) = LoggedIn(wal, Len(wal), id)
    <3>1. /\ Upserts(id) = UpsIn(wal, Len(wal), id)
          /\ Invalidations(id) = InvsIn(wal, Len(wal), id)
      BY <2>1 DEF Upserts, Invalidations, UpsIn, InvsIn, Parsed, Accepted
    <3> QED BY <3>1 DEF Logged, LoggedIn
  <2>5. ASSUME NEW k \in Kinds PROVE InLogOrder(k)
    <3>1. Pushes(k) = PushesIn(wal, Len(wal), k)
      BY <2>1 DEF Pushes, PushesIn, Parsed, Accepted
    <3> QED BY <2>3, <3>1 DEF MemoryIs, Pushed, InLogOrder
  <2>6. edges = LoggedEdges
    BY <2>2, <2>3 DEF MemoryIs, EdgesIn, LoggedEdges
  <2> QED BY <2>2, <2>3, <2>4, <2>5, <2>6 DEF PositionIs
<1>2. ETypeOK /\ RecoveryInv /\ [ENext]_evars => (ETypeOK /\ RecoveryInv)'
  BY TypesStep, RecoveryStep
<1> QED BY <1>1, <1>2, TypesInit, RecoveryInit, PTL DEF ESpec
====
