---- MODULE BridgeProofs ----
(***************************************************************************)
(* Proofs about Migration and Bridge, for every set of ids and every       *)
(* content of the JSON files, and without the bounds that TLC needs.       *)
(***************************************************************************)
EXTENDS Bridge, FiniteSetTheorems, SequenceTheorems, TLAPS

LEMMA ItemsType ==
    ASSUME NEW items \in Listings, NEW kind \in FileKinds
    PROVE  /\ items \in Seq(Item)
           /\ WithKind(items, kind) \in Seq(Entry)
           /\ Len(WithKind(items, kind)) = Len(items)
           /\ \A i \in 1..Len(items) : WithKind(items, kind)[i] = [item |-> items[i], kind |-> kind]
<1>1. items \in Seq(Item)
  BY MigrationAssumption
<1>2. DOMAIN items = 1..Len(items) /\ Len(items) \in Nat
  BY <1>1
<1>3. WithKind(items, kind) = [i \in 1..Len(items) |-> [item |-> items[i], kind |-> kind]]
  BY <1>2 DEF WithKind
<1>4. \A i \in 1..Len(items) : [item |-> items[i], kind |-> kind] \in Entry
  BY <1>1, <1>2 DEF Entry
<1>5. WithKind(items, kind) \in [1..Len(items) -> Entry]
  BY <1>3, <1>4
<1>6. WithKind(items, kind) \in Seq(Entry)
  BY <1>2, <1>5, SeqDef
<1>7. Len(WithKind(items, kind)) = Len(items)
  BY <1>2, <1>3, <1>6
<1> QED BY <1>1, <1>2, <1>3, <1>6, <1>7

-----------------------------------------------------------------------------
(* Types.                                                                  *)

LEMMA ImportedType ==
    ASSUME NEW item \in Item, NEW kind \in FileKinds
    PROVE  Imported(item, kind) \in Record
BY DEF Imported, Record, Item, Kinds, Statuses, Mapped

LEMMA BridgeTypeInit == BInit => BTypeOK
<1> SUFFICES ASSUME BInit PROVE BTypeOK
  OBVIOUS
<1>1. MTypeOK
  <2>1. /\ file \in FileKinds /\ raw \in Seq(Item)
        /\ batch \in Seq(Entry)
        /\ counts \in [imported : Nat, skipped : Nat]
    BY DEF BInit, MInit, NoCall, FileKinds
  <2>2. edits \in 0..MaxEdits /\ migrations \in 0..MaxMigrations /\ writes \in 0..MaxWrites
    BY MigrationAssumption DEF BInit, MInit
  <2>3. db \in [Ids -> Record \cup {NoRecord}] /\ kindsOf \in [Ids -> SUBSET Kinds]
    BY DEF BInit, MInit
  <2> QED BY <2>1, <2>2, <2>3 DEF BInit, MInit, MTypeOK
<1>2. lists \in [FileKinds -> {{}} \cup {{items} : items \in Listings}]
  BY DEF BInit
<1> QED BY <1>1, <1>2 DEF BInit, BTypeOK

LEMMA StoreType ==
    ASSUME MTypeOK, NEW id \in Ids, NEW record \in Record, Store(id, record)
    PROVE  db' \in [Ids -> Record \cup {NoRecord}] /\ wal' \in BOOLEAN
           /\ kindsOf' \in [Ids -> SUBSET Kinds]
BY DEF MTypeOK, Store, Record

LEMMA HeadType ==
    ASSUME MTypeOK, raw # <<>>
    PROVE  Head(raw) \in Item /\ Tail(raw) \in Seq(Item) /\ Len(Tail(raw)) = Len(raw) - 1
           /\ Len(raw) > 0
BY DEF MTypeOK

LEMMA MigrationTypeStep == MTypeOK /\ MNext => MTypeOK'
<1> SUFFICES ASSUME MTypeOK, MNext PROVE MTypeOK'
  OBVIOUS
<1>e. Ends => /\ pc' = "idle" /\ file' \in FileKinds /\ raw' \in Seq(Item)
              /\ batch' \in Seq(Entry)
              /\ counts' \in [imported : Nat, skipped : Nat]
  BY DEF Ends, FileKinds
<1>1. CASE EditFile
  <2>1. files' \in [FileKinds -> Listings]
    BY <1>1 DEF EditFile, MTypeOK
  <2>2. edits' \in 0..MaxEdits
    BY <1>1, MigrationAssumption DEF EditFile, MTypeOK
  <2> QED BY <1>1, <2>1, <2>2 DEF EditFile, MTypeOK, call
<1>2. CASE ChangeStatus
  <2>1. db' \in [Ids -> Record \cup {NoRecord}]
    <3>1. PICK id \in Ids, status \in {"hypothesis", "invalidated", "tombstone"} :
            db[id] # NoRecord /\ db' = [db EXCEPT ![id].status = status]
      BY <1>2 DEF ChangeStatus
    <3>2. db[id] \in Record
      BY <3>1 DEF MTypeOK
    <3>3. [db[id] EXCEPT !.status = status] \in Record
      BY <3>2 DEF Record, Statuses
    <3> QED BY <3>1, <3>3 DEF MTypeOK
  <2>2. writes' \in 0..MaxWrites
    BY <1>2, MigrationAssumption DEF ChangeStatus, MTypeOK
  <2> QED BY <1>2, <2>1, <2>2 DEF ChangeStatus, MTypeOK, call
<1>3. CASE Migrate
  BY <1>3, MigrationAssumption DEF Migrate, MTypeOK
<1>4. CASE ReadFile
  <2>1. files[file] \in Listings /\ file \in FileKinds
    BY DEF MTypeOK
  <2>2. raw' \in Seq(Item)
    BY <1>4, <2>1, ItemsType DEF ReadFile
  <2>3. WithKind(files[file], file) \in Seq(Entry)
    BY <2>1, ItemsType
  <2>4. batch' \in Seq(Entry)
    BY <1>4, <2>3 DEF ReadFile, MTypeOK
  <2> QED BY <1>4, <2>2, <2>4 DEF ReadFile, MTypeOK, bounds
<1>5. CASE PassOver \/ Skip
  <2>1. raw' \in Seq(Item)
    BY <1>5, HeadType DEF PassOver, Skip
  <2>2. counts' \in [imported : Nat, skipped : Nat]
    BY <1>5 DEF PassOver, Skip, MTypeOK
  <2> QED BY <1>5, <2>1, <2>2 DEF PassOver, Skip, MTypeOK, bounds
<1>6. CASE Import
  <2>1. Head(raw) \in Item /\ Head(raw).id \in Ids /\ raw' \in Seq(Item)
    BY <1>6, HeadType DEF Import, Changed, Item
  <2>2. counts' \in [imported : Nat, skipped : Nat]
    BY <1>6 DEF Import, MTypeOK
  <2>3. Imported(Head(raw), file) \in Record
    BY <2>1, ImportedType DEF MTypeOK
  <2>4. db' \in [Ids -> Record \cup {NoRecord}] /\ wal' \in BOOLEAN
        /\ kindsOf' \in [Ids -> SUBSET Kinds]
    BY <1>6, <2>1, <2>3, StoreType DEF Import
  <2> QED BY <1>6, <2>1, <2>2, <2>4 DEF Import, Changed, MTypeOK, bounds
<1>7. CASE BadStatus \/ BadConfidence
  BY <1>7, <1>e DEF BadStatus, BadConfidence, MTypeOK, bounds
<1>8. CASE ImportRaises
  <2>1. Head(raw) \in Item /\ Head(raw).id \in Ids
    BY <1>8, HeadType DEF ImportRaises, Changed, Item
  <2>2. Imported(Head(raw), file) \in Record
    BY <2>1, ImportedType DEF MTypeOK
  <2>3. db' \in [Ids -> Record \cup {NoRecord}] /\ wal' \in BOOLEAN
        /\ kindsOf' \in [Ids -> SUBSET Kinds]
    BY <1>8, <2>1, <2>2, StoreType DEF ImportRaises, MTypeOK
  <2> QED BY <1>8, <1>e, <2>3 DEF ImportRaises, MTypeOK, bounds
<1>9. CASE EndOfFile
  BY <1>9 DEF EndOfFile, MTypeOK, bounds, FileKinds
<1>10. CASE Return
  <2>1. settled' \in BOOLEAN
    BY <1>10 DEF Return
  <2> QED BY <1>10, <1>e, <2>1 DEF Return, MTypeOK, bounds
<1>11. CASE Crash
  BY <1>11, <1>e DEF Crash, MTypeOK, bounds
<1> QED BY <1>1, <1>2, <1>3, <1>4, <1>5, <1>6, <1>7, <1>8, <1>9, <1>10, <1>11
        DEF MNext, Migrating

LEMMA BridgeWriteType ==
    ASSUME BTypeOK
    PROVE  /\ GetStore \in [Ids -> Record \cup {NoRecord}]
           /\ Behind \in SUBSET Ids
           /\ \A id \in Ids, record \in Record :
                (Put(id, record) \/ PutRaises(id, record)) =>
                    /\ db' \in [Ids -> Record \cup {NoRecord}]
                    /\ held' \in [Ids -> Record \cup {NoRecord}]
                    /\ kindsOf' \in [Ids -> SUBSET Kinds]
                    /\ missed' \in SUBSET Ids
<1>1. GetStore \in [Ids -> Record \cup {NoRecord}] /\ Behind \in SUBSET Ids
  BY DEF GetStore, Behind, BTypeOK, MTypeOK
<1>2. ASSUME NEW id \in Ids, NEW record \in Record, Put(id, record) \/ PutRaises(id, record)
      PROVE  /\ db' \in [Ids -> Record \cup {NoRecord}]
             /\ held' \in [Ids -> Record \cup {NoRecord}]
             /\ kindsOf' \in [Ids -> SUBSET Kinds]
             /\ missed' \in SUBSET Ids
  <2>1. db \in [Ids -> Record \cup {NoRecord}] /\ kindsOf \in [Ids -> SUBSET Kinds]
    BY DEF BTypeOK, MTypeOK
  <2>2. record.kind \in Kinds
    BY DEF Record
  <2>3. Log(id, record) => /\ db' \in [Ids -> Record \cup {NoRecord}]
                           /\ kindsOf' \in [Ids -> SUBSET Kinds]
    BY <2>1, <2>2 DEF Log
  <2>4. CASE Put(id, record)
    BY <1>1, <2>3, <2>4 DEF Put
  <2>5. CASE PutRaises(id, record)
    BY <1>1, <2>1, <2>3, <2>5 DEF PutRaises
  <2> QED BY <1>2, <2>4, <2>5
<1> QED BY <1>1, <1>2

LEMMA BridgeTypeStep == BTypeOK /\ [BNext]_bvars => BTypeOK'
<1> SUFFICES ASSUME BTypeOK, [BNext]_bvars PROVE BTypeOK'
  OBVIOUS
<1>m. MTypeOK
  BY DEF BTypeOK
<1>1. CASE Elsewhere
  <2>1. MTypeOK'
    BY <1>1, <1>m, MigrationTypeStep DEF Elsewhere
  <2>2. missed' \in SUBSET Ids
    BY <1>1 DEF Elsewhere, BTypeOK
  <2> QED BY <1>1, <2>1, <2>2 DEF Elsewhere, BTypeOK
<1>2. CASE ReadStore
  <2>1. MTypeOK'
    BY <1>2, <1>m DEF ReadStore, MTypeOK, mvars, call, bounds
  <2> QED BY <1>2, <1>m, <2>1 DEF ReadStore, BTypeOK, MTypeOK
<1>3. CASE ReadLists
  <2>1. MTypeOK'
    BY <1>3, <1>m DEF ReadLists, MTypeOK, mvars, call, bounds
  <2>2. lists' \in [FileKinds -> {{}} \cup {{items} : items \in Listings}]
    <3>1. PICK kinds \in SUBSET FileKinds : lists' = [kind \in FileKinds |->
              IF kind \in kinds /\ lists[kind] = {} THEN {files[kind]} ELSE lists[kind]]
      BY <1>3 DEF ReadLists
    <3>2. \A kind \in FileKinds : files[kind] \in Listings
      BY <1>m DEF MTypeOK
    <3> QED BY <3>1, <3>2 DEF BTypeOK
  <2> QED BY <1>3, <2>1, <2>2 DEF ReadLists, BTypeOK
<1>4. CASE BridgeUpsert \/ BridgeDelete
  <2>w. MayWrite
    BY <1>4 DEF BridgeUpsert, BridgeDelete
  <2>1. /\ db' \in [Ids -> Record \cup {NoRecord}]
        /\ held' \in [Ids -> Record \cup {NoRecord}]
        /\ kindsOf' \in [Ids -> SUBSET Kinds]
        /\ missed' \in SUBSET Ids
    <3>1. CASE BridgeUpsert
      <4>1. PICK id \in Ids, kind \in Kinds, title \in Titles, rest \in Rests :
              LET record == [kind |-> kind, label |-> title, status |-> "active", rest |-> rest] IN
                  Put(id, record) \/ PutRaises(id, record)
        BY <3>1 DEF BridgeUpsert
      <4>2. [kind |-> kind, label |-> title, status |-> "active", rest |-> rest] \in Record
        BY DEF Record, Statuses
      <4> QED BY <4>1, <4>2, BridgeWriteType
    <3>2. CASE BridgeDelete
      <4>1. PICK id \in Ids :
              IF GetStore[id] = NoRecord
              THEN held' = GetStore /\ missed' = Behind /\ UNCHANGED <<db, kindsOf>>
              ELSE LET record == [GetStore[id] EXCEPT !.status = "tombstone"] IN
                       Put(id, record) \/ PutRaises(id, record)
        BY <3>2 DEF BridgeDelete
      <4>2. CASE GetStore[id] = NoRecord
        BY <1>m, <4>1, <4>2, BridgeWriteType DEF MTypeOK
      <4>3. CASE GetStore[id] # NoRecord
        <5>1. GetStore[id] \in Record
          BY <4>3, BridgeWriteType
        <5>2. [GetStore[id] EXCEPT !.status = "tombstone"] \in Record
          BY <5>1 DEF Record, Statuses
        <5> QED BY <4>1, <4>3, <5>2, BridgeWriteType
      <4> QED BY <4>2, <4>3
    <3> QED BY <1>4, <3>1, <3>2
  <2>2. writes' \in 0..MaxWrites
    BY <1>m, <2>w, MigrationAssumption DEF MayWrite, MTypeOK
  <2> QED BY <1>m, <2>w, <2>1, <2>2 DEF MayWrite, BTypeOK, MTypeOK, call
<1>5. CASE BridgeRestarts
  <2>1. MTypeOK'
    BY <1>5, <1>m DEF BridgeRestarts, MTypeOK, mvars, call, bounds
  <2> QED BY <1>5, <2>1 DEF BridgeRestarts, BTypeOK
<1>6. CASE UNCHANGED bvars
  BY <1>6 DEF bvars, mvars, call, bounds, BTypeOK, MTypeOK
<1> QED BY <1>1, <1>2, <1>3, <1>4, <1>5, <1>6 DEF BNext

\* Every variable of the migration and of the bridge keeps its type.
THEOREM BridgeTypeCorrect == BSpec => []BTypeOK
BY BridgeTypeInit, BridgeTypeStep, PTL DEF BSpec

-----------------------------------------------------------------------------
(* What a migration leaves behind.  The items still to come are the end of *)
(* the batch, and of those before them the last with each id is stored.    *)

Dealt == Len(batch) - Len(raw)

Coming ==
    /\ pc \in {"idle", "read", "done"} => raw = <<>>
    /\ pc = "idle" => batch = <<>>
    /\ Dealt >= 0
    /\ \A k \in 1..Len(raw) : batch[Dealt + k].item = raw[k]

LastDealt(i) == \A j \in 1..Dealt : batch[j].item.id = batch[i].item.id => j <= i

DealtIsStored ==
    \A i \in 1..Dealt :
        (batch[i].item.id # NoId /\ LastDealt(i)) => Unchanged(batch[i].item)

FollowInv == Coming /\ DealtIsStored

LEMMA FollowInit == BInit => FollowInv
BY DEF BInit, MInit, NoCall, FollowInv, Coming, DealtIsStored, Dealt

\* Steps between two migrations, or at the end of one.
LEMMA NothingToFollow ==
    ASSUME batch' = <<>>, raw' = <<>>
    PROVE  FollowInv'
BY DEF FollowInv, Coming, DealtIsStored, Dealt

LEMMA FollowRead == MTypeOK /\ FollowInv /\ ReadFile => FollowInv'
<1> SUFFICES ASSUME MTypeOK, FollowInv, ReadFile PROVE FollowInv'
  OBVIOUS
<1> DEFINE items == files[file]
           more == WithKind(items, file)
<1>1. items \in Listings /\ file \in FileKinds
  BY DEF MTypeOK
<1>2. /\ raw = <<>> /\ pc' = "items"
      /\ raw' = items /\ batch' = batch \o more /\ db' = db
  BY DEF ReadFile, FollowInv, Coming
<1>3. /\ more \in Seq(Entry) /\ Len(more) = Len(items)
      /\ items \in Seq(Item)
      /\ \A i \in 1..Len(items) : more[i].item = items[i]
  <2>1. \A i \in 1..Len(items) : more[i] = [item |-> items[i], kind |-> file]
    BY <1>1, ItemsType
  <2>2. more \in Seq(Entry) /\ Len(more) = Len(items)
        /\ items \in Seq(Item)
    BY <1>1, ItemsType
  <2>3. ASSUME NEW i \in 1..Len(items) PROVE more[i].item = items[i]
    <3> HIDE DEF items, more
    <3>1. more[i] = [item |-> items[i], kind |-> file]
      BY <2>1
    <3>2. [item |-> items[i], kind |-> file].item = items[i]
      OBVIOUS
    <3> QED BY <3>1, <3>2
  <2> QED BY <2>2, <2>3
<1>4. batch \in Seq(Entry)
  BY DEF MTypeOK
<1> HIDE DEF items, more
<1>5. /\ Len(batch') = Len(batch) + Len(items)
      /\ \A i \in 1..Len(batch) : batch'[i] = batch[i]
      /\ \A k \in 1..Len(items) : batch'[Len(batch) + k] = more[k]
  BY <1>2, <1>3, <1>4
<1>6. Dealt = Len(batch) /\ Dealt' = Len(batch)
  BY <1>2, <1>3, <1>4, <1>5 DEF Dealt
<1>7. Coming'
  BY <1>2, <1>3, <1>4, <1>5, <1>6 DEF Coming
<1>8. DealtIsStored'
  <2> SUFFICES ASSUME NEW i \in 1..Len(batch), batch'[i].item.id # NoId, LastDealt(i)'
               PROVE  Unchanged(batch[i].item)
    BY <1>2, <1>5, <1>6 DEF DealtIsStored, Unchanged
  <2>1. LastDealt(i)
    BY <1>5, <1>6 DEF LastDealt
  <2> QED BY <1>5, <1>6, <2>1 DEF FollowInv, DealtIsStored
<1> QED BY <1>7, <1>8 DEF FollowInv

\* One item of the batch is dealt with.
LEMMA FollowItem ==
    ASSUME MTypeOK, FollowInv, pc = "items", raw # <<>>,
           pc' = pc, raw' = Tail(raw), batch' = batch,
           \A item \in Item : (item = Head(raw) /\ item.id # NoId) => Unchanged(item)',
           \A id \in Ids : id # Head(raw).id => db'[id] = db[id]
    PROVE  FollowInv'
<1>1. raw \in Seq(Item) /\ batch \in Seq(Entry)
  BY DEF MTypeOK
<1>2. /\ Len(raw) > 0 /\ Len(raw') = Len(raw) - 1 /\ Head(raw) = raw[1]
      /\ \A k \in 1..Len(raw') : raw'[k] = raw[k + 1]
  BY <1>1
<1>3. Dealt \in Nat /\ Dealt' = Dealt + 1 /\ Dealt' <= Len(batch)
  BY <1>1, <1>2 DEF FollowInv, Coming, Dealt
<1>4. batch[Dealt'].item = Head(raw)
  BY <1>2, <1>3 DEF FollowInv, Coming
<1>5. Coming'
  BY <1>1, <1>2, <1>3 DEF FollowInv, Coming
<1>6. DealtIsStored'
  <2> SUFFICES ASSUME NEW i \in 1..Dealt', NEW item \in Item, item = batch[i].item,
                      item.id # NoId, LastDealt(i)'
               PROVE  Unchanged(item)'
    <3>1. ASSUME NEW i \in 1..Dealt' PROVE batch[i].item \in Item
      <4>1. i \in 1..Len(batch)
        BY <1>1, <1>3
      <4>2. batch[i] \in Entry
        BY <1>1, <4>1
      <4> QED BY <4>2 DEF Entry
    <3> QED BY <3>1 DEF DealtIsStored, Unchanged
  <2>1. CASE i = Dealt'
    BY <1>4, <2>1
  <2>2. CASE i # Dealt'
    <3>1. i \in 1..Dealt /\ LastDealt(i)
      BY <1>3, <2>2 DEF LastDealt
    <3>2. item.id # Head(raw).id
      BY <1>3, <1>4, <2>2 DEF LastDealt
    <3>3. item.id \in Ids
      BY DEF Item
    <3>4. Unchanged(item)
      BY <3>1 DEF FollowInv, DealtIsStored
    <3> QED BY <3>2, <3>3, <3>4 DEF Unchanged
  <2> QED BY <2>1, <2>2
<1> QED BY <1>5, <1>6 DEF FollowInv

\* An imported item is then as the file has it.
LEMMA ImportedIsUnchanged ==
    ASSUME MTypeOK, Changed, Store(Head(raw).id, Imported(Head(raw), file))
    PROVE  /\ \A item \in Item : item = Head(raw) => Unchanged(item)'
           /\ \A id \in Ids : id # Head(raw).id => db'[id] = db[id]
<1>1. Head(raw) \in Item /\ Head(raw).id \in Ids
  BY HeadType DEF Changed, Item
<1>2. db' = [db EXCEPT ![Head(raw).id] = Imported(Head(raw), file)]
      /\ db \in [Ids -> Record \cup {NoRecord}]
  BY DEF Store, MTypeOK
<1>3. db'[Head(raw).id] = Imported(Head(raw), file)
  BY <1>1, <1>2
<1>4. Imported(Head(raw), file).status # NoRecord.status
  BY DEF Imported, NoRecord, Mapped
<1>5. Imported(Head(raw), file) # NoRecord
  BY <1>4
<1>6. db'[Head(raw).id].label = Head(raw).title /\ db'[Head(raw).id].status = Mapped(Head(raw).gov)
  BY <1>3 DEF Imported
<1> QED BY <1>1, <1>2, <1>3, <1>5, <1>6 DEF Unchanged

LEMMA FollowStep == BTypeOK /\ FollowInv /\ [BNext]_bvars => FollowInv'
<1> SUFFICES ASSUME BTypeOK, FollowInv, [BNext]_bvars PROVE FollowInv'
  OBVIOUS
<1>m. MTypeOK
  BY DEF BTypeOK
<1>u. ASSUME UNCHANGED <<pc, raw, batch, db>> PROVE FollowInv'
  BY <1>u DEF FollowInv, Coming, DealtIsStored, LastDealt, Dealt, Unchanged
<1>b. pc = "idle" => batch = <<>> /\ raw = <<>>
  BY DEF FollowInv, Coming
<1>n. pc = "idle" /\ UNCHANGED <<raw, batch>> => FollowInv'
  BY <1>b, NothingToFollow
<1>1. CASE Elsewhere
  <2>1. CASE EditFile
    BY <1>u, <2>1 DEF EditFile, call
  <2>2. CASE ChangeStatus
    BY <1>n, <2>2 DEF ChangeStatus, call
  <2>3. CASE Migrate
    BY <1>n, <2>3 DEF Migrate
  <2>4. CASE ReadFile
    BY <1>m, <2>4, FollowRead
  <2>5. CASE PassOver
    BY <1>m, <2>5, FollowItem DEF PassOver
  <2>6. CASE Skip
    <3>1. \A item \in Item : (item = Head(raw) /\ item.id # NoId) => Unchanged(item)'
      BY <2>6 DEF Skip, Unchanged
    <3> QED BY <1>m, <2>6, <3>1, FollowItem DEF Skip
  <2>7. CASE Import
    <3>1. /\ \A item \in Item : item = Head(raw) => Unchanged(item)'
          /\ \A id \in Ids : id # Head(raw).id => db'[id] = db[id]
      BY <1>m, <2>7, ImportedIsUnchanged DEF Import
    <3> QED BY <1>m, <2>7, <3>1, FollowItem DEF Import, Changed
  <2>8. CASE BadStatus \/ BadConfidence \/ ImportRaises \/ Return \/ Crash
    BY <2>8, NothingToFollow DEF BadStatus, BadConfidence, ImportRaises, Return, Crash, Ends
  <2>9. CASE EndOfFile
    BY <2>9 DEF EndOfFile, FollowInv, Coming, DealtIsStored, LastDealt, Dealt, Unchanged
  <2> QED BY <1>1, <2>1, <2>2, <2>3, <2>4, <2>5, <2>6, <2>7, <2>8, <2>9
          DEF Elsewhere, MNext, Migrating
<1>2. CASE ReadStore \/ ReadLists \/ BridgeRestarts \/ UNCHANGED bvars
  BY <1>2, <1>u DEF ReadStore, ReadLists, BridgeRestarts, bvars, mvars, call
<1>3. CASE BridgeUpsert \/ BridgeDelete
  BY <1>3, <1>n DEF BridgeUpsert, BridgeDelete, MayWrite, call
<1> QED BY <1>1, <1>2, <1>3 DEF BNext

\* When the call is about to return, every item of its batch is dealt with.
LEMMA AllIsDealt ==
    ASSUME MTypeOK, FollowInv, pc = "done", NEW i \in Identified, LastOfId(i)
    PROVE  Unchanged(batch[i].item)
<1>1. batch \in Seq(Entry) /\ raw = <<>>
  BY DEF MTypeOK, FollowInv, Coming
<1>2. Dealt = Len(batch) /\ i \in 1..Dealt /\ batch[i].item.id # NoId
  BY <1>1 DEF Dealt, Identified
<1>3. LastDealt(i)
  BY <1>1, <1>2 DEF LastOfId, LastDealt, Identified
<1> QED BY <1>2, <1>3 DEF FollowInv, DealtIsStored

\* migrate_from_json (store.py): when it returns, every item that it read is
\* in the store, whatever had been there.
THEOREM MigratedIsStored == BSpec => []ListedIsStored
<1>1. BTypeOK /\ FollowInv => ListedIsStored
  BY AllIsDealt DEF BTypeOK, ListedIsStored, Unchanged, Mapped
<1> QED BY <1>1, FollowInit, FollowStep, BridgeTypeCorrect, PTL DEF BSpec

-----------------------------------------------------------------------------
(* Migrating again.  A settled store holds every item of the files, so that *)
(* a migration finds each of them unchanged.                               *)

FilesAreStored == settled => \A kind \in FileKinds : \A i \in DOMAIN files[kind] :
    files[kind][i].id # NoId => Unchanged(files[kind][i])

ComingFromFile == (settled /\ pc = "items") => \A k \in DOMAIN raw :
    \E i \in DOMAIN files[file] : raw[k] = files[file][i]

NothingImported == (settled \/ pc = "idle") => counts.imported = 0

SettledInv == FilesAreStored /\ ComingFromFile /\ NothingImported

LEMMA SettledInit == BInit => SettledInv
BY DEF BInit, MInit, NoCall, SettledInv, FilesAreStored, ComingFromFile, NothingImported

\* A settled store has nothing to import.
LEMMA SettledIsUnchanged ==
    ASSUME BTypeOK, SettledInv, settled
    PROVE  ~Changed
<1> SUFFICES ASSUME Changed PROVE FALSE
  OBVIOUS
<1>1. raw \in Seq(Item) /\ raw # <<>> /\ file \in FileKinds
  BY DEF BTypeOK, MTypeOK, Changed
<1>2. 1 \in DOMAIN raw /\ Head(raw) = raw[1]
  BY <1>1
<1>3. PICK i \in DOMAIN files[file] : raw[1] = files[file][i]
  BY <1>2 DEF SettledInv, ComingFromFile, Changed
<1> QED BY <1>1, <1>2, <1>3 DEF SettledInv, FilesAreStored, Changed

\* An item of the files is in OnDisk.
LEMMA ListedIsOnDisk ==
    ASSUME MTypeOK, NEW kind \in FileKinds, NEW i \in DOMAIN files[kind]
    PROVE  \E k \in DOMAIN OnDisk : OnDisk[k].item = files[kind][i]
<1> DEFINE R == files["requirement"]
           T == files["testcase"]
           wr == WithKind(R, "requirement")
           wt == WithKind(T, "testcase")
<1>1. R \in Listings /\ T \in Listings
  BY DEF MTypeOK, FileKinds
<1>2. /\ wr \in Seq(Entry) /\ wt \in Seq(Entry)
      /\ R \in Seq(Item) /\ T \in Seq(Item) /\ Len(wr) = Len(R) /\ Len(wt) = Len(T)
      /\ \A k \in 1..Len(R) : wr[k] = [item |-> R[k], kind |-> "requirement"]
      /\ \A k \in 1..Len(T) : wt[k] = [item |-> T[k], kind |-> "testcase"]
  BY <1>1, ItemsType DEF FileKinds
<1>3. OnDisk = wr \o wt
  BY DEF OnDisk
<1> HIDE DEF R, T, wr, wt
<1>4. CASE kind = "requirement"
  <2>1. i \in 1..Len(R)
    BY <1>2, <1>4 DEF R
  <2>2. i \in DOMAIN (wr \o wt) /\ (wr \o wt)[i] = wr[i]
    BY <1>2, <2>1
  <2>3. wr[i].item = R[i]
    <3>1. wr[i] = [item |-> R[i], kind |-> "requirement"]
      BY <1>2, <2>1
    <3> QED BY <3>1
  <2> QED BY <1>3, <1>4, <2>2, <2>3 DEF R
<1>5. CASE kind = "testcase"
  <2>1. i \in 1..Len(T)
    BY <1>2, <1>5 DEF T
  <2>2. Len(wr) + i \in DOMAIN (wr \o wt) /\ (wr \o wt)[Len(wr) + i] = wt[i]
    BY <1>2, <2>1
  <2>3. wt[i].item = T[i]
    <3>1. wt[i] = [item |-> T[i], kind |-> "testcase"]
      BY <1>2, <2>1
    <3> QED BY <3>1
  <2> QED BY <1>3, <1>5, <2>2, <2>3 DEF T
<1> QED BY <1>4, <1>5 DEF FileKinds

LEMMA SettledReturn == BTypeOK /\ FollowInv /\ Return => SettledInv'
<1> SUFFICES ASSUME BTypeOK, FollowInv, Return PROVE SettledInv'
  OBVIOUS
<1>1. pc = "done" /\ pc' = "idle" /\ counts'.imported = 0 /\ UNCHANGED <<files, db>>
  BY DEF Return, Ends
<1>2. ASSUME settled', NEW kind \in FileKinds, NEW i \in DOMAIN files[kind],
             files[kind][i].id # NoId
      PROVE  Unchanged(files[kind][i])
  <2>1. batch = OnDisk /\ OncePerId
    BY <1>2 DEF Return
  <2>2. PICK k \in DOMAIN batch : batch[k].item = files[kind][i]
    BY <2>1, ListedIsOnDisk DEF BTypeOK
  <2>3. k \in Identified /\ LastOfId(k)
    <3>1. k \in Identified
      BY <1>2, <2>2 DEF Identified
    <3>2. \A j \in Identified : batch[j].item.id = batch[k].item.id => j = k
      BY <2>1, <3>1 DEF OncePerId
    <3>3. k \in Nat
      BY <2>2 DEF BTypeOK, MTypeOK
    <3> QED BY <3>1, <3>2, <3>3 DEF LastOfId
  <2> QED BY <1>1, <2>2, <2>3, AllIsDealt DEF BTypeOK
<1> QED BY <1>1, <1>2 DEF SettledInv, FilesAreStored, ComingFromFile, NothingImported, Unchanged

LEMMA SettledStep == BTypeOK /\ FollowInv /\ SettledInv /\ [BNext]_bvars => SettledInv'
<1> SUFFICES ASSUME BTypeOK, FollowInv, SettledInv, [BNext]_bvars PROVE SettledInv'
  OBVIOUS
<1>u. UNCHANGED <<files, db, pc, file, raw, counts, settled>> => SettledInv'
  BY DEF SettledInv, FilesAreStored, ComingFromFile, NothingImported, Unchanged
<1>f. UNCHANGED <<files, db, settled>> => FilesAreStored'
  BY DEF SettledInv, FilesAreStored, Unchanged
<1>x. ~settled' /\ (pc' = "idle" => counts'.imported = 0) => SettledInv'
  BY DEF SettledInv, FilesAreStored, ComingFromFile, NothingImported
<1>e. Ends /\ UNCHANGED settled /\ (settled => UNCHANGED <<files, db>>) => SettledInv'
  BY <1>f DEF Ends, SettledInv, FilesAreStored, ComingFromFile, NothingImported
<1>c. pc = "idle" => counts.imported = 0
  BY DEF SettledInv, NothingImported
<1>1. CASE Elsewhere
  <2>1. CASE EditFile \/ ChangeStatus
    BY <1>c, <1>x, <2>1 DEF EditFile, ChangeStatus, call
  <2>2. CASE Migrate
    BY <1>f, <2>2 DEF Migrate, SettledInv, ComingFromFile, NothingImported
  <2>3. CASE ReadFile
    BY <1>f, <2>3 DEF ReadFile, bounds, SettledInv, ComingFromFile, NothingImported
  <2>4. CASE PassOver \/ Skip
    <3>1. /\ pc = "items" /\ raw # <<>> /\ raw' = Tail(raw) /\ pc' = pc /\ file' = file
          /\ UNCHANGED <<files, db, settled>>
      BY <2>4 DEF PassOver, Skip
    <3>2. raw \in Seq(Item)
      BY DEF BTypeOK, MTypeOK
    <3>3. \A k \in DOMAIN raw' : k + 1 \in DOMAIN raw /\ raw'[k] = raw[k + 1]
      BY <3>1, <3>2
    <3>4. ComingFromFile'
      BY <3>1, <3>3 DEF SettledInv, ComingFromFile
    <3>5. NothingImported'
      BY <2>4, <3>1 DEF PassOver, Skip, SettledInv, NothingImported, BTypeOK, MTypeOK
    <3> QED BY <1>f, <3>1, <3>4, <3>5 DEF SettledInv
  <2>5. CASE Import
    <3>1. ~settled
      BY <2>5, SettledIsUnchanged DEF Import
    <3> QED BY <1>x, <2>5, <3>1 DEF Import, Changed
  <2>6. CASE BadStatus \/ BadConfidence \/ ImportRaises \/ Crash
    <3>1. Ends /\ UNCHANGED settled
      BY <2>6 DEF BadStatus, BadConfidence, ImportRaises, Crash
    <3>2. settled => UNCHANGED <<files, db>>
      BY <2>6, SettledIsUnchanged DEF BadStatus, BadConfidence, ImportRaises, Crash
    <3> QED BY <1>e, <3>1, <3>2
  <2>7. CASE Return
    BY <2>7, SettledReturn
  <2>8. CASE EndOfFile
    BY <1>f, <2>8 DEF EndOfFile, bounds, SettledInv, ComingFromFile, NothingImported
  <2> QED BY <1>1, <2>1, <2>2, <2>3, <2>4, <2>5, <2>6, <2>7, <2>8
          DEF Elsewhere, MNext, Migrating
<1>2. CASE ReadStore \/ ReadLists \/ BridgeRestarts \/ UNCHANGED bvars
  BY <1>2, <1>u DEF ReadStore, ReadLists, BridgeRestarts, bvars, mvars, call
<1>3. CASE BridgeUpsert \/ BridgeDelete
  BY <1>3, <1>c, <1>x DEF BridgeUpsert, BridgeDelete, MayWrite, call
<1> QED BY <1>1, <1>2, <1>3 DEF BNext

\* migrate_from_json is idempotent: run again on files and a store that have
\* not changed since, it imports nothing.
THEOREM RerunAlwaysWritesNothing == BSpec => []RerunWritesNothing
<1>1. SettledInv => RerunWritesNothing
  BY DEF SettledInv, NothingImported, RerunWritesNothing
<1> QED BY <1>1, FollowInit, FollowStep, SettledInit, SettledStep, BridgeTypeCorrect, PTL DEF BSpec

-----------------------------------------------------------------------------
(* The bridge in front of migrated files.                                  *)

\* Every record has a kind it was written with, and is there because the log
\* is; the open store knows every record that it has not missed.
KindIsKnown == \A id \in Ids : db[id] # NoRecord => db[id].kind \in kindsOf[id]

LogExists == (held # NotHeld \/ \E id \in Ids : db[id] # NoRecord) => wal

MissedIsAll == held # NotHeld => \A id \in Ids : id \in missed \/ held[id] = db[id]

ViewInv == KindIsKnown /\ LogExists /\ MissedIsAll

\* A record is written under one of its kinds.
LEMMA KindWritten ==
    ASSUME BTypeOK, KindIsKnown, NEW id \in Ids, NEW record,
           db' = [db EXCEPT ![id] = record],
           kindsOf' = [kindsOf EXCEPT ![id] = @ \cup {record.kind}]
    PROVE  KindIsKnown'
BY DEF BTypeOK, MTypeOK, KindIsKnown

LEMMA ElsewhereView == BTypeOK /\ ViewInv /\ Elsewhere => ViewInv'
<1> SUFFICES ASSUME BTypeOK, ViewInv, Elsewhere PROVE ViewInv'
  OBVIOUS
<1>t. db \in [Ids -> Record \cup {NoRecord}]
  BY DEF BTypeOK, MTypeOK
<1>u. UNCHANGED <<db, kindsOf>> => KindIsKnown'
  BY DEF ViewInv, KindIsKnown
<1>s. ASSUME Changed, Store(Head(raw).id, Imported(Head(raw), file)) PROVE KindIsKnown'
  <2>1. Head(raw).id \in Ids
    BY <1>s, HeadType DEF BTypeOK, Changed, Item
  <2> QED BY <1>s, <2>1, KindWritten DEF Store, ViewInv
<1>1. CASE \/ EditFile \/ Migrate \/ ReadFile \/ PassOver \/ Skip \/ BadStatus \/ BadConfidence
           \/ EndOfFile \/ Return \/ Crash
  <2>1. UNCHANGED <<db, wal, kindsOf, held>>
    BY <1>1 DEF EditFile, Migrate, ReadFile, PassOver, Skip, BadStatus, BadConfidence, EndOfFile,
                Return, Crash, Elsewhere
  <2>2. LogExists'
    BY <2>1 DEF ViewInv, LogExists
  <2>3. MissedIsAll'
    BY <2>1 DEF ViewInv, MissedIsAll, Elsewhere
  <2> QED BY <1>u, <2>1, <2>2, <2>3 DEF ViewInv
<1>2. CASE ChangeStatus \/ Import \/ ImportRaises
  <2>1. KindIsKnown'
    <3>1. CASE ChangeStatus
      <4>1. PICK id \in Ids, status \in {"hypothesis", "invalidated", "tombstone"} :
              db[id] # NoRecord /\ db' = [db EXCEPT ![id].status = status]
        BY <3>1 DEF ChangeStatus
      <4>2. db[id] \in Record /\ kindsOf' = kindsOf
        BY <3>1, <4>1, <1>t DEF ChangeStatus
      <4>3. db'[id].kind = db[id].kind /\ \A i \in Ids : i # id => db'[i] = db[i]
        BY <4>1, <4>2, <1>t DEF Record
      <4> QED BY <4>1, <4>2, <4>3 DEF ViewInv, KindIsKnown
    <3>2. CASE Import \/ ImportRaises
      BY <1>s, <1>u, <3>2 DEF Import, ImportRaises
    <3> QED BY <1>2, <3>1, <3>2
  <2>2. wal' \/ UNCHANGED <<db, wal>>
    BY <1>2 DEF ChangeStatus, Import, ImportRaises, Store, ViewInv, LogExists
  <2>3. held' = held
    BY DEF Elsewhere
  <2>4. LogExists'
    BY <2>2, <2>3 DEF ViewInv, LogExists
  <2>5. ASSUME held' # NotHeld, NEW id \in Ids, id \notin missed' PROVE held'[id] = db'[id]
    <3>1. id \notin missed /\ db'[id] = db[id]
      BY <2>3, <2>5 DEF Elsewhere
    <3> QED BY <2>3, <2>5, <3>1 DEF ViewInv, MissedIsAll
  <2> QED BY <2>1, <2>4, <2>5 DEF ViewInv, MissedIsAll
<1> QED BY <1>1, <1>2 DEF Elsewhere, MNext, Migrating

LEMMA BridgeView == BTypeOK /\ ViewInv /\ [BNext]_bvars => ViewInv'
<1> SUFFICES ASSUME BTypeOK, ViewInv, [BNext]_bvars PROVE ViewInv'
  OBVIOUS
<1>t. db \in [Ids -> Record \cup {NoRecord}] /\ kindsOf \in [Ids -> SUBSET Kinds]
  BY DEF BTypeOK, MTypeOK
<1>1. CASE Elsewhere
  BY <1>1, ElsewhereView
<1>2. CASE ReadStore \/ ReadLists \/ BridgeRestarts \/ UNCHANGED bvars
  <2>1. UNCHANGED <<db, kindsOf, wal>>
    BY <1>2 DEF ReadStore, ReadLists, BridgeRestarts, bvars, mvars
  <2>2. KindIsKnown'
    BY <2>1 DEF ViewInv, KindIsKnown
  <2>3. LogExists'
    BY <1>2, <2>1 DEF ReadStore, ReadLists, BridgeRestarts, bvars, Opens, ViewInv, LogExists
  <2>4. MissedIsAll'
    BY <1>2, <2>1 DEF ReadStore, ReadLists, BridgeRestarts, bvars, ViewInv, MissedIsAll
  <2> QED BY <2>2, <2>3, <2>4 DEF ViewInv
<1>3. CASE BridgeUpsert \/ BridgeDelete
  <2>1. /\ GetStore \in [Ids -> Record \cup {NoRecord}]
        /\ \A id \in Ids : id \in Behind \/ GetStore[id] = db[id]
    BY <1>t, BridgeWriteType DEF GetStore, Behind, ViewInv, MissedIsAll
  <2>2. wal /\ wal'
    BY <1>3 DEF BridgeUpsert, BridgeDelete, MayWrite, Opens, ViewInv, LogExists
  <2>3. ASSUME NEW id \in Ids, NEW record, Put(id, record) \/ PutRaises(id, record)
        PROVE  KindIsKnown' /\ MissedIsAll'
    <3>1. Log(id, record) \/ UNCHANGED <<db, kindsOf>>
      BY <2>3 DEF Put, PutRaises
    <3>2. KindIsKnown'
      BY <3>1, KindWritten DEF Log, ViewInv, KindIsKnown
    <3>3. ASSUME NEW i \in Ids, i \notin missed' PROVE held'[i] = db'[i]
      <4>1. CASE Put(id, record)
        BY <1>t, <2>1, <3>3, <4>1 DEF Put, Log
      <4>2. CASE PutRaises(id, record) /\ Log(id, record) /\ missed' = Behind \cup {id}
        BY <1>t, <2>1, <3>3, <4>2 DEF PutRaises, Log
      <4>3. CASE PutRaises(id, record) /\ UNCHANGED <<db, kindsOf>> /\ missed' = Behind
        BY <2>1, <3>3, <4>3 DEF PutRaises
      <4> QED BY <2>3, <4>1, <4>2, <4>3 DEF PutRaises
    <3> QED BY <3>2, <3>3 DEF MissedIsAll
  <2>4. ASSUME held' = GetStore, missed' = Behind, UNCHANGED <<db, kindsOf>>
        PROVE  KindIsKnown' /\ MissedIsAll'
    BY <2>1, <2>4 DEF ViewInv, KindIsKnown, MissedIsAll
  <2>5. KindIsKnown' /\ MissedIsAll'
    <3>1. CASE BridgeUpsert
      BY <2>3, <3>1 DEF BridgeUpsert
    <3>2. CASE BridgeDelete
      BY <2>3, <2>4, <3>2 DEF BridgeDelete
    <3> QED BY <1>3, <3>1, <3>2
  <2> QED BY <2>2, <2>5 DEF ViewInv, LogExists
<1> QED BY <1>1, <1>2, <1>3 DEF BNext

\* bridge.py after migrate_from_json: _get_store and the reads answer with
\* every listed item that is not deprecated, but for the exceptions that
\* ListedAreAnswered names.
THEOREM ListedAreAlwaysAnswered == BSpec => []ListedAreAnswered
<1>1. BTypeOK /\ SettledInv /\ ViewInv => ListedAreAnswered
  <2> SUFFICES ASSUME BTypeOK, SettledInv, ViewInv, settled,
                      NEW kind \in FileKinds, NEW i \in DOMAIN files[kind],
                      NEW raises \in {WritesRaise, FALSE},
                      files[kind][i].id # NoId, files[kind][i].gov \notin Deprecating,
                      kindsOf[files[kind][i].id] = {kind},
                      ~(held # NotHeld /\ files[kind][i].id \in missed),
                      ~(held = NotHeld /\ raises /\ OldList(kind))
               PROVE  files[kind][i].id \in Answer(kind, raises)
    BY DEF ListedAreAnswered
  <2> DEFINE id == files[kind][i].id
  <2>1. id \in Ids
    <3>1. files[kind] \in Seq(Item)
      BY MigrationAssumption DEF BTypeOK, MTypeOK
    <3>2. files[kind][i] \in Item
      BY <3>1
    <3> QED BY <3>2 DEF Item
  <2>2. db[id] # NoRecord /\ db[id].status = "active"
    BY DEF SettledInv, FilesAreStored, Unchanged, Mapped
  <2>3. db[id].kind = kind /\ wal
    BY <2>1, <2>2 DEF ViewInv, KindIsKnown, LogExists
  <2>4. CASE held # NotHeld
    <3>1. held \in [Ids -> Record \cup {NoRecord}] /\ held[id] = db[id]
      BY <2>1, <2>4 DEF ViewInv, MissedIsAll, BTypeOK
    <3> QED BY <2>1, <2>2, <2>3, <2>4, <3>1 DEF Answer, OfKind
  <2>5. CASE held = NotHeld /\ ~raises
    <3>1. id \in OfKind(db, kind)
      BY <2>1, <2>2, <2>3 DEF OfKind, BTypeOK, MTypeOK
    <3> QED BY <2>3, <2>5, <3>1 DEF Answer, Opens
  <2>6. CASE held = NotHeld /\ raises
    <3>1. lists[kind] = {} \/ lists[kind] = {files[kind]}
      BY <2>6 DEF OldList
    <3>2. id \in Listed(files[kind])
      BY <2>6 DEF OldList, Listed
    <3>3. lists[kind] = {files[kind]} =>
            UNION {Listed(items) : items \in lists[kind]} = Listed(files[kind])
      OBVIOUS
    <3> QED BY <2>6, <3>1, <3>2, <3>3 DEF Answer
  <2> QED BY <2>4, <2>5, <2>6
<1>2. BInit => ViewInv
  BY DEF BInit, MInit, ViewInv, KindIsKnown, LogExists, MissedIsAll
<1> QED BY <1>1, <1>2, BridgeView, FollowInit, FollowStep, SettledInit, SettledStep,
           BridgeTypeCorrect, PTL DEF BSpec

-----------------------------------------------------------------------------
(* The end of a migration.                                                 *)

\* The reads and the loops over items that a call has before it.
Stage ==
    IF pc = "done" THEN 1
    ELSE (IF file = "requirement" THEN 4 ELSE 2) + (IF pc = "read" THEN 1 ELSE 0)

\* Every step of a migration ends it, or enters a later stage of it, or takes
\* an item from those to come; nothing that happens around it undoes that.
MigrationAdvances ==
    pc # "idle" =>
        \/ pc' = "idle"
        \/ Stage' < Stage
        \/ Stage' = Stage /\ raw # <<>> /\ raw' = Tail(raw)
        \/ ~Migrating /\ UNCHANGED <<pc, file, raw>>

MigrationsAdvance == [][MigrationAdvances]_bvars

\* migrate_from_json (store.py:420) comes to an end whatever the files hold and
\* however often they are edited during the call: each of the two is read once,
\* and each item that was read is dealt with once.
THEOREM MigrationsEnd == BSpec => MigrationsAdvance
<1>1. BTypeOK /\ [BNext]_bvars => [MigrationAdvances]_bvars
  <2> SUFFICES ASSUME BTypeOK, BNext, pc # "idle" PROVE MigrationAdvances
    BY DEF MigrationAdvances
  <2>1. pc \in {"read", "items", "done"} /\ file \in {"requirement", "testcase"}
    BY DEF BTypeOK, MTypeOK, FileKinds
  <2>2. CASE ReadFile
    <3>1. pc = "read" /\ pc' = "items" /\ file' = file
      BY <2>2 DEF ReadFile
    <3> QED BY <2>1, <3>1 DEF MigrationAdvances, Stage
  <2>3. CASE PassOver \/ Skip \/ Import
    <3>1. raw # <<>> /\ raw' = Tail(raw) /\ UNCHANGED <<pc, file>>
      BY <2>3 DEF PassOver, Skip, Import, Changed
    <3>2. Stage' = Stage
      BY <3>1 DEF Stage
    <3> QED BY <3>1, <3>2 DEF MigrationAdvances
  <2>4. CASE BadStatus \/ BadConfidence \/ ImportRaises \/ Return \/ Crash
    BY <2>4 DEF BadStatus, BadConfidence, ImportRaises, Return, Crash, Ends, MigrationAdvances
  <2>5. CASE EndOfFile
    <3>1. /\ pc = "items"
          /\ IF file = "requirement" THEN pc' = "read" /\ file' = "testcase"
             ELSE pc' = "done" /\ file' = file
      BY <2>5 DEF EndOfFile
    <3> QED BY <2>1, <3>1 DEF MigrationAdvances, Stage
  <2>6. ASSUME UNCHANGED <<pc, file, raw>>, ~Migrating PROVE MigrationAdvances
    BY <2>6 DEF MigrationAdvances
  <2>7. CASE Elsewhere /\ ~Migrating
    <3>1. EditFile \/ ChangeStatus \/ Migrate \/ Crash
      BY <2>7 DEF Elsewhere, MNext
    <3>2. CASE EditFile \/ ChangeStatus
      BY <2>6, <2>7, <3>2 DEF EditFile, ChangeStatus, call
    <3>3. CASE Migrate
      BY <3>3 DEF Migrate
    <3> QED BY <2>4, <3>1, <3>2, <3>3
  <2>8. CASE Elsewhere /\ Migrating
    BY <2>2, <2>3, <2>4, <2>5, <2>8 DEF Migrating
  <2>9. CASE ReadStore \/ ReadLists \/ BridgeRestarts
    <3>1. UNCHANGED mvars
      BY <2>9 DEF ReadStore, ReadLists, BridgeRestarts
    <3>2. UNCHANGED <<pc, file, raw, migrations, counts, db, wal, files, settled, batch, kindsOf>>
      BY <3>1 DEF mvars, call, bounds
    <3>3. ~(ReadFile \/ EndOfFile \/ BadStatus \/ BadConfidence \/ ImportRaises \/ Return)
      BY <2>1, <3>2 DEF ReadFile, EndOfFile, BadStatus, BadConfidence, ImportRaises, Return, Changed, Ends
    <3>4. raw # <<>> => Tail(raw) # raw
      <4>1. raw \in Seq(Item)
        BY DEF BTypeOK, MTypeOK
      <4>2. raw # <<>> => Len(Tail(raw)) = Len(raw) - 1 /\ Len(raw) \in Nat
        BY <4>1
      <4> QED BY <4>2
    <3>5. ~(PassOver \/ Skip \/ Import)
      BY <3>2, <3>4 DEF PassOver, Skip, Import, Changed
    <3>6. ~Migrating
      BY <3>3, <3>5 DEF Migrating
    <3> QED BY <2>6, <3>2, <3>6
  <2>10. CASE BridgeUpsert \/ BridgeDelete
    BY <2>10 DEF BridgeUpsert, BridgeDelete, MayWrite
  <2> QED BY <2>7, <2>8, <2>9, <2>10 DEF BNext
<1> QED BY <1>1, BridgeTypeCorrect, PTL DEF BSpec, MigrationsAdvance
====
