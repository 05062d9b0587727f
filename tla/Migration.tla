---- MODULE Migration ----
(***************************************************************************)
(* ChronoStore.migrate_from_json (src/src/chronomemory/store.py): the two  *)
(* JSON files that people edit, imported item by item into a store that    *)
(* other calls of the same program write too.  An upsert is one step that  *)
(* takes effect, raises, or does both, which is what ChronoStore is shown  *)
(* to implement while its log can be read; a program whose call has raised *)
(* opens the store again, so that its dictionary and the records on disk   *)
(* are the same.  No action uses the definitions named Bug...: each is a   *)
(* seeded fault that stands for the definition below it in the runs that   *)
(* show a property can fail.                                               *)
(***************************************************************************)
EXTENDS Naturals, Sequences, FiniteSets

CONSTANTS
    Ids,            \* record ids
    Titles,         \* titles of items, labels of records
    Rests,          \* what else an item says: confidence and data
    GovStatuses,    \* governance statuses
    Deprecating,    \* those that contain "deprecat"
    Listings,       \* what a file may hold; <<>> also for one that is missing
    WritesRaise,    \* TRUE when a call of the store may raise
    MaxEdits,       \* bound: edits of the files
    MaxMigrations,  \* bound: calls of migrate_from_json
    MaxWrites       \* bound: other writes

NoId == ""          \* an item that is not an object or has no id

\* What may be wrong: a status that is not a string, a confidence that float()
\* refuses.
Item == [id : Ids \cup {NoId}, title : Titles, gov : GovStatuses, rest : Rests,
         wrong : {"nothing", "status", "confidence"}]

FileKinds == {"requirement", "testcase"}

Kinds == FileKinds \cup {"fact"}

Statuses == {"active", "deprecated", "hypothesis", "invalidated", "tombstone"}

ASSUME MigrationAssumption ==
    /\ NoId \notin Ids
    /\ Deprecating \subseteq GovStatuses
    /\ Listings \subseteq Seq(Item) /\ <<>> \in Listings
    /\ WritesRaise \in BOOLEAN
    /\ MaxEdits \in Nat /\ MaxMigrations \in Nat /\ MaxWrites \in Nat

VARIABLES
    files,      \* requirements.json and testcases.json, by the kind they hold
    db,         \* the store's records
    wal,        \* TRUE once events.wal exists
    pc,         \* "idle", "read", "items" or "done"
    file,       \* the file migrate_from_json is at
    raw,        \* the items of it that are still to come
    counts,     \* items imported and skipped
    \* bookkeeping that no step of the program reads
    batch,      \* every item read by this call, with its kind
    settled,    \* nothing has changed since a migration of these files returned
    kindsOf,    \* the kinds each id has ever been written with
    edits, migrations, writes

call == <<pc, file, raw, counts, batch>>
bounds == <<edits, migrations, writes>>
mvars == <<files, db, wal, call, settled, kindsOf, bounds>>

Record == [kind : Kinds, label : Titles, status : Statuses, rest : Rests]

NoRecord == [kind |-> "", status |-> "absent"]

BugConflatesStatuses(gov) == gov

\* _governance_to_esdb_status
Mapped(gov) == IF gov \in Deprecating THEN "deprecated" ELSE "active"

Imported(item, kind) ==
    [kind |-> kind, label |-> item.title, status |-> Mapped(item.gov), rest |-> item.rest]

Entry == [item : Item, kind : FileKinds]

WithKind(items, kind) == [i \in DOMAIN items |-> [item |-> items[i], kind |-> kind]]

NoCall ==
    /\ file = "requirement" /\ raw = <<>> /\ batch = <<>>
    /\ counts = [imported |-> 0, skipped |-> 0]

MInit ==
    /\ files \in [FileKinds -> Listings]
    /\ db = [id \in Ids |-> NoRecord] /\ wal = FALSE
    /\ pc = "idle" /\ NoCall
    /\ settled = FALSE
    /\ kindsOf = [id \in Ids |-> {}]
    /\ edits = 0 /\ migrations = 0 /\ writes = 0

-----------------------------------------------------------------------------
(* Around the migration.                                                   *)

EditFile ==
    /\ edits < MaxEdits
    /\ edits' = edits + 1
    /\ \E kind \in FileKinds, listing \in Listings :
         files' = [files EXCEPT ![kind] = listing]
    /\ settled' = FALSE
    /\ UNCHANGED <<db, wal, call, kindsOf, migrations, writes>>

\* A delete or a rollback changes the status of a record.
ChangeStatus ==
    /\ pc = "idle"
    /\ writes < MaxWrites
    /\ writes' = writes + 1
    /\ \E id \in Ids, status \in {"hypothesis", "invalidated", "tombstone"} :
         /\ db[id] # NoRecord
         /\ db' = [db EXCEPT ![id].status = status]
    /\ settled' = FALSE
    /\ UNCHANGED <<files, wal, call, kindsOf, edits, migrations>>

-----------------------------------------------------------------------------
(* migrate_from_json.                                                      *)

\* However a call ends, what it held goes with it.
Ends ==
    /\ pc' = "idle"
    /\ file' = "requirement" /\ raw' = <<>> /\ batch' = <<>>
    /\ counts' = [imported |-> 0, skipped |-> 0]

Migrate ==
    /\ pc = "idle"
    /\ migrations < MaxMigrations
    /\ migrations' = migrations + 1
    /\ pc' = "read"
    /\ UNCHANGED <<files, db, wal, file, raw, counts, batch, settled, kindsOf, edits, writes>>

\* A file is read as a whole: an edit made afterwards is not seen.
ReadFile ==
    /\ pc = "read"
    /\ pc' = "items"
    /\ raw' = files[file]
    /\ batch' = batch \o WithKind(files[file], file)
    /\ UNCHANGED <<files, db, wal, file, counts, settled, kindsOf, bounds>>

PassOver ==
    /\ pc = "items" /\ raw # <<>>
    /\ Head(raw).id = NoId
    /\ raw' = Tail(raw)
    /\ UNCHANGED <<files, db, wal, pc, file, counts, batch, settled, kindsOf, bounds>>

BugComparesTitleOnly(item) == db[item.id] # NoRecord /\ db[item.id].label = item.title

BugComparesGovernance(item) ==
    /\ db[item.id] # NoRecord
    /\ db[item.id].label = item.title
    /\ db[item.id].status = item.gov

\* "Already there": by title and status alone.
Unchanged(item) ==
    /\ db[item.id] # NoRecord
    /\ db[item.id].label = item.title
    /\ db[item.id].status = Mapped(item.gov)

Skip ==
    /\ pc = "items" /\ raw # <<>>
    /\ Head(raw).id # NoId /\ Head(raw).wrong # "status"
    /\ Unchanged(Head(raw))
    /\ counts' = [counts EXCEPT !.skipped = @ + 1]
    /\ raw' = Tail(raw)
    /\ UNCHANGED <<files, db, wal, pc, file, batch, settled, kindsOf, bounds>>

\* lower() or strip() raises on the item's status, whether it is new or not,
\* and the call ends there.
BadStatus ==
    /\ pc = "items" /\ raw # <<>>
    /\ Head(raw).id # NoId /\ Head(raw).wrong = "status"
    /\ Ends
    /\ UNCHANGED <<files, db, wal, settled, kindsOf, bounds>>

Changed ==
    /\ pc = "items" /\ raw # <<>>
    /\ Head(raw).id # NoId /\ Head(raw).wrong # "status"
    /\ ~Unchanged(Head(raw))

Store(id, record) ==
    /\ db' = [db EXCEPT ![id] = record]
    /\ wal' = TRUE
    /\ kindsOf' = [kindsOf EXCEPT ![id] = @ \cup {record.kind}]

Import ==
    /\ Changed
    /\ Head(raw).wrong = "nothing"
    /\ Store(Head(raw).id, Imported(Head(raw), file))
    /\ counts' = [counts EXCEPT !.imported = @ + 1]
    /\ raw' = Tail(raw)
    /\ UNCHANGED <<files, pc, file, batch, settled, bounds>>

\* float() raises, but not on an item that is skipped.
BadConfidence ==
    /\ Changed
    /\ Head(raw).wrong = "confidence"
    /\ Ends
    /\ UNCHANGED <<files, db, wal, settled, kindsOf, bounds>>

\* upsert raises, before or after its event is in the log.
ImportRaises ==
    /\ WritesRaise
    /\ Changed
    /\ Head(raw).wrong = "nothing"
    /\ \/ Store(Head(raw).id, Imported(Head(raw), file))
       \/ UNCHANGED <<db, wal, kindsOf>>
    /\ Ends
    /\ UNCHANGED <<files, settled, bounds>>

EndOfFile ==
    /\ pc = "items" /\ raw = <<>>
    /\ IF file = "requirement" THEN pc' = "read" /\ file' = "testcase"
                               ELSE pc' = "done" /\ UNCHANGED file
    /\ UNCHANGED <<files, db, wal, raw, counts, batch, settled, kindsOf, bounds>>

OnDisk == WithKind(files["requirement"], "requirement") \o WithKind(files["testcase"], "testcase")

Identified == {i \in DOMAIN batch : batch[i].item.id # NoId}

\* No id is listed twice, in one file or in both.
OncePerId == \A i, j \in Identified : batch[i].item.id = batch[j].item.id => i = j

Return ==
    /\ pc = "done"
    /\ Ends
    /\ settled' = (batch = OnDisk /\ OncePerId)
    /\ UNCHANGED <<files, db, wal, kindsOf, bounds>>

\* The process dies.
Crash ==
    /\ pc # "idle"
    /\ Ends
    /\ UNCHANGED <<files, db, wal, settled, kindsOf, bounds>>

Migrating ==
    \/ ReadFile \/ PassOver \/ Skip \/ BadStatus \/ Import \/ BadConfidence
    \/ ImportRaises \/ EndOfFile \/ Return

MNext == EditFile \/ ChangeStatus \/ Migrate \/ Migrating \/ Crash

MSpec == MInit /\ [][MNext]_mvars

-----------------------------------------------------------------------------
(* Properties.                                                             *)

\* The type invariant.
MTypeOK ==
    /\ files \in [FileKinds -> Listings]
    /\ db \in [Ids -> Record \cup {NoRecord}]
    /\ wal \in BOOLEAN
    /\ pc \in {"idle", "read", "items", "done"}
    /\ file \in FileKinds
    /\ raw \in Seq(Item)
    /\ counts \in [imported : Nat, skipped : Nat]
    /\ batch \in Seq(Entry)
    /\ settled \in BOOLEAN
    /\ kindsOf \in [Ids -> SUBSET Kinds]
    /\ edits \in 0..MaxEdits /\ migrations \in 0..MaxMigrations /\ writes \in 0..MaxWrites

\* The last item of the batch with its id.
LastOfId(i) == \A j \in Identified : batch[j].item.id = batch[i].item.id => j <= i

\* A migration that returns has brought every item it read into the store
\* under its title and mapped status, whatever an interrupted migration, a
\* delete or a rollback had left there; of items with the same id the last.
ListedIsStored ==
    pc = "done" => \A i \in Identified :
        LastOfId(i) =>
            LET item == batch[i].item IN
            /\ db[item.id] # NoRecord
            /\ db[item.id].label = item.title
            /\ db[item.id].status = IF item.gov \in Deprecating THEN "deprecated" ELSE "active"

\* Migration is idempotent: a migration of the same files writes nothing, if
\* no id is listed twice and nothing else was written in between.
RerunWritesNothing == (settled /\ pc # "idle") => counts.imported = 0
====
