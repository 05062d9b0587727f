---- MODULE Bridge ----
(***************************************************************************)
(* A long-lived EsdbBridge (src/src/chronomemory/bridge.py) next to the    *)
(* program that migrates: it reads the JSON files until it finds an        *)
(* events.wal, then opens a store and keeps it, while people edit the      *)
(* files and the other program writes.                                     *)
(*                                                                         *)
(* The bridge writes only when nobody else has written since it opened its *)
(* store and no migration is running: the single-writer rule of the        *)
(* project.  What happens otherwise is the subject of SharedFiles.         *)
(***************************************************************************)
EXTENDS Migration

VARIABLES
    held,       \* the records of self._store, or NotHeld
    lists,      \* self._requirements and self._testcases: {} or {what was read}
    \* bookkeeping that no step of the program reads
    overtaken,  \* another program has written since the store was opened
    missed      \* the ids written since then that the open store knows nothing of

bvars == <<mvars, held, lists, overtaken, missed>>

NotHeld == [id \in {} |-> NoRecord]

BInit ==
    /\ MInit
    /\ held = NotHeld
    /\ lists = [kind \in FileKinds |-> {}]
    /\ overtaken = FALSE /\ missed = {}

\* A step of the migrating program.
Elsewhere ==
    /\ MNext
    /\ overtaken' = (overtaken \/ (held # NotHeld /\ db' # db))
    /\ missed' = IF held = NotHeld THEN {} ELSE missed \cup {id \in Ids : db'[id] # db[id]}
    /\ UNCHANGED <<held, lists>>

-----------------------------------------------------------------------------
(* _get_store.                                                             *)

BugListsWin == held = NotHeld /\ wal /\ \A kind \in FileKinds : lists[kind] = {}

Opens == held = NotHeld /\ wal

\* Without a store a read answers from the JSON lists: there is no log yet, or
\* opening the store raises.
FallsBack == held = NotHeld /\ (~Opens \/ WritesRaise)

\* The records of the store that a call gets.
GetStore == IF held = NotHeld THEN db ELSE held

-----------------------------------------------------------------------------
(* requirements, testcases, record_counts and status.                      *)

ReadStore ==
    /\ Opens
    /\ held' = db
    /\ overtaken' = FALSE /\ missed' = {}
    /\ UNCHANGED <<mvars, lists>>

\* A list is read once and kept.
ReadLists ==
    /\ FallsBack
    /\ \E kinds \in SUBSET FileKinds :
         lists' = [kind \in FileKinds |->
                      IF kind \in kinds /\ lists[kind] = {} THEN {files[kind]} ELSE lists[kind]]
    /\ UNCHANGED <<mvars, held, overtaken, missed>>

-----------------------------------------------------------------------------
(* upsert_record and delete_record, which do nothing without a store.      *)

MayWrite ==
    /\ pc = "idle"
    /\ held # NotHeld => ~overtaken
    /\ held # NotHeld \/ Opens
    /\ writes < MaxWrites
    /\ writes' = writes + 1
    /\ settled' = FALSE
    /\ overtaken' = FALSE
    /\ UNCHANGED <<files, wal, call, edits, migrations, lists>>

\* The ids that the store of this call knows nothing of before it writes.
Behind == IF held = NotHeld THEN {} ELSE missed

Log(id, record) ==
    /\ db' = [db EXCEPT ![id] = record]
    /\ kindsOf' = [kindsOf EXCEPT ![id] = @ \cup {record.kind}]

\* The event is in the log, and then in the dictionary.
Put(id, record) ==
    /\ Log(id, record)
    /\ held' = [GetStore EXCEPT ![id] = record]
    /\ missed' = Behind \ {id}

\* The store raises, and the bridge says False: nothing is in the log, or the
\* event is there and only the dictionary is without it.
PutRaises(id, record) ==
    /\ WritesRaise
    /\ held' = GetStore
    /\ \/ Log(id, record) /\ missed' = Behind \cup {id}
       \/ UNCHANGED <<db, kindsOf>> /\ missed' = Behind

\* A caller gives the kind or gets the default one.
BridgeUpsert ==
    /\ MayWrite
    /\ \E id \in Ids, kind \in Kinds, title \in Titles, rest \in Rests :
         LET record == [kind |-> kind, label |-> title, status |-> "active", rest |-> rest] IN
             Put(id, record) \/ PutRaises(id, record)

BridgeDelete ==
    /\ MayWrite
    /\ \E id \in Ids :
         IF GetStore[id] = NoRecord
         THEN held' = GetStore /\ missed' = Behind /\ UNCHANGED <<db, kindsOf>>
         ELSE LET record == [GetStore[id] EXCEPT !.status = "tombstone"] IN
                  Put(id, record) \/ PutRaises(id, record)

BridgeRestarts ==
    /\ held' = NotHeld
    /\ lists' = [kind \in FileKinds |-> {}]
    /\ overtaken' = FALSE /\ missed' = {}
    /\ UNCHANGED mvars

BNext ==
    \/ Elsewhere
    \/ ReadStore \/ ReadLists
    \/ BridgeUpsert \/ BridgeDelete
    \/ BridgeRestarts

BSpec == BInit /\ [][BNext]_bvars

-----------------------------------------------------------------------------
(* Properties.                                                             *)

\* Every object of a JSON list is a record, with an id or without; one bad
\* confidence and the list is empty.
Listed(items) ==
    IF \E i \in DOMAIN items : items[i].wrong = "confidence" THEN {}
    ELSE {items[i].id : i \in DOMAIN items}

OfKind(records, kind) ==
    {id \in DOMAIN records : records[id].kind = kind /\ records[id].status = "active"}

\* The ids that requirements() or testcases() answers with now, when opening
\* the store raises and when it does not.
Answer(kind, raises) ==
    IF held # NotHeld THEN OfKind(held, kind)
    ELSE IF Opens /\ ~raises THEN OfKind(db, kind)
    ELSE IF lists[kind] = {} THEN Listed(files[kind])
    ELSE UNION {Listed(items) : items \in lists[kind]}

\* The type invariant.
BTypeOK ==
    /\ MTypeOK
    /\ held \in {NotHeld} \cup [Ids -> Record \cup {NoRecord}]
    /\ lists \in [FileKinds -> {{}} \cup {{items} : items \in Listings}]
    /\ overtaken \in BOOLEAN
    /\ missed \in SUBSET Ids

\* The fallback shows less than the file does: it was read before an edit, or
\* holds a bad confidence.
OldList(kind) ==
    \/ lists[kind] \notin {{}, {files[kind]}}
    \/ \E i \in DOMAIN files[kind] : files[kind][i].wrong = "confidence"

\* Once the files have been migrated and nothing has changed since, the bridge
\* answers with every listed item that is not deprecated, as the JSON fallback
\* did, except: an id that was also written with another kind; one that was
\* written after the bridge had opened the store that it keeps, by another
\* program or by a call of its own that raised; and, if opening the store
\* raises, what a list read before an edit does not show.
ListedAreAnswered ==
    settled =>
        \A kind \in FileKinds : \A i \in DOMAIN files[kind] :
        \A raises \in {WritesRaise, FALSE} :
            LET item == files[kind][i] IN
            (item.id # NoId /\ item.gov \notin Deprecating) =>
                \/ item.id \in Answer(kind, raises)
                \/ kindsOf[item.id] # {kind}
                \/ held # NotHeld /\ item.id \in missed
                \/ held = NotHeld /\ raises /\ OldList(kind)
====
