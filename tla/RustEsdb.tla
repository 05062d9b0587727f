---- MODULE RustEsdb ----
(***************************************************************************)
(* The Rust engine: one Esdb handle (src/crates/chronomemory/src) on its   *)
(* file events.wal, with the delete of the Python bindings, process        *)
(* crashes, and the failures of an append that CONSTANT Faults admits.     *)
(* There is no snapshot: what is in the file is all that a restart has.    *)
(*                                                                         *)
(* A SHA-256 hash is the sequence of the payloads it commits to, as in     *)
(* ChronoStore.  A line is an entry, or Garbage when it does not parse, or *)
(* NotUtf8 when an append was cut inside a character: no reader gets past  *)
(* that one.                                                               *)
(***************************************************************************)
EXTENDS Naturals, Sequences

CONSTANTS
    Ids,            \* EsdbId
    Kinds,          \* RecordKind
    EdgeTypes,      \* EdgeType
    DependentTypes, \* DependsOn, Assumes and DerivedFrom
    Confidences,    \* the f64 of a Confidence
    NotNumbers,     \* those that are NaN, which serde_json writes as null
    Decay,          \* a confidence after CONFIDENCE_DECAY_PER_HOP
    ReadBack,       \* the confidence that serde_json, built without its feature
                    \* float_roundtrip, parses from the text it wrote for one
    NewRecords,     \* the records that callers make
    Faults,         \* the ways in which WalWriter::append may fail
    MaxOps          \* bound: operations begun in a behaviour

FaultKinds == {"append_fails", "torn_append"}

ASSUME EsdbAssumption ==
    /\ DependentTypes \subseteq EdgeTypes
    /\ Faults \subseteq FaultKinds
    /\ MaxOps \in Nat

VARIABLES
    wal,        \* the lines of events.wal
    torn,       \* TRUE when its last line lacks the newline
    seq,        \* wal.seq
    prevHash,   \* wal.prev_hash
    records,    \* store.records
    byKind,     \* store.by_kind
    edges,      \* the edges of dep_graph, without their multiplicities
    pc,         \* "down", or what the handle is doing, "idle" between calls
    cursor,     \* entries that replay_full has taken
    root,       \* the id that rollback was called with
    todo,       \* invalidated_ids that rollback has not logged yet
    \* bookkeeping that no step of the program reads
    unlogged,   \* ids invalidated in memory and not in the log
    decayed,    \* ids whose confidence a rollback has lowered in memory
    struck,     \* the failures that have happened
    ops         \* operations begun

file == <<wal, torn>>
writer == <<seq, prevHash>>
memory == <<records, byKind, edges>>
evars == <<wal, torn, seq, prevHash, records, byKind, edges, pc, cursor,
           root, todo, unlogged, decayed, struck, ops>>

-----------------------------------------------------------------------------
(* Records, entries and hashes.                                            *)

Record == [kind : Kinds, status : {"Active", "Invalidated"}, conf : Confidences]

ASSUME RecordAssumption ==
    /\ Decay \in [Confidences -> Confidences]
    /\ ReadBack \in [Confidences -> Confidences]
    /\ NotNumbers \subseteq Confidences
    /\ NewRecords \subseteq Record

Absent == [kind |-> "none", status |-> "absent", conf |-> "none"]

Cell == Record \cup {Absent}

Edge == [from : Ids, to : Ids, edge_type : EdgeTypes]

\* An upsert carries a record, an add_edge one edge; replay looks at nothing
\* else that an entry carries.
Payload == [seq : Nat, op : {"upsert", "add_edge", "rollback", "invalidate"},
            id : Ids, rec : Cell, edge : SUBSET Edge]

Genesis == <<>>

Garbage == [seq |-> 0, op |-> "garbage", prev |-> Genesis]

NotUtf8 == [seq |-> 1, op |-> "garbage", prev |-> Genesis]

Entry(op, id, rec, edge) ==
    [seq |-> seq + 1, op |-> op, id |-> id, rec |-> rec, edge |-> edge, prev |-> prevHash]

\* WalEntry::compute_hash
Hash(e) == Append(e.prev, [seq |-> e.seq, op |-> e.op, id |-> e.id,
                           rec |-> e.rec, edge |-> e.edge])

\* A record that has been parsed from its text.
AsRead(rec) == IF rec = Absent THEN Absent ELSE [rec EXCEPT !.conf = ReadBack[rec.conf]]

\* WalReader hands out entries that were parsed from their line.
Parse(e) == [e EXCEPT !.rec = AsRead(e.rec)]

\* An upsert whose record deserialises: null is no f64.
Accepted(e) == e.op = "upsert" /\ e.rec.conf \notin NotNumbers

NoRecords == [id \in Ids |-> Absent]
NoIndex == [k \in Kinds |-> <<>>]

EInit ==
    /\ wal = <<>> /\ torn = FALSE
    /\ seq = 0 /\ prevHash = Genesis
    /\ records = NoRecords /\ byKind = NoIndex /\ edges = {}
    /\ pc = "down" /\ cursor = 0 /\ root \in Ids /\ todo = {}
    /\ unlogged = {} /\ decayed = {} /\ struck = {} /\ ops = 0

-----------------------------------------------------------------------------
(* WalWriter::append.                                                      *)

\* The file is opened in append mode: a line written after an unterminated
\* one becomes part of it.
Joined(part, line) == IF NotUtf8 \in {part, line} THEN NotUtf8 ELSE Garbage

AppendLine(line) ==
    IF torn THEN [wal EXCEPT ![Len(wal)] = Joined(wal[Len(wal)], line)] ELSE Append(wal, line)

AppendOk(e) ==
    /\ seq' = e.seq
    /\ wal' = AppendLine(e)
    /\ torn' = FALSE
    /\ prevHash' = Hash(e)

BugHashBeforeWrite(e) ==
    /\ seq' = e.seq
    /\ prevHash' = Hash(e)
    /\ "append_fails" \in Faults
    /\ struck' = struck \cup {"append_fails"}
    /\ UNCHANGED file

\* An error after the number has moved and before the hash has: the file was
\* not opened, or it has part of the line, or all of it but the newline.
AppendErr(e) ==
    /\ seq' = e.seq
    /\ UNCHANGED prevHash
    /\ \/ /\ "append_fails" \in Faults
          /\ struck' = struck \cup {"append_fails"}
          /\ UNCHANGED file
       \/ /\ "torn_append" \in Faults
          /\ struck' = struck \cup {"torn_append"}
          /\ \E part \in {Garbage, NotUtf8, e} : wal' = AppendLine(part)
          /\ torn' = TRUE

-----------------------------------------------------------------------------
(* Store.                                                                  *)

BugIndexedOnce(id, rec) ==
    /\ records' = [records EXCEPT ![id] = rec]
    /\ byKind' = IF records[id] = Absent
                 THEN [byKind EXCEPT ![rec.kind] = Append(@, id)] ELSE byKind

\* Every upsert pushes the id to the list of the record's kind.
Upsert(id, rec) ==
    /\ records' = [records EXCEPT ![id] = rec]
    /\ byKind' = [byKind EXCEPT ![rec.kind] = Append(@, id)]

BugNoRecordInvalidated(rec) == [rec EXCEPT !.status = "Invalidated"]

Invalidated(rec) == IF rec = Absent THEN Absent ELSE [rec EXCEPT !.status = "Invalidated"]

-----------------------------------------------------------------------------
(* Esdb::open: replay_full, then WalWriter::open.  Both read the whole log  *)
(* in one call; the model goes through its lines once for the two of them. *)

Open ==
    /\ pc = "down"
    /\ pc' = "replay"
    /\ cursor' = 0
    /\ records' = NoRecords /\ byKind' = NoIndex /\ edges' = {}
    /\ seq' = 0 /\ prevHash' = Genesis
    /\ unlogged' = {} /\ decayed' = {}
    /\ UNCHANGED <<file, root, todo, struck, ops>>

BugReplayForgetsRollback(e) ==
    \/ Accepted(e) /\ Upsert(e.id, AsRead(e.rec)) /\ UNCHANGED edges
    \/ e.op = "add_edge" /\ edges' = edges \cup e.edge /\ UNCHANGED <<records, byKind>>
    \/ e.op # "add_edge" /\ ~Accepted(e) /\ UNCHANGED memory

\* What replay_full makes of one entry.
Replay(e) ==
    \/ /\ Accepted(e)
       /\ Upsert(e.id, AsRead(e.rec))
       /\ UNCHANGED edges
    \/ /\ e.op = "invalidate"
       /\ records' = [records EXCEPT ![e.id] = Invalidated(records[e.id])]
       /\ UNCHANGED <<byKind, edges>>
    \/ /\ e.op = "add_edge"
       /\ edges' = edges \cup e.edge
       /\ UNCHANGED <<records, byKind>>
    \/ /\ e.op \in {"upsert", "rollback", "garbage"} /\ ~Accepted(e)
       /\ UNCHANGED memory

BugNumberNotRead(e) ==
    /\ UNCHANGED seq
    /\ prevHash' = IF e.op = "garbage" THEN prevHash ELSE Hash(e)

BugHashBeforeLast(e) ==
    IF e.op = "garbage" THEN UNCHANGED writer
    ELSE seq' = e.seq /\ prevHash' = e.prev

\* last_seq_and_hash: the position of the writer after the last entry read.
Position(e) ==
    IF e.op = "garbage" THEN UNCHANGED writer
    ELSE seq' = e.seq /\ prevHash' = Hash(e)

ReplayEntry ==
    /\ pc = "replay"
    /\ cursor < Len(wal)
    /\ wal[cursor + 1] # NotUtf8
    /\ Replay(wal[cursor + 1])
    /\ Position(wal[cursor + 1])
    /\ cursor' = cursor + 1
    /\ UNCHANGED <<file, pc, root, todo, unlogged, decayed, struck, ops>>

Opened ==
    /\ pc = "replay"
    /\ cursor = Len(wal)
    /\ pc' = "idle"
    /\ cursor' = 0
    /\ UNCHANGED <<file, writer, memory, root, todo, unlogged, decayed, struck, ops>>

\* read_all returns the error of the line, and open with it.
OpenFails ==
    /\ pc = "replay"
    /\ cursor < Len(wal)
    /\ wal[cursor + 1] = NotUtf8
    /\ pc' = "down" /\ cursor' = 0
    /\ UNCHANGED <<file, writer, memory, root, todo, unlogged, decayed, struck, ops>>

\* The process ends, or dies in the middle of a call.
Crash ==
    /\ pc # "down"
    /\ pc' = "down" /\ cursor' = 0 /\ todo' = {}
    /\ UNCHANGED <<file, writer, memory, root, unlogged, decayed, struck, ops>>

-----------------------------------------------------------------------------
(* Calls.                                                                  *)

Begin == pc = "idle" /\ ops < MaxOps /\ ops' = ops + 1

\* A caller commits a new record, or the clone that store.get gave it.
Committable(id) == NewRecords \cup ({records[id]} \ {Absent})

Commit ==
    /\ Begin
    /\ \E id \in Ids : \E rec \in Committable(id) :
         /\ AppendOk(Entry("upsert", id, rec, {}))
         /\ Upsert(id, rec)
         /\ unlogged' = unlogged \ {id} /\ decayed' = decayed \ {id}
    /\ UNCHANGED <<edges, pc, cursor, root, todo, struck>>

AddEdge ==
    /\ Begin
    /\ \E e \in Edge :
         /\ AppendOk(Entry("add_edge", e.from, Absent, {e}))
         /\ edges' = edges \cup {e}
    /\ UNCHANGED <<records, byKind, pc, cursor, root, todo, unlogged, decayed, struck>>

\* commit or add_edge returns the error of its append.
CallFails ==
    /\ Begin
    /\ \/ \E id \in Ids : \E rec \in Committable(id) : AppendErr(Entry("upsert", id, rec, {}))
       \/ \E e \in Edge : AppendErr(Entry("add_edge", e.from, Absent, {e}))
    /\ UNCHANGED <<memory, pc, cursor, root, todo, unlogged, decayed>>

WhatDependsOn(n) == {e.from : e \in {x \in edges : x.to = n /\ x.edge_type \in DependentTypes}}

TransitiveDependents(n) ==
    {d \in Ids \ {n} : \A S \in SUBSET Ids :
        (n \in S /\ \A m \in S : WhatDependsOn(m) \subseteq S) => d \in S}

\* rollback::rollback: memory only.
Rollback ==
    /\ Begin
    /\ root' \in Ids
    /\ LET deps == TransitiveDependents(root')
           hit == deps \cup {root'} IN
         /\ records' = [id \in Ids |->
              IF records[id] = Absent \/ id \notin hit THEN records[id]
              ELSE [kind |-> records[id].kind, status |-> "Invalidated",
                    conf |-> IF id \in deps THEN Decay[records[id].conf] ELSE records[id].conf]]
         /\ todo' = {id \in hit : records[id] # Absent}
         /\ unlogged' = unlogged \cup {id \in hit : records[id].status = "Active"}
         /\ decayed' = decayed \cup {id \in deps : records[id] # Absent}
    /\ pc' = "rollback"
    /\ UNCHANGED <<file, writer, byKind, edges, cursor, struck>>

\* Esdb::rollback goes on to log the event and then every invalidation.
LogRollback ==
    /\ pc = "rollback"
    /\ AppendOk(Entry("rollback", root, Absent, {}))
    /\ pc' = IF todo = {} THEN "idle" ELSE "invalidate"
    /\ UNCHANGED <<memory, cursor, root, todo, unlogged, decayed, struck, ops>>

\* The root comes first, its dependents in the order of a HashSet.
NextToLog == IF root \in todo THEN {root} ELSE todo

LogInvalidate ==
    /\ pc = "invalidate"
    /\ \E n \in NextToLog :
         /\ AppendOk(Entry("invalidate", n, Absent, {}))
         /\ todo' = todo \ {n}
         /\ unlogged' = unlogged \ {n}
    /\ pc' = IF todo' = {} THEN "idle" ELSE "invalidate"
    /\ UNCHANGED <<memory, cursor, root, decayed, struck, ops>>

\* The error of an append ends the call; memory stays as it is.
RollbackFails ==
    /\ \/ pc = "rollback" /\ AppendErr(Entry("rollback", root, Absent, {}))
       \/ pc = "invalidate" /\ \E n \in NextToLog : AppendErr(Entry("invalidate", n, Absent, {}))
    /\ pc' = "idle"
    /\ todo' = {}
    /\ UNCHANGED <<memory, cursor, root, unlogged, decayed, ops>>

\* RustChronoStore.delete: the record changes in memory, nothing is logged.
PyDelete ==
    /\ Begin
    /\ \E id \in Ids :
         /\ records' = [records EXCEPT ![id] = Invalidated(records[id])]
         /\ unlogged' = unlogged \cup {x \in {id} : records[x].status = "Active"}
    /\ UNCHANGED <<file, writer, byKind, edges, pc, cursor, root, todo, decayed, struck>>

ENext ==
    \/ Open \/ ReplayEntry \/ Opened \/ OpenFails \/ Crash
    \/ Commit \/ AddEdge \/ CallFails
    \/ Rollback \/ LogRollback \/ LogInvalidate \/ RollbackFails
    \/ PyDelete

ESpec == EInit /\ [][ENext]_evars

-----------------------------------------------------------------------------
(* What the log says, without replaying it: the last accepted upsert of a  *)
(* record, invalidated when an invalidation comes after it.                *)

Parsed == {i \in DOMAIN wal : wal[i].op # "garbage"}

Last(S) == CHOOSE i \in S : \A j \in S : j <= i

Upserts(id) == {i \in Parsed : Accepted(wal[i]) /\ wal[i].id = id}

Invalidations(id) == {i \in Parsed : wal[i].op = "invalidate" /\ wal[i].id = id}

\* No record in the log holds a NaN.
AllAccepted == \A i \in DOMAIN wal : wal[i].op = "upsert" => Accepted(wal[i])

Logged(id) ==
    LET ups == Upserts(id) IN
    IF ups = {} THEN Absent
    ELSE IF \E i \in Invalidations(id) : i > Last(ups)
         THEN Invalidated(AsRead(wal[Last(ups)].rec)) ELSE AsRead(wal[Last(ups)].rec)

LoggedEdges == UNION {wal[i].edge : i \in Parsed}

\* byKind[k] lists the ids that the log upserts with kind k, once for each of
\* these lines and in their order.
Pushes(k) == {i \in Parsed : Accepted(wal[i]) /\ wal[i].rec.kind = k}

InLogOrder(k) ==
    \E line \in [DOMAIN byKind[k] -> Pushes(k)] :
        /\ \A j \in DOMAIN byKind[k] : byKind[k][j] = wal[line[j]].id
        /\ \A i, j \in DOMAIN byKind[k] : i < j => line[i] < line[j]
        /\ \A i \in Pushes(k) : \E j \in DOMAIN byKind[k] : line[j] = i

-----------------------------------------------------------------------------
(* Properties.                                                             *)

Line == [seq : Nat, op : {"upsert"}, id : Ids, rec : Record,
         edge : SUBSET Edge, prev : Seq(Payload)]
        \cup [seq : Nat, op : {"add_edge", "rollback", "invalidate"}, id : Ids, rec : {Absent},
              edge : SUBSET Edge, prev : Seq(Payload)]
        \cup {Garbage, NotUtf8}

\* The type invariant.
ETypeOK ==
    /\ wal \in Seq(Line) /\ torn \in BOOLEAN /\ (torn => Len(wal) > 0)
    /\ seq \in Nat /\ prevHash \in Seq(Payload)
    /\ records \in [Ids -> Cell] /\ byKind \in [Kinds -> Seq(Ids)] /\ edges \subseteq Edge
    /\ pc \in {"down", "replay", "idle", "rollback", "invalidate"}
    /\ cursor \in Nat /\ cursor <= Len(wal)
    /\ root \in Ids /\ todo \subseteq Ids /\ unlogged \subseteq Ids /\ decayed \subseteq Ids
    /\ struck \subseteq Faults /\ ops \in 0..MaxOps

\* Numbers strictly increase along the log through failed appends and
\* reopenings, which take the number from the last entry that parses.
NumbersIncrease == \A i, j \in Parsed : i < j => wal[i].seq < wal[j].seq

\* verify_chain: every entry names the hash of the one before it, and its own
\* hash is that of the entry as parsed.
Verifies ==
    \A i \in Parsed :
        LET earlier == {j \in Parsed : j < i} IN
        /\ wal[i].prev = IF earlier = {} THEN Genesis ELSE Hash(wal[Last(earlier)])
        /\ Hash(wal[i]) = Hash(Parse(wal[i]))

\* Every confidence in the log reads back as it was written.
Exact == \A i \in Parsed : AsRead(wal[i].rec) = wal[i].rec

\* Whatever appends fail, verify_chain() is true of a log without torn lines
\* when every confidence in it reads back as it was written, and only then:
\* the hash in memory moves only after the write, and a single number that
\* loses its last digit makes an untouched log look tampered with.
FailedAppendsKeepChain == "torn_append" \notin struck => (Verifies <=> Exact)

InUse == pc \notin {"down", "replay"}

\* A record that exists is in the list of its kind, so that query_active and
\* query_all cannot miss it: after changes of kind, replays and rollbacks.
IndexMissesNothing ==
    pc # "down" => \A id \in Ids : records[id] # Absent =>
        \E i \in DOMAIN byKind[records[id].kind] : byKind[records[id].kind][i] = id

\* While no NaN is in the log, the handle in use against what a reopening
\* would rebuild: the same edges, index and kinds; a status that differs on
\* exactly the records that were invalidated without an entry in the log; and,
\* but for records that a rollback has decayed, the same confidence or the one
\* it reads back as.
LiveIsReplayed ==
    (InUse /\ "torn_append" \notin struck /\ AllAccepted) =>
        /\ edges = LoggedEdges
        /\ \A k \in Kinds : InLogOrder(k)
        /\ \A id \in Ids :
             /\ records[id].kind = Logged(id).kind
             /\ (records[id].status # Logged(id).status) <=> id \in unlogged
             /\ id \in decayed \/ Logged(id).conf \in {records[id].conf, AsRead(records[id]).conf}

\* Whatever appends failed or were cut half way, and wherever the process died
\* before, a handle that has read its whole log has exactly what the readable
\* lines say, each record as the last upsert that deserialises has it, and
\* continues from the last of these lines.
OpeningRecovers ==
    (pc = "replay" /\ cursor = Len(wal)) =>
        /\ \A id \in Ids : records[id] = Logged(id)
        /\ edges = LoggedEdges
        /\ \A k \in Kinds : InLogOrder(k)
        /\ IF Parsed = {} THEN seq = 0 /\ prevHash = Genesis
           ELSE seq = wal[Last(Parsed)].seq /\ prevHash = Hash(wal[Last(Parsed)])
====
