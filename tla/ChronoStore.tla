---- MODULE ChronoStore ----
(***************************************************************************)
(* One ChronoStore instance (src/src/chronomemory/store.py) over the files *)
(* events.wal and snapshot.json, with process crashes between any two      *)
(* steps that the disk can tell apart, and the failures of single file     *)
(* operations that CONSTANT Faults admits.                                 *)
(*                                                                         *)
(* A SHA-256 hash is the sequence of the payloads it commits to, oldest    *)
(* first, which idealises it as collision free.  A line of the WAL is an   *)
(* event, or Garbage when it does not parse.                               *)
(***************************************************************************)
EXTENDS Naturals, Sequences

CONSTANTS
    Ids,            \* record ids
    Contents,       \* everything a record holds besides its status
    Splitting,      \* the contents whose JSON str.splitlines breaks in two
    Statuses,       \* the values of ChronoRecord.status
    SnapshotEvery,  \* _SNAPSHOT_EVERY
    Faults,         \* the file failures that may happen
    MaxWrites       \* bound: write calls in a behaviour

FaultKinds == {"append_fails", "torn_append", "truncate_fails", "cut_compact",
               "sentinel_fails", "snapshot_fails", "rot_snapshot", "read_fails"}

ASSUME StatusAssumption ==
    /\ {"active", "tombstone"} \subseteq Statuses
    /\ "absent" \notin Statuses

ASSUME SplittingAssumption == Splitting \subseteq Contents \ {""}

ASSUME BoundsAssumption ==
    /\ SnapshotEvery \in Nat \ {0}
    /\ MaxWrites \in Nat
    /\ Faults \subseteq FaultKinds

VARIABLES
    \* on disk
    wal,        \* the lines of events.wal
    torn,       \* TRUE when its last line lacks the newline
    snap,       \* snapshot.json
    \* in memory
    opened,     \* self._open
    state,      \* self._state
    seq,        \* self._seq
    lastHash,   \* self._last_hash
    since,      \* self._events_since_snapshot
    \* control
    pc,         \* the step the call in progress is at, "idle" between calls
    req,        \* that call
    cursor,     \* lines _replay_wal has read
    \* bookkeeping that no step of the program reads
    struck,     \* the faults that have happened, "split_line" included
    writes      \* write calls so far

disk == <<wal, torn, snap>>
mem  == <<opened, state, seq, lastHash, since>>
vars == <<wal, torn, snap, opened, state, seq, lastHash, since,
          pc, req, cursor, struck, writes>>

-----------------------------------------------------------------------------
(* Records, events and hashes.                                             *)

Blank == ""     \* the content of a record made of the dataclass defaults

Rec == [content : Contents \cup {Blank}, status : Statuses]

NoRec == [content |-> Blank, status |-> "absent"]  \* no entry in the dictionary

Cell == Rec \cup {NoRec}

Empty == [id \in Ids |-> NoRec]

Tombstone == [content |-> Blank, status |-> "tombstone"]

CompactRec == [content |-> Blank, status |-> "active"]

CompactId == "__compact__"

EventOps == {"upsert", "delete", "compact"}

Payload == [seq : Nat, op : EventOps, id : Ids \cup {CompactId}, rec : Rec]

Genesis == <<>>

\* A line that does not parse.
Garbage == [seq |-> 0, op |-> "garbage", id |-> CompactId,
            rec |-> CompactRec, prev |-> Genesis]

Line == [seq : Nat, op : {"upsert", "delete"}, id : Ids, rec : Rec, prev : Seq(Payload)]
            \cup [seq : Nat, op : {"compact"}, id : {CompactId}, rec : Rec, prev : Seq(Payload)]
            \cup {Garbage}

\* WalEvent.compute_hash: the hash covers every field and the previous hash.
Hash(e) == Append(e.prev, [seq |-> e.seq, op |-> e.op, id |-> e.id, rec |-> e.rec])

\* _build_event
Event(n, call, prev) ==
    [seq |-> n, op |-> call.op, id |-> call.id, rec |-> call.rec, prev |-> prev]

\* What every reader of events.wal makes of the line of event e: json.dumps
\* leaves U+0085, U+2028 and U+2029 as they are and splitlines breaks there.
AsRead(e) == IF e.rec.content \in Splitting THEN Garbage ELSE e

UpsertCalls == [op : {"upsert"}, id : Ids, rec : [content : Contents, status : Statuses]]
DeleteCalls == [op : {"delete"}, id : Ids, rec : {Tombstone}]
CompactCall == [op |-> "compact", id |-> CompactId, rec |-> CompactRec]
OpenCall    == [op |-> "open", id |-> CompactId, rec |-> CompactRec]
CloseCall   == [op |-> "close", id |-> CompactId, rec |-> CompactRec]

WriteCalls == UpsertCalls \cup DeleteCalls \cup {CompactCall}
Calls == WriteCalls \cup {OpenCall, CloseCall}

BugReplayIgnoresDelete(m, e) == IF e.op = "upsert" THEN [m EXCEPT ![e.id] = e.rec] ELSE m

\* What replaying one event does to the dictionary.
Applied(m, e) ==
    IF e.op = "upsert" THEN [m EXCEPT ![e.id] = e.rec]
    ELSE IF e.op = "delete" /\ m[e.id] # NoRec THEN [m EXCEPT ![e.id].status = "tombstone"]
    ELSE m

NoSnapshot == [kind |-> "none", seq |-> 0, last_hash |-> Genesis, records |-> Empty]

Snapshot == [kind : {"none", "ok", "corrupt"}, seq : Nat,
             last_hash : Seq(Payload), records : [Ids -> Cell]]

-----------------------------------------------------------------------------
Init ==
    /\ wal = <<>> /\ torn = FALSE /\ snap = NoSnapshot
    /\ opened = FALSE /\ state = Empty /\ seq = 0 /\ lastHash = Genesis /\ since = 0
    /\ pc = "idle" /\ req = CloseCall /\ cursor = 0
    /\ struck = {} /\ writes = 0

\* Where a call continues once the store is open.
FirstStep(call) ==
    IF call.op \in {"upsert", "delete"} THEN "append"
    ELSE IF call.op = "compact" THEN "compact" ELSE "idle"

\* upsert, delete and compact open a store that is not; open always reloads.
Call(call) ==
    /\ pc = "idle"
    /\ req' = call
    /\ pc' = IF opened /\ call # OpenCall THEN FirstStep(call) ELSE "load"
    /\ UNCHANGED <<wal, torn, snap, opened, state, seq, lastHash, since, cursor, struck>>

Write ==
    /\ writes < MaxWrites
    /\ writes' = writes + 1
    /\ \E call \in WriteCalls : Call(call)

\* An explicit open(), or a read (get, query, record_count, export_records)
\* of a store that is not open.
Open == Call(OpenCall) /\ UNCHANGED writes

-----------------------------------------------------------------------------
(* open: _load_snapshot, then _replay_wal one line at a time.              *)

LoadSnapshot ==
    /\ pc = "load"
    /\ pc' = "replay"
    /\ cursor' = 0
    /\ \/ /\ snap.kind = "ok"
          /\ seq' = snap.seq
          /\ lastHash' = snap.last_hash
          /\ state' = [id \in Ids |-> IF snap.records[id] # NoRec
                                      THEN snap.records[id] ELSE state[id]]
       \/ /\ snap.kind = "corrupt"
          /\ seq' = 0 /\ lastHash' = Genesis /\ state' = Empty
       \/ /\ snap.kind = "none"
          /\ UNCHANGED <<seq, lastHash, state>>
    /\ UNCHANGED <<wal, torn, snap, opened, since, req, struck, writes>>

BugUnreadableLineApplied(e) == e.seq <= seq /\ seq > 0

\* The line that _replay_wal reads next is passed over.
Skipped(e) == e.op = "garbage" \/ (e.seq <= seq /\ seq > 0)

SkipLine ==
    /\ pc = "replay"
    /\ cursor < Len(wal)
    /\ Skipped(wal[cursor + 1])
    /\ cursor' = cursor + 1
    /\ UNCHANGED <<wal, torn, snap, opened, state, seq, lastHash, since,
                   pc, req, struck, writes>>

BugReplayKeepsSeq ==
    /\ pc = "replay"
    /\ cursor < Len(wal)
    /\ ~Skipped(wal[cursor + 1])
    /\ state' = Applied(state, wal[cursor + 1])
    /\ lastHash' = Hash(wal[cursor + 1])
    /\ cursor' = cursor + 1
    /\ UNCHANGED <<wal, torn, snap, opened, seq, since, pc, req, struck, writes>>

ReplayLine ==
    /\ pc = "replay"
    /\ cursor < Len(wal)
    /\ LET e == wal[cursor + 1] IN
         /\ ~Skipped(e)
         /\ state' = Applied(state, e)
         /\ seq' = IF e.seq > seq THEN e.seq ELSE seq
         /\ lastHash' = Hash(e)
    /\ cursor' = cursor + 1
    /\ UNCHANGED <<wal, torn, snap, opened, since, pc, req, struck, writes>>

Opened ==
    /\ pc = "replay"
    /\ cursor = Len(wal)
    /\ opened' = TRUE
    /\ pc' = FirstStep(req)
    /\ cursor' = 0
    /\ UNCHANGED <<wal, torn, snap, state, seq, lastHash, since,
                   req, struck, writes>>

\* Reading snapshot.json raises although the file is as it should be: the
\* memory is cleared as if the snapshot were corrupt.
SnapshotUnread ==
    /\ pc = "load"
    /\ snap.kind = "ok"
    /\ seq' = 0 /\ lastHash' = Genesis /\ state' = Empty
    /\ pc' = "replay"
    /\ cursor' = 0
    /\ UNCHANGED <<wal, torn, snap, opened, since, req, writes>>

\* Reading events.wal raises: _replay_wal returns, and the store is open with
\* what the snapshot or the memory held.
LogUnread ==
    /\ pc = "replay"
    /\ cursor = 0 /\ wal # <<>>
    /\ opened' = TRUE
    /\ pc' = FirstStep(req)
    /\ UNCHANGED <<wal, torn, snap, state, seq, lastHash, since, req, cursor, writes>>

\* open catches an OSError of either file and goes on without it.
ReadFails ==
    /\ "read_fails" \in Faults
    /\ struck' = struck \cup {"read_fails"}
    /\ SnapshotUnread \/ LogUnread

-----------------------------------------------------------------------------
(* upsert and delete.                                                      *)

\* A line written after an unterminated one lands on the same line.
AppendLine(line) ==
    IF torn THEN [wal EXCEPT ![Len(wal)] = Garbage] ELSE Append(wal, line)

\* _build_event advances the counter and the hash before anything is written.
BuildEvent ==
    /\ seq' = seq + 1
    /\ lastHash' = Hash(Event(seq + 1, req, lastHash))

\* _append_wal succeeds, by the rename or by the direct append.
AppendWal ==
    /\ pc = "append"
    /\ BuildEvent
    /\ wal' = AppendLine(AsRead(Event(seq + 1, req, lastHash)))
    /\ torn' = FALSE
    /\ pc' = "apply"
    /\ struck' = struck \cup {f \in {"split_line"} : req.rec.content \in Splitting}
    /\ UNCHANGED <<snap, opened, state, since, req, cursor, writes>>

\* Both ways of appending raise and nothing reaches the file.
AppendFails ==
    /\ pc = "append"
    /\ "append_fails" \in Faults
    /\ BuildEvent
    /\ pc' = "idle"
    /\ struck' = struck \cup {"append_fails"}
    /\ UNCHANGED <<wal, torn, snap, opened, state, since, req, cursor, writes>>

\* _append_wal raises after part of the line, all of it but the newline, or
\* all of it is in the file: the direct append, or the unlink after either.
TornAppend ==
    /\ pc = "append"
    /\ "torn_append" \in Faults
    /\ BuildEvent
    /\ \E part \in {Garbage, AsRead(Event(seq + 1, req, lastHash))} : wal' = AppendLine(part)
    /\ torn' \in (IF wal'[Len(wal')] = Garbage THEN {TRUE} ELSE BOOLEAN)
    /\ pc' = "idle"
    /\ struck' = struck \cup {"torn_append"}
    /\ UNCHANGED <<snap, opened, state, since, req, cursor, writes>>

ApplyUpsert ==
    /\ pc = "apply"
    /\ req.op = "upsert"
    /\ state' = [state EXCEPT ![req.id] = req.rec]
    /\ since' = since + 1
    /\ pc' = IF since + 1 >= SnapshotEvery THEN "snapshot" ELSE "idle"
    /\ UNCHANGED <<wal, torn, snap, opened, seq, lastHash, req, cursor, struck, writes>>

\* delete counts the event but leaves the snapshot to a later upsert.
ApplyDelete ==
    /\ pc = "apply"
    /\ req.op = "delete"
    /\ state' = IF state[req.id] # NoRec
                THEN [state EXCEPT ![req.id].status = "tombstone"] ELSE state
    /\ since' = since + 1
    /\ pc' = "idle"
    /\ UNCHANGED <<wal, torn, snap, opened, seq, lastHash, req, cursor, struck, writes>>

-----------------------------------------------------------------------------
(* Snapshots.  _write_snapshot renames a complete file over the old one.   *)

BugSnapshotDropsTombstones ==
    snap' = [kind |-> "ok", seq |-> seq, last_hash |-> lastHash,
             records |-> [id \in Ids |-> IF state[id].status = "tombstone"
                                         THEN NoRec ELSE state[id]]]

BugSnapshotAhead ==
    snap' = [kind |-> "ok", seq |-> seq + 1, last_hash |-> lastHash, records |-> state]

WriteSnapshot ==
    snap' = [kind |-> "ok", seq |-> seq, last_hash |-> lastHash, records |-> state]

UpsertSnapshot ==
    /\ pc = "snapshot"
    /\ WriteSnapshot
    /\ since' = 0
    /\ pc' = "idle"
    /\ UNCHANGED <<wal, torn, opened, state, seq, lastHash, req, cursor, struck, writes>>

\* The snapshot of upsert, close or compact raises: the caller gets the
\* exception, the old snapshot stays and the counter is not reset.
SnapshotFails ==
    /\ pc \in {"snapshot", "close", "compact"}
    /\ "snapshot_fails" \in Faults
    /\ pc' = "idle"
    /\ struck' = struck \cup {"snapshot_fails"}
    /\ UNCHANGED <<wal, torn, snap, opened, state, seq, lastHash, since,
                   req, cursor, writes>>

Close ==
    /\ pc = "idle"
    /\ req' = CloseCall
    /\ IF opened /\ since >= SnapshotEvery
       THEN pc' = "close" /\ UNCHANGED opened
       ELSE opened' = FALSE /\ UNCHANGED pc
    /\ UNCHANGED <<wal, torn, snap, state, seq, lastHash, since, cursor, struck, writes>>

CloseSnapshot ==
    /\ pc = "close"
    /\ WriteSnapshot
    /\ opened' = FALSE
    /\ pc' = "idle"
    /\ UNCHANGED <<wal, torn, state, seq, lastHash, since, req, cursor, struck, writes>>

-----------------------------------------------------------------------------
(* compact: snapshot, truncate, write the sentinel.                        *)

BugCompactWithoutSnapshot ==
    /\ pc = "compact"
    /\ pc' = "truncate"
    /\ UNCHANGED <<wal, torn, snap, opened, state, seq, lastHash, since,
                   req, cursor, struck, writes>>

CompactSnapshot ==
    /\ pc = "compact"
    /\ WriteSnapshot
    /\ pc' = "truncate"
    /\ UNCHANGED <<wal, torn, opened, state, seq, lastHash, since,
                   req, cursor, struck, writes>>

BugSentinelChained(n) == Event(n, CompactCall, lastHash)

\* The sentinel starts a new hash chain and takes the next sequence number.
Sentinel(n) == Event(n, CompactCall, Genesis)

BuildSentinel ==
    /\ seq' = seq + 1
    /\ lastHash' = Hash(Sentinel(seq + 1))

\* open("w") empties the file before the sentinel is written.
Truncate ==
    /\ pc = "truncate"
    /\ BuildSentinel
    /\ wal' = <<>>
    /\ torn' = FALSE
    /\ pc' = "sentinel"
    /\ UNCHANGED <<snap, opened, state, since, req, cursor, struck, writes>>

\* open("w") raises: the file is as it was, the hash in memory is not.
TruncateFails ==
    /\ pc = "truncate"
    /\ "truncate_fails" \in Faults
    /\ BuildSentinel
    /\ pc' = "idle"
    /\ struck' = struck \cup {"truncate_fails"}
    /\ UNCHANGED <<wal, torn, snap, opened, state, since, req, cursor, writes>>

WriteSentinel ==
    /\ pc = "sentinel"
    /\ wal' = <<Sentinel(seq)>>
    /\ since' = 0
    /\ pc' = "idle"
    /\ UNCHANGED <<torn, snap, opened, state, seq, lastHash, req, cursor, struck, writes>>

SentinelFails ==
    /\ pc = "sentinel"
    /\ "sentinel_fails" \in Faults
    /\ pc' = "idle"
    /\ struck' = struck \cup {"sentinel_fails"}
    /\ UNCHANGED <<wal, torn, snap, opened, state, seq, lastHash, since,
                   req, cursor, writes>>

TornSentinel ==
    /\ pc = "sentinel"
    /\ "torn_append" \in Faults
    /\ \E part \in {Garbage, Sentinel(seq)} : wal' = <<part>>
    /\ torn' = TRUE
    /\ pc' = "idle"
    /\ struck' = struck \cup {"torn_append"}
    /\ UNCHANGED <<snap, opened, state, seq, lastHash, since, req, cursor, writes>>

-----------------------------------------------------------------------------
(* The environment.  The definitions named Bug... are seeded faults: each  *)
(* stands for a definition below it in the runs that show a property can   *)
(* fail, and no action of the specification uses one.                      *)

\* The process dies; the next one starts from the constructor's values.
Crash ==
    /\ pc = "sentinel" => "cut_compact" \in Faults
    /\ struck' = IF pc = "sentinel" THEN struck \cup {"cut_compact"} ELSE struck
    /\ opened' = FALSE /\ state' = Empty /\ seq' = 0 /\ lastHash' = Genesis /\ since' = 0
    /\ pc' = "idle" /\ req' = CloseCall /\ cursor' = 0
    /\ UNCHANGED <<wal, torn, snap, writes>>

\* snapshot.json stops being readable (edited, half synced, disk error).
RotSnapshot ==
    /\ "rot_snapshot" \in Faults
    /\ snap.kind = "ok"
    /\ snap' = [snap EXCEPT !.kind = "corrupt"]
    /\ struck' = struck \cup {"rot_snapshot"}
    /\ UNCHANGED <<wal, torn, opened, state, seq, lastHash, since,
                   pc, req, cursor, writes>>

\* The steps the program takes of itself once a call has begun.
Step ==
    \/ LoadSnapshot \/ SkipLine \/ ReplayLine \/ Opened
    \/ AppendWal \/ ApplyUpsert \/ ApplyDelete
    \/ UpsertSnapshot \/ CloseSnapshot
    \/ CompactSnapshot \/ Truncate \/ WriteSentinel

Failure ==
    \/ AppendFails \/ TornAppend \/ SnapshotFails
    \/ TruncateFails \/ SentinelFails \/ TornSentinel

\* Everything but an opening that goes on without one of the files.
Informed == Write \/ Open \/ Close \/ Step \/ Failure \/ Crash \/ RotSnapshot

Next == Informed \/ ReadFails

Spec == Init /\ [][Next]_vars

-----------------------------------------------------------------------------
(* What the disk alone says: the dictionary that a new process would end   *)
(* up with, defined without replaying, as the last write to each id.       *)

Touching(log, op, after, n, id) ==
    {i \in 1..n : log[i].op = op /\ log[i].id = id /\ log[i].seq > after}

\* The greatest element of S, as a set.
Latest(S) == {i \in S : \A j \in S : j <= i}

\* A record whose last upsert is the latest of the lines `ups`, or which
\* comes from `before`, with the deletes at the lines `dels`.
LastWrite(log, before, ups, dels) ==
    LET last == IF Latest(ups) = {} THEN before
                ELSE log[CHOOSE i \in Latest(ups) : TRUE].rec
    IN  IF last # NoRec /\ \E d \in dels : \A u \in ups : u < d
        THEN [last EXCEPT !.status = "tombstone"] ELSE last

\* The record of `id` after the first n lines of `log` that are later than
\* the snapshot `base` taken at sequence number `after`.
RecordAt(log, base, after, n, id) ==
    LastWrite(log, base[id], Touching(log, "upsert", after, n, id),
                             Touching(log, "delete", after, n, id))

ViewAt(log, base, after, n) == [id \in Ids |-> RecordAt(log, base, after, n, id)]

Base  == IF snap.kind = "ok" THEN snap.records ELSE Empty
After == IF snap.kind = "ok" THEN snap.seq ELSE 0

View == ViewAt(wal, Base, After, Len(wal))

-----------------------------------------------------------------------------
(* Properties.                                                             *)

DiskTypes ==
    /\ wal \in Seq(Line)
    /\ torn \in BOOLEAN
    /\ torn => Len(wal) > 0
    /\ snap \in Snapshot

MemoryTypes ==
    /\ opened \in BOOLEAN
    /\ state \in [Ids -> Cell]
    /\ seq \in Nat
    /\ lastHash \in Seq(Payload)
    /\ since \in Nat

ControlTypes ==
    /\ pc \in {"idle", "load", "replay", "append", "apply", "snapshot", "close",
               "compact", "truncate", "sentinel"}
    /\ req \in Calls
    /\ pc \in {"append", "apply", "snapshot"} => req.op \in {"upsert", "delete"}
    /\ cursor \in Nat
    /\ cursor <= IF pc = "replay" THEN Len(wal) ELSE 0
    /\ struck \subseteq Faults \cup {"split_line"}
    /\ writes \in 0..MaxWrites

\* The type invariant: every variable holds a value of the code's types.
TypeOK == DiskTypes /\ MemoryTypes /\ ControlTypes

\* No opening has gone on without a file that it could not read.
AllRead == "read_fails" \notin struck

\* Nothing has happened that loses or hides an event.
Clean == struck \cap {"torn_append", "split_line", "rot_snapshot", "read_fails"} = {}

\* Nothing has happened that the log shows afterwards.
Intact == struck \subseteq {"snapshot_fails", "rot_snapshot"}

Increasing ==
    \A i, j \in DOMAIN wal :
        (i < j /\ wal[i].op # "garbage" /\ wal[j].op # "garbage") => wal[i].seq < wal[j].seq

\* Sequence numbers strictly increase along events.wal, across restarts,
\* failed and torn appends, compaction and lost snapshots: replay's "already
\* covered" test (_replay_wal) would otherwise drop an event that no snapshot
\* holds.  Only an opening that could not read a file and went on breaks it.
SeqIncreasing == AllRead => Increasing

Settled == opened /\ pc = "idle"

\* What the store answers from memory (get, query) is what a process
\* started on the same files would answer: after every completed or failed
\* call, after every reopening and every recovery from a crash.
AnswersAreDurable == Settled => state = View

\* Only an append that raised half way, a line read as two, a lost snapshot
\* or a file that open could not read can break that.
MemoryMatchesDisk == Clean => AnswersAreDurable

\* The number of the last event on disk.
LastNumber == IF wal = <<>> THEN After ELSE wal[Len(wal)].seq

\* wal_seq() is the number of the last event on disk, whatever was replayed,
\* snapshotted or compacted and whichever process died when: a number that a
\* caller was shown is not given to a later event.  A write that raises breaks
\* it, since _build_event has moved the counter and a restart moves it back.
CounterMatchesLog == (Settled /\ Intact) => seq = LastNumber

\* chain_valid() on the file as it stands.
ChainValid ==
    \A i \in DOMAIN wal :
        /\ wal[i].op # "garbage"
        /\ wal[i].prev = IF i = 1 THEN Genesis ELSE Hash(wal[i - 1])

\* The hash chain stays valid through crashes, recoveries, snapshots and
\* compaction, and through a failed snapshot or a corrupt one; only a failed
\* append, a line read as two, a compaction cut short or a file that open
\* could not read can break it.
ChainHolds == Intact => ChainValid

\* Every event that was logged can be read and none was written blindly.
Tidy == struck \cap {"torn_append", "split_line", "read_fails"} = {}

\* Replaying events.wal with no snapshot at all gives the same dictionary,
\* as long as the log still begins with the first event of the store: what
\* _load_snapshot counts on when it drops a corrupt snapshot.
LogAloneSuffices ==
    (Tidy /\ wal # <<>> /\ wal[1].seq = 1)
        => View = ViewAt(wal, Empty, 0, Len(wal))

LogKept ==
    \/ /\ Len(wal') >= Len(wal)
       /\ \A i \in DOMAIN wal : wal'[i] = wal[i]
    \/ /\ snap.kind = "ok"
       /\ \A i \in DOMAIN wal : wal[i].seq <= snap.seq

\* An event leaves events.wal only when the snapshot on disk covers it, and
\* the log is otherwise only appended to: compact may not truncate before
\* its snapshot is in place.  A line that continues a torn one, a snapshot
\* that rots before the truncation, and a file that open could not read are
\* the exceptions.
LogShrinksOnlyCovered ==
    [][struck' \cap {"torn_append", "rot_snapshot", "read_fails"} = {} => LogKept]_vars

\* The same without exceptions: docs/site/concepts/wal.md describes compact as
\* folding the history into the snapshot.
EventsAreFolded == [][LogKept]_vars

\* An upsert that got past its append is in the file for every later
\* process: a successful append is never swallowed by what stood before it.
AppendedIsReplayed ==
    (pc = "apply" /\ req.op = "upsert") => View[req.id] = req.rec

-----------------------------------------------------------------------------
(* The abstract map this store implements.                                 *)

Promise == INSTANCE EpistemicMap WITH
    db    <- View,
    calls <- IF pc # "idle" /\ req.op \in {"upsert", "delete"} THEN {req} ELSE {},
    taken <- pc \in {"apply", "snapshot"}

\* The writes of a ChronoStore are atomic and durable: crashes at any point,
\* replay, snapshots, compaction and reopening change nothing a caller sees.
\* It is so for as long as nothing happens that loses or hides an event.
ImplementsMap ==
    Promise!AInit /\ [][Clean' => [Promise!ANext]_(Promise!avars)]_vars
====
