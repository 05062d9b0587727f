---- MODULE ChronoStoreInv ----
(***************************************************************************)
(* The inductive invariants behind the safety properties of ChronoStore.   *)
(***************************************************************************)
EXTENDS ChronoStore

Within(n) == \A i \in DOMAIN wal : wal[i].seq <= n

\* The counter in memory is past every number on disk.
Ahead == Within(seq) /\ (snap.kind = "ok" => snap.seq <= seq)

(***************************************************************************)
(* Numbering.  An open store numbers its next event past everything on     *)
(* disk; while it reloads, past everything it has read.                    *)
(***************************************************************************)
Positive == \A i \in DOMAIN wal : wal[i].op # "garbage" => wal[i].seq >= 1

CountsAhead == (opened /\ pc \notin {"load", "replay"}) => Ahead

CountsRead == pc = "replay" =>
    /\ \A i \in 1..cursor : wal[i].seq <= seq
    /\ snap.kind = "ok" => snap.seq <= seq

WorkingIsOpen == pc \notin {"idle", "load", "replay"} => opened

AtSentinel == pc = "sentinel" =>
    /\ wal = <<>>
    /\ torn = FALSE
    /\ seq >= 1
    /\ snap.kind = "ok" => snap.seq < seq

NumberInv == /\ TypeOK /\ Increasing /\ Positive /\ CountsAhead /\ CountsRead
             /\ WorkingIsOpen /\ AtSentinel

(***************************************************************************)
(* Contents.  A closed or reloading store either has a new process's empty *)
(* memory or still holds the dictionary that the disk gives; replay moves  *)
(* the first towards the second line by line.                              *)
(***************************************************************************)
Readable ==
    /\ torn = FALSE
    /\ \A i \in DOMAIN wal : wal[i].op # "garbage"
    /\ snap.kind # "corrupt"

Fresh == state = Empty /\ seq = 0

Current == state = View /\ Ahead

HoldsView == (opened /\ pc \notin {"load", "replay", "apply"}) => state = View

HoldsViewButOne == pc = "apply" => View = Applied(state, req)

StartsFreshOrCurrent == (pc = "load" \/ (pc = "idle" /\ ~opened)) => (Fresh \/ Current)

\* Each entry is what the lines read so far make of it, unless a later line
\* is going to replace it anyway.
Replaying ==
    /\ seq >= After
    /\ seq = After \/ \E i \in 1..cursor : wal[i].seq = seq
    /\ \A id \in Ids :
         \/ state[id] = RecordAt(wal, Base, After, cursor, id)
         \/ Touching(wal, "upsert", After, Len(wal), id) \cap (cursor + 1 .. Len(wal)) # {}

ReplaysTowardsView == pc = "replay" => (Current \/ Replaying)

SnapshotTakenBeforeTruncate == pc = "truncate" =>
    snap.kind = "ok" /\ snap.records = state /\ Within(snap.seq)

DataInv == Clean =>
    /\ Readable /\ HoldsView /\ HoldsViewButOne /\ StartsFreshOrCurrent
    /\ ReplaysTowardsView /\ SnapshotTakenBeforeTruncate

(***************************************************************************)
(* Hashes.  Whenever the counter has reached the last line, the hash in    *)
(* memory is that line's; the same holds of the pair in the snapshot.      *)
(***************************************************************************)
TailHash == IF wal = <<>> THEN Genesis ELSE Hash(wal[Len(wal)])

MemoryHash == (pc # "sentinel" /\ Within(seq)) => lastHash = TailHash

SnapshotHash ==
    (snap.kind = "ok" /\ pc # "sentinel" /\ Within(snap.seq)) => snap.last_hash = TailHash

SentinelHash == pc = "sentinel" => lastHash = Hash(Sentinel(seq))

ChainInv == Intact => ChainValid /\ torn = FALSE /\ MemoryHash /\ SnapshotHash /\ SentinelHash

(***************************************************************************)
(* Truncation.  compact empties the log only behind a snapshot of all of it.*)
(***************************************************************************)
TruncateInv == struck \cap {"torn_append", "rot_snapshot"} = {} =>
    /\ torn = FALSE
    /\ pc = "truncate" => snap.kind = "ok" /\ Within(snap.seq)

(***************************************************************************)
(* Counting.  While nothing has failed the last line has the greatest      *)
(* number that the memory or the snapshot holds.                           *)
(***************************************************************************)
TailNumber == IF wal = <<>> THEN 0 ELSE wal[Len(wal)].seq

CounterInv == (Intact /\ pc # "sentinel") =>
    /\ seq <= TailNumber
    /\ snap.kind = "ok" => snap.seq <= TailNumber

\* Texts that stay on one line are never read back as two.
SplitInv == Splitting = {} => "split_line" \notin struck

(***************************************************************************)
(* The log alone.  While it begins with the first event and no line of it   *)
(* is lost, the snapshot and the memory are what some first lines of it    *)
(* give, up to the number that comes with them; a memory that is being     *)
(* replayed may differ where a later line is going to replace it.          *)
(***************************************************************************)
FromStart == wal # <<>> /\ wal[1].seq = 1

\* What the first k lines of a log make of an id, from nothing.
FromLog(log, k, id) == RecordAt(log, Empty, 0, k, id)

\* The lines up to number s are the first k.
Reaches(log, k, s) == /\ \A i \in 1..k : log[i].seq <= s
                      /\ \A i \in k + 1 .. Len(log) : log[i].seq > s

Upserted(log, k, id) ==
    \E i \in k + 1 .. Len(log) : log[i].op = "upsert" /\ log[i].id = id

Covers(log, rs, s) ==
    \E k \in 0..Len(log) : /\ Reaches(log, k, s)
                            /\ \A id \in Ids : rs[id] = FromLog(log, k, id)

Approaches(log, rs, s) ==
    \E k \in 0..Len(log) : /\ Reaches(log, k, s)
                            /\ \A id \in Ids : \/ rs[id] = FromLog(log, k, id)
                                               \/ Upserted(log, k, id)

\* An empty log with nothing numbered before it has nothing to lose.
NothingYet ==
    /\ pc # "apply"
    /\ seq = 0 => state = Empty
    /\ pc = "sentinel" /\ seq = 1 => state = Empty
    /\ snap.kind = "none" => state = Empty
    /\ snap.kind = "ok" /\ snap.seq = 0 => snap.records = Empty /\ state = Empty

CoveredSnapshot == snap.kind = "ok" => Covers(wal, snap.records, snap.seq)

CoveredMemory ==
    /\ pc \notin {"replay", "apply"} => Covers(wal, state, seq)
    /\ pc = "apply" => Covers(wal, Applied(state, req), seq)
    /\ pc = "replay" => Approaches(wal, state, seq)

\* The snapshot that compact has just written, unless it has become unreadable.
SnapshotTaken == pc = "truncate" =>
    /\ snap.kind # "none"
    /\ snap.kind = "ok" => snap.seq = seq /\ snap.records = state

ReadableLog == torn = FALSE /\ \A i \in DOMAIN wal : wal[i].op # "garbage"

Complete == /\ ReadableLog
            /\ wal = <<>> => NothingYet
            /\ FromStart => CoveredSnapshot /\ CoveredMemory

AloneInv == SnapshotTaken /\ (Tidy => Complete)

\* The inductive invariant of the store.  Nothing is left of it once an
\* opening has gone on without a file: what is numbered, linked, held in memory
\* and snapshotted then may all be behind the log.
StoreInv == AllRead => /\ NumberInv /\ DataInv /\ ChainInv /\ CounterInv
                       /\ TruncateInv /\ SplitInv /\ AloneInv
====
