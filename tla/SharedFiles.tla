---- MODULE SharedFiles ----
(***************************************************************************)
(* Several ChronoStore instances (src/src/chronomemory/store.py), each in  *)
(* a process of its own, over one events.wal and one snapshot.json, with   *)
(* no lock between them.  Every step that touches a file is one action, so *)
(* that the steps of the instances interleave.  Hashes, unreadable lines   *)
(* and raising calls, which ChronoStore has, are left out here; replaying  *)
(* the text that has been read is one step, as it touches no file.         *)
(*                                                                         *)
(* Two instances that are inside a write call at once also share .wal.tmp; *)
(* what is left behind then is not modelled, and no property speaks of it. *)
(* No action uses the definitions named Bug..., the seeded faults of the   *)
(* runs that show a property can fail.                                     *)
(***************************************************************************)
EXTENDS Naturals, Sequences

CONSTANTS
    Instances,      \* the ChronoStore objects
    Writers,        \* those of them that write
    Ids,            \* record ids
    Values,         \* what a record may hold
    SnapshotEvery,  \* _SNAPSHOT_EVERY
    MaxWrites       \* bound: write calls in a behaviour

ASSUME SharedAssumption ==
    /\ Writers \subseteq Instances
    /\ {"absent", "tombstone"} \cap Values = {}
    /\ SnapshotEvery \in Nat \ {0}
    /\ MaxWrites \in Nat

VARIABLES
    wal,        \* the lines of events.wal
    snap,       \* snapshot.json
    \* of each instance
    opened,     \* self._open
    state,      \* self._state
    seq,        \* self._seq
    since,      \* self._events_since_snapshot
    pc,         \* the step its call is at
    req,        \* that call
    existing,   \* what _append_wal has read of events.wal
    \* bookkeeping that no step of the program reads
    truth,      \* the records after every event that has reached the log
    stale,      \* another instance has changed the log since this one began to open
    blind,      \* ... and has emptied it between the two reads of that opening
    raced,      \* an instance wrote while stale, or while another was writing
    writes      \* write calls so far

memory == <<opened, state, seq, since>>
svars == <<wal, snap, opened, state, seq, since, pc, req, existing,
           truth, stale, blind, raced, writes>>

-----------------------------------------------------------------------------
Cell == Values \cup {"absent", "tombstone"}

Empty == [id \in Ids |-> "absent"]

CompactId == "__compact__"

Event == [seq : Nat, op : {"upsert", "delete"}, id : Ids, value : Cell]
            \cup [seq : Nat, op : {"compact"}, id : {CompactId}, value : {"absent"}]

Upserts == [op : {"upsert"}, id : Ids, value : Values]
Deletes == [op : {"delete"}, id : Ids, value : {"tombstone"}]
CompactCall == [op |-> "compact", id |-> CompactId, value |-> "absent"]
OpenCall == [op |-> "open", id |-> CompactId, value |-> "absent"]

WriteCalls == Upserts \cup Deletes \cup {CompactCall}

Line(n, call) == [seq |-> n, op |-> call.op, id |-> call.id, value |-> call.value]

\* The dictionary after one event.
Applied(m, e) ==
    IF e.op = "upsert" THEN [m EXCEPT ![e.id] = e.value]
    ELSE IF e.op = "delete" /\ m[e.id] # "absent" THEN [m EXCEPT ![e.id] = "tombstone"]
    ELSE m

NoSnapshot == [there |-> FALSE, seq |-> 0, records |-> Empty]

\* The lines of `log` that _replay_wal applies when it starts at number n:
\* those whose number is above n and above every number before them.
Heeded(log, n) ==
    {i \in DOMAIN log : log[i].seq > n /\ \A j \in 1..(i - 1) : log[j].seq < log[i].seq}

\* The last of the lines `lines`.
Latest(lines) == {i \in lines : \A j \in lines : j <= i}

OfId(log, n, op, id) == {i \in Heeded(log, n) : log[i].op = op /\ log[i].id = id}

\* What replay makes of the record of `id`: its last upsert, or what `m` had,
\* marked by a later delete.
Replayed(log, m, n, id) ==
    LET ups == OfId(log, n, "upsert", id)
        last == IF Latest(ups) = {} THEN m[id] ELSE log[CHOOSE i \in Latest(ups) : TRUE].value
    IN  IF last # "absent" /\ \E d \in OfId(log, n, "delete", id) : \A u \in ups : u < d
        THEN "tombstone" ELSE last

ReplayedAll(log, m, n) == [id \in Ids |-> Replayed(log, m, n, id)]

\* self._seq after replay.
LastSeq(log, n) ==
    CHOOSE k \in {n} \cup {log[i].seq : i \in DOMAIN log} :
        k >= n /\ \A i \in DOMAIN log : k >= log[i].seq

-----------------------------------------------------------------------------
SInit ==
    /\ wal = <<>> /\ snap = NoSnapshot
    /\ opened = [p \in Instances |-> FALSE]
    /\ state = [p \in Instances |-> Empty]
    /\ seq = [p \in Instances |-> 0]
    /\ since = [p \in Instances |-> 0]
    /\ pc = [p \in Instances |-> "idle"]
    /\ req = [p \in Instances |-> OpenCall]
    /\ existing = [p \in Instances |-> <<>>]
    /\ truth = Empty
    /\ stale = [p \in Instances |-> FALSE]
    /\ blind = [p \in Instances |-> FALSE]
    /\ raced = FALSE /\ writes = 0

\* The instance is past the opening and inside a write.
Writing(p) == pc[p] \in {"append", "rename", "snapshot", "close", "compact", "truncate", "sentinel"}

\* Bookkeeping of a step of p that writes a file.
Races(p) == raced' = (raced \/ stale[p] \/ \E q \in Instances \ {p} : Writing(q))

\* Bookkeeping of a step of p that changes the log.
Overtakes(p) == stale' = [q \in Instances |-> IF q = p THEN stale[q] ELSE TRUE]

Goto(p, label) == pc' = [pc EXCEPT ![p] = label]

BugCompactIsAppended(call) == IF call.op = "open" THEN "idle" ELSE "append"

FirstStep(call) ==
    IF call.op = "compact" THEN "compact" ELSE IF call.op = "open" THEN "idle" ELSE "append"

Begin(p, call) ==
    /\ pc[p] = "idle"
    /\ req' = [req EXCEPT ![p] = call]
    /\ Goto(p, IF opened[p] /\ call.op # "open" THEN FirstStep(call) ELSE "load")
    /\ UNCHANGED <<wal, snap, memory, existing, truth, stale, blind, raced>>

Open(p) == Begin(p, OpenCall) /\ UNCHANGED writes

Write(p) ==
    /\ p \in Writers
    /\ writes < MaxWrites
    /\ writes' = writes + 1
    /\ \E call \in WriteCalls : Begin(p, call)

-----------------------------------------------------------------------------
(* open: snapshot.json is read first and events.wal after it.              *)

BugNumberWithoutRecords(p) ==
    /\ pc[p] = "load"
    /\ seq' = [seq EXCEPT ![p] = IF snap.there THEN snap.seq ELSE seq[p]]
    /\ Goto(p, "read")
    /\ stale' = [stale EXCEPT ![p] = FALSE]
    /\ blind' = [blind EXCEPT ![p] = FALSE]
    /\ UNCHANGED <<wal, snap, opened, state, since, req, existing, truth, raced, writes>>

LoadSnapshot(p) ==
    /\ pc[p] = "load"
    /\ IF snap.there
       THEN /\ seq' = [seq EXCEPT ![p] = snap.seq]
            /\ state' = [state EXCEPT ![p] = [id \in Ids |->
                             IF snap.records[id] # "absent" THEN snap.records[id]
                             ELSE state[p][id]]]
       ELSE UNCHANGED <<seq, state>>
    /\ Goto(p, "read")
    /\ stale' = [stale EXCEPT ![p] = FALSE]
    /\ blind' = [blind EXCEPT ![p] = FALSE]
    /\ UNCHANGED <<wal, snap, opened, since, req, existing, truth, raced, writes>>

ReplayWal(p) ==
    /\ pc[p] = "read"
    /\ state' = [state EXCEPT ![p] = ReplayedAll(wal, state[p], seq[p])]
    /\ seq' = [seq EXCEPT ![p] = LastSeq(wal, seq[p])]
    /\ opened' = [opened EXCEPT ![p] = TRUE]
    /\ Goto(p, FirstStep(req[p]))
    /\ UNCHANGED <<wal, snap, since, req, existing, truth, stale, blind, raced, writes>>

-----------------------------------------------------------------------------
(* upsert and delete.  _append_wal reads the whole log, writes it with one *)
(* more line to another file and renames that over the log.                *)

ReadExisting(p) ==
    /\ pc[p] = "append"
    /\ seq' = [seq EXCEPT ![p] = @ + 1]
    /\ existing' = [existing EXCEPT ![p] = wal]
    /\ Goto(p, "rename")
    /\ UNCHANGED <<wal, snap, opened, state, since, req, truth, stale, blind, raced, writes>>

BugRenameLeavesMemory(p) ==
    /\ pc[p] = "rename"
    /\ LET e == Line(seq[p], req[p]) IN
         /\ wal' = Append(existing[p], e)
         /\ truth' = Applied(truth, e)
    /\ existing' = [existing EXCEPT ![p] = <<>>]
    /\ Goto(p, "idle")
    /\ Overtakes(p) /\ Races(p)
    /\ UNCHANGED <<snap, opened, state, seq, since, req, blind, writes>>

\* The rename, and what the instance then does to its own memory.
Rename(p) ==
    /\ pc[p] = "rename"
    /\ LET e == Line(seq[p], req[p]) IN
         /\ wal' = Append(existing[p], e)
         /\ truth' = Applied(truth, e)
         /\ state' = [state EXCEPT ![p] = Applied(@, e)]
    /\ existing' = [existing EXCEPT ![p] = <<>>]
    /\ since' = [since EXCEPT ![p] = @ + 1]
    /\ Goto(p, IF req[p].op = "upsert" /\ since[p] + 1 >= SnapshotEvery
               THEN "snapshot" ELSE "idle")
    /\ Overtakes(p) /\ Races(p)
    /\ UNCHANGED <<snap, opened, seq, req, blind, writes>>

WriteSnapshot(p) ==
    /\ snap' = [there |-> TRUE, seq |-> seq[p], records |-> state[p]]
    /\ Races(p)

UpsertSnapshot(p) ==
    /\ pc[p] = "snapshot"
    /\ WriteSnapshot(p)
    /\ since' = [since EXCEPT ![p] = 0]
    /\ Goto(p, "idle")
    /\ UNCHANGED <<wal, opened, state, seq, req, existing, truth, stale, blind, writes>>

Close(p) ==
    /\ pc[p] = "idle"
    /\ opened[p]
    /\ IF since[p] >= SnapshotEvery
       THEN Goto(p, "close") /\ UNCHANGED opened
       ELSE opened' = [opened EXCEPT ![p] = FALSE] /\ UNCHANGED pc
    /\ UNCHANGED <<wal, snap, state, seq, since, req, existing, truth, stale, blind, raced, writes>>

CloseSnapshot(p) ==
    /\ pc[p] = "close"
    /\ WriteSnapshot(p)
    /\ opened' = [opened EXCEPT ![p] = FALSE]
    /\ Goto(p, "idle")
    /\ UNCHANGED <<wal, state, seq, since, req, existing, truth, stale, blind, writes>>

-----------------------------------------------------------------------------
(* compact.                                                                *)

BugNoSnapshotBeforeTruncate(p) ==
    /\ pc[p] = "compact"
    /\ Goto(p, "truncate")
    /\ UNCHANGED <<wal, snap, memory, req, existing, truth, stale, blind, raced, writes>>

CompactSnapshot(p) ==
    /\ pc[p] = "compact"
    /\ WriteSnapshot(p)
    /\ Goto(p, "truncate")
    /\ UNCHANGED <<wal, memory, req, existing, truth, stale, blind, writes>>

Truncate(p) ==
    /\ pc[p] = "truncate"
    /\ wal' = <<>>
    /\ seq' = [seq EXCEPT ![p] = @ + 1]
    /\ Goto(p, "sentinel")
    /\ blind' = [q \in Instances |-> blind[q] \/ (q # p /\ pc[q] = "read")]
    /\ Overtakes(p) /\ Races(p)
    /\ UNCHANGED <<snap, opened, state, since, req, existing, truth, writes>>

WriteSentinel(p) ==
    /\ pc[p] = "sentinel"
    /\ wal' = <<Line(seq[p], CompactCall)>>
    /\ since' = [since EXCEPT ![p] = 0]
    /\ Goto(p, "idle")
    /\ Overtakes(p) /\ Races(p)
    /\ UNCHANGED <<snap, opened, state, seq, req, existing, truth, blind, writes>>

-----------------------------------------------------------------------------
\* The process of one instance dies and starts again.
Crash(p) ==
    /\ opened' = [opened EXCEPT ![p] = FALSE]
    /\ state' = [state EXCEPT ![p] = Empty]
    /\ seq' = [seq EXCEPT ![p] = 0]
    /\ since' = [since EXCEPT ![p] = 0]
    /\ Goto(p, "idle")
    /\ req' = [req EXCEPT ![p] = OpenCall]
    /\ existing' = [existing EXCEPT ![p] = <<>>]
    /\ stale' = [stale EXCEPT ![p] = FALSE]
    /\ blind' = [blind EXCEPT ![p] = FALSE]
    /\ UNCHANGED <<wal, snap, truth, raced, writes>>

SStep(p) ==
    \/ Open(p) \/ Write(p) \/ Close(p)
    \/ LoadSnapshot(p) \/ ReplayWal(p)
    \/ ReadExisting(p) \/ Rename(p) \/ UpsertSnapshot(p) \/ CloseSnapshot(p)
    \/ CompactSnapshot(p) \/ Truncate(p) \/ WriteSentinel(p)
    \/ Crash(p)

SNext == \E p \in Instances : SStep(p)

SSpec == SInit /\ [][SNext]_svars

-----------------------------------------------------------------------------
(* Properties.                                                             *)

\* The type invariant.
STypeOK ==
    /\ wal \in Seq(Event)
    /\ snap \in [there : BOOLEAN, seq : Nat, records : [Ids -> Cell]]
    /\ opened \in [Instances -> BOOLEAN]
    /\ state \in [Instances -> [Ids -> Cell]]
    /\ seq \in [Instances -> Nat] /\ since \in [Instances -> Nat]
    /\ pc \in [Instances -> {"idle", "load", "read", "append", "rename", "snapshot", "close",
                             "compact", "truncate", "sentinel"}]
    /\ req \in [Instances -> WriteCalls \cup {OpenCall}]
    /\ \A p \in Instances : pc[p] \in {"append", "rename", "snapshot"} =>
                                req[p] \in Upserts \cup Deletes
    /\ existing \in [Instances -> Seq(Event)]
    /\ truth \in [Ids -> Cell]
    /\ stale \in [Instances -> BOOLEAN] /\ blind \in [Instances -> BOOLEAN]
    /\ raced \in BOOLEAN /\ writes \in 0..MaxWrites

\* What a process that starts now would read.
OnDisk == ReplayedAll(wal, snap.records, snap.seq)

\* As long as writers take turns, each opening the store after the one before
\* it has finished, no event that reached the log is ever lost: not by the
\* numbers of another instance, by its snapshots or compactions, nor by a
\* process that dies inside one.
WritesSurvive == ~raced => OnDisk = truth

\* An instance that opens while another one writes gets the records as they
\* are at the moment it reads the log, whatever is appended or snapshot
\* around it, unless a compaction emptied the log after it had read the
\* snapshot.
OpenSeesNow ==
    [][\A p \in Instances :
          (pc[p] = "read" /\ opened'[p] /\ pc'[p] # "read" /\ ~raced /\ ~blind[p])
              => state'[p] = truth]_svars

\* Until another instance writes, an open store answers with what is on disk
\* and numbers its next event past everything there.
CurrentUntilOvertaken ==
    \A p \in Instances :
        (opened[p] /\ pc[p] = "idle" /\ ~stale[p] /\ ~raced) =>
            state[p] = truth /\ \A i \in DOMAIN wal : wal[i].seq <= seq[p]

\* Concurrent readers get a consistent snapshot: an instance that has read as
\* far as the last event has the records as that event left them.
ReadersAreConsistent ==
    \A p \in Instances :
        (opened[p] /\ pc[p] = "idle" /\ wal # <<>> /\ seq[p] = wal[Len(wal)].seq) =>
            state[p] = truth
====
