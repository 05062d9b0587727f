# ChronoMemory in TLA+

ChronoMemory is an epistemic state database for coding agents: records with a
status and a confidence, kept in a hash-chained write-ahead log
(`.chronomemory/events.wal`) and a snapshot, with a dependency graph between
the records and a rollback that cascades along it. There are two engines that
share the file format: a Python package (`src/src/chronomemory`) and a Rust
crate (`src/crates/chronomemory`) with Python bindings.

This directory holds TLA+ modules that model the program, TLC configurations
that check them on small instances, and proofs that TLAPS checks for every
value of the constants. Paths below are relative to the repository; in
`PROJECT.json`, whose `map` gives the lines of code behind every definition,
they start with `src/`.

## 1. The system

| Component | State | Operations | Hard behaviour | What makes it correct |
|---|---|---|---|---|
| `store.py` ChronoStore | files `events.wal`, `snapshot.json`; memory `_state`, `_seq`, `_last_hash`, `_events_since_snapshot`, `_open` | open, close, upsert, delete, query/get, compact, chain_valid, replay, backup, export, migrate | crash between any two writes of the two files; partial appends; failed renames; a snapshot that rots; reopening over old memory; a second instance on the same files | acknowledged writes survive, half-done calls are all or nothing, numbers increase, the chain stays valid, the log shrinks only behind a snapshot |
| `deps.py` DepGraph | `_edges` in memory, one record per edge in the store | from_store, add_edge, remove_edge, predecessors, successors, transitive queries | memory changes before the store; ids of edge records may collide; a graph object does not see another one's edges | the graph in use is the one a restart loads |
| `rollback.py` invalidate | locals of the walk; live record objects of the store | invalidate | one store write per record, so a crash or exception leaves part of the cascade; cycles; ids without records; live objects changed before they are logged | exactly the dependents are downgraded, once; the walk ends; every downgrade is documented |
| `bridge.py` EsdbBridge | a cached open store, or none | status, requirements, testcases, counts, upsert, delete | caches an open store against other writers; falls back to JSON files | reads come from the store when there is one |
| `store.py` migrate_from_json | none of its own | one pass over two JSON files | runs repeatedly; skips what looks unchanged | running it twice changes nothing more; nothing deleted comes back |
| `query.py` | none | what_* and why_* reads | boundaries of sequence numbers, cycles, several modules that must agree on what is active | each answers its question, and nothing that rests on an invalidated record is offered |
| `context_pack.py` | none | compile | greedy choice under a token budget | within the budget and using it, only eligible records, each record in exactly one list, more trusted ones first |
| `metrics.py` | records in the store, under ids made of a name and the clock | record_token_metric, record_skill_run, averages | ids may meet when the clock stands still or is set back | no recording is lost to another task's; averages are over the right records |
| Rust `wal.rs` | file, `seq`, `prev_hash` | open, append, read_all, verify_chain | `seq` moves before the write, `prev_hash` after it; partial lines | as for the Python log |
| Rust `store.rs`, `replay.rs`, `dependency.rs`, `lib.rs` | records, `by_kind` index, edges, epoch | commit, add_edge, query_*, invalidate, replay_full | the index is appended to on every upsert; memory against a replay of the log | the index agrees with the records; replay rebuilds memory |
| Rust `rollback.rs` | none | rollback | changes memory before logging, and decays confidences it never logs | what is rolled back stays so after a reopening |
| Rust `projection.rs` | none | project | an advisory check that commit does not consult | rejected proposals do not enter |
| Rust `context_pack.rs`, `query.rs`, `metrics.rs` | none | reads and sums | as the Python ones | as the Python ones |
| `chronomemory-py` bindings | a Mutex around the Rust engine | new, upsert, get, query, delete | delete is not logged; unlocks and relocks | agrees with the Python API |
| `types.rs`, `__init__.py` | | declarations | | |

How they interact: a DepGraph writes its edges through the store's upsert and
delete; invalidate reads and writes records through the store and walks the
DepGraph; query and context pack read both; the bridge owns a store; both
engines open the same `events.wal`. Everything inside one process is
synchronous calls on one thread (`store.py:158`: "safe to use from a single
thread"), so the interleavings that matter are those of a process with crashes,
with failures of single file operations, and, when several instances share the
files, with each other.

What could go wrong at which line is listed under `hazards` in `PROJECT.json`,
each with the properties that are about it or the reason there is none.

## 2. The modules

| Module | Role |
|---|---|
| `FiniteLemmas` | facts that several proofs need: the least element of a set of numbers, sums over finite sets, breadth-first searches |
| `EpistemicMap` | abstract: one durable map with atomic writes, what a caller of the store counts on |
| `ChronoStore` | `store.py`: both files, memory, every step the disk can tell apart, faults, properties, refinement mapping |
| `ChronoStoreInv` | the inductive invariant of `ChronoStore` |
| `ChronoStoreProofs` | TLAPS theorems about `ChronoStore` and `StoreQueries` |
| `StoreQueries` | `replay(from_seq)` and `what_changed_since` over a `ChronoStore` |
| `MCChronoStore` | instances of these for TLC |
| `SharedFiles`, `MCSharedFiles` | several instances of the store on the same two files, interleaved at every file access |
| `SharedFilesProofs` | TLAPS theorems about `SharedFiles`, with its inductive invariant |
| `DepGraph` | `deps.py`: the edges in memory and their records |
| `Rollback` | `rollback.py` on a store and a `DepGraph` (which it extends), among the other writes of the program |
| `Queries` | the transitive searches of `deps.py` and the queries of `query.py` around a rollback, over the state of `Rollback` |
| `RollbackProofs` | TLAPS theorems about `Rollback`, `DepGraph` and `Queries`, with the inductive invariant |
| `MCRollback` | instances of these for TLC |
| `Migration` | `migrate_from_json`, item by item, between edits of the files and other writes |
| `Bridge` | `bridge.py`, a program that keeps a store open next to the one of `Migration` (which it extends) |
| `BridgeProofs` | TLAPS theorems about `Migration` and `Bridge` |
| `MCBridge` | instances of these for TLC |
| `ContextPack`, `MCContextPack` | `context_pack.py`: one call of `compile` on any store |
| `ContextPackProofs` | TLAPS theorems about `ContextPack` |
| `Metrics`, `MCMetrics` | `metrics.py` under a clock that may stand still or be set back |
| `MetricsProofs` | TLAPS theorems about `Metrics` |
| `RustEsdb` | the Rust engine: `wal.rs`, `store.rs`, `replay.rs`, `rollback.rs`, `dependency.rs`, `lib.rs`, and `delete` of the bindings |
| `RustEsdbProofs` | TLAPS theorems about `RustEsdb` |
| `MCRustEsdb` | instances for TLC |

Definitions whose name begins with `Bug` are seeded faults: each stands for the
definition below it when one wants to see that a property can fail, and no
action uses one.

### ChronoStore

*State.* `wal` is the sequence of lines of `events.wal`, `torn` says that the
last one has no newline, `snap` is `snapshot.json` (absent, good or corrupt).
`opened`, `state`, `seq`, `lastHash`, `since` are the attributes of the object.
`pc`, `req`, `cursor` say which call is running and how far it is. `struck`
(which faults have happened) and `writes` (a bound) are bookkeeping.

*Actions.* A call is split at the points where a crash leaves different
files, or where memory and files differ:

| Code | Actions |
|---|---|
| `upsert`, `delete`, `compact` begin, with the lazy `open` | `Write` (`Call`) |
| `open()`, or a read of a closed store | `Open` |
| `_load_snapshot` | `LoadSnapshot` |
| `_replay_wal`, one line at a time, with its guard `seq <= self._seq and self._seq > 0` | `SkipLine`, `ReplayLine`, `Opened` |
| a file that `open` cannot read: `except` in `_load_snapshot` (start from nothing), `except OSError` in `_replay_wal` (return) | `ReadFails` (`SnapshotUnread`, `LogUnread`) |
| `_build_event` and `_append_wal` | `AppendWal`, `AppendFails`, `TornAppend` |
| the rest of `upsert` and `delete` | `ApplyUpsert`, `ApplyDelete` |
| `_write_snapshot` in upsert, close, compact | `UpsertSnapshot`, `CloseSnapshot`, `CompactSnapshot`, `SnapshotFails` |
| `close` | `Close` |
| `compact` after the snapshot: `open("w")`, then the write | `Truncate`, `TruncateFails`, `WriteSentinel`, `SentinelFails`, `TornSentinel` |
| the process dies | `Crash` |
| the snapshot on disk becomes unreadable | `RotSnapshot` |

The temp-file path of `_append_wal` and its fallback end in the same file when
they succeed, so `AppendWal` is both. Its failures need both ways to fail:
`AppendFails` leaves the file; `TornAppend` leaves part of a line, all of it but
the newline, or all of it, which is also what an `unlink` that raises in `finally`
leaves. In each of these the caller gets an exception and memory is not updated,
and in each `_build_event` has already advanced the counter and the hash.
`ReadFails` damages nothing on disk: the file is there, and this opening goes on
without it. A step between reading the two files is where another program, or
the system, can make a read fail.

*Abstractions.* A SHA-256 is the sequence of the payloads it commits to, so
two hashes are equal exactly when the histories are; collisions are assumed
away. Timestamps, `recursion_depth` and the fields of a record other than its
status are one value, `content`. A line that is not JSON is `Garbage`. JSON
conversion keeps a record as it is except for the contents of the constant
`Splitting`: `json.dumps(ensure_ascii=False)` leaves U+0085, U+2028 and U+2029
in the line, `str.splitlines()` breaks there, and every reader then finds two
lines that do not parse (`AsRead`).

*The promise.* `EpistemicMap` has a map, the call in progress and whether it
has taken effect. `Promise` maps `View`, the dictionary that the two files
denote, to the map; a call takes effect when its event is in the file.
`View` is defined without replaying, as the last write to each id, so the
comparison of memory with `View` is a check of the replay.

`StoreQueries` adds the two reads that go to the log instead of the dictionary.
`replay(n)` returns the events from number `n` on, `n` included, and
`what_changed_since` the ids upserted by them that the dictionary still has. The
number that a caller asks with is one that `_build_event` gave to an event it has
seen (`NumberOf`), or the present `wal_seq()`, which is `seq` and not what the file
says; `CounterMatchesLog` is about when the two are the same.

### SharedFiles

Each instance has the attributes of its object, the step its call is at (`pc`,
`req`) and, while it appends, the log as it read it (`existing`): `_append_wal`
reads the whole file, writes it with one more line to another file, and renames
that over the log. Every access to a file is one action; replaying the text that
has been read touches no file and is one step, defined by which lines are heeded
(`Heeded`) and which of them is the last for an id (`Replayed`).

| Code | Actions |
|---|---|
| a write call, or a read of a closed store, begins | `Write`, `Open` |
| `_load_snapshot`, then `_replay_wal` | `LoadSnapshot`, `ReplayWal` |
| `_append_wal`: the read, then the rename, and the rest of upsert or delete | `ReadExisting`, `Rename` |
| `_write_snapshot` | `UpsertSnapshot`, `CloseSnapshot`, `CompactSnapshot` |
| `close` | `Close` |
| `compact`: `open("w")`, then the sentinel | `Truncate`, `WriteSentinel` |
| one of the processes dies and starts again | `Crash` |

`truth` is what the log has ever been told, in the order of the renames; `stale`
says that another instance has changed the log since this one began to open,
`blind` that one emptied it between the two reads of the opening, and `raced`
that an instance wrote while stale or while another one was inside a write. The
project documents one writer at a time, so the properties are conditional on
`~raced`; readers are never restricted. Reads and writes of files do not fail in
this module.

### DepGraph, Rollback and Queries

A write of the store is one step here: that is what `ChronoStore` is shown to
implement. `mem` and `disk` are the records in memory and those that a new
process would load. They differ only after a write that raised, because
`invalidate` changes the objects that `store.get` returns before it upserts
them (`RecordWriteFails`); a write may also raise after its append has
succeeded, so both outcomes are there. `StoreSnapshot` may happen at any time
and persists memory, since a snapshot holds whatever the objects hold by then.
The walk has one action per iteration of the loop (`SkipVisited`,
`SkipMissing`, `Downgrade`), then `LogEvent`. The queue is a set: the code
takes elements in order, the model in any order, so what is shown holds for
every order, the code's included. Of a confidence only the number of halvings
is kept.

`events[t]` is the stored record `ROLLBACK-<t>`: none, or what the last
invalidation of `t` reported. `WriteEvent` replaces it, since it is an upsert
under the same id; `superseded` keeps the ids that a replaced record named and the
new one does not. An exception at the last step may come before or after the
record is written (`EventWriteFails`).

`rows` are the edge records, under the ids that `EdgeIdOf` gives to edges. In
the runs it is the hyphen join of `deps.py:59`, for record ids like `R`, `R-R` and
`R-R-R-R`: an edge and its reverse share a record, other edges do not
(`HyphenIdOf`). `raised` are the record ids of edges whose last write has raised,
before or after its append. The initial states are every graph of at most
`MaxEdges` edges, no two under one id, over records that may or may not exist.

`Queries` has the functions as operators over that state. Kinds and the
confidence that a record was put in with are parameters, and the properties hold
for any. A breadth-first search is a function of its rounds (`Reached`).

### Migration and Bridge

`files` are the two JSON files, `db` the records of the store of the migrating
program, `wal` whether `events.wal` exists. An upsert takes effect, raises, or
both; a program whose call has raised opens the store again, so that memory and
disk agree in it. A call of `migrate_from_json` reads a file as a whole
(`ReadFile`) and goes through its items: `PassOver` (not an object, or no id),
`BadStatus` (`lower()` raises on a status that is not a string, before anything is
compared), `Skip` (same title, same mapped status), `Import`, `BadConfidence`
(`float()` raises, unless the item was skipped), `ImportRaises`, then `EndOfFile`
and `Return`. People edit the files at any time (`EditFile`); deletes and rollbacks
change statuses between calls (`ChangeStatus`); the process may die between any two
steps (`Crash`).

`Bridge` adds `held`, the dictionary of the store that the bridge has opened,
`lists`, the JSON lists it has read and kept, and two pieces of bookkeeping:
`overtaken` (another program has written since it opened) and `missed` (the ids of
which an event is in the log that the dictionary has not seen). `ReadStore` is the
first call that finds a log and opens it; `ReadLists` is a read without a log, or
one whose opening raises, which `_get_store` catches (`FallsBack`); such a read
answers from the lists, and a later one may answer from the store again (`Answer`).
`BridgeUpsert` and `BridgeDelete` are the writes, which do nothing without a store.
A write puts its event in the log and then in the dictionary (`Put`); one that
raises, for which the bridge returns `False`, has left the log alone or has its
event in the log and not in the dictionary (`PutRaises`). `BridgeRestarts` is a new
process. The bridge writes only when nobody else has written since it opened its
store and no migration is running: the single-writer rule, whose other side
`SharedFiles` shows.

### ContextPack

One call of `compile`: the scan (`Exclude`, `Admit`) in the order of the
dictionary, then the candidates in the order of the stable sort (`Foremost`
instead of a sorted list), each taken or dropped (`Take`, `Drop`). Labels and
goals count only by whether they share a word, `size` is the number of
characters that the estimate of tokens divides by four, and confidences are
tenths. `WhatIsKnown` is the function of `query.py` on the same dictionary.

### Metrics

An id is made of the kind, the name and the clock in milliseconds, so `Stamp` is
that triple. `ClockChanges` sets the clock to any other value: time passes or is
set back. The report is computed from the records that are there
(`TokenEfficiencyReport`) and compared with the history of what was recorded. A
mean is the pair of a sum and a number.

### RustEsdb

One `Esdb` handle on its log. `wal` and `torn` are the file, `seq` and
`prevHash` the `WalWriter`, `records` and `byKind` the `Store`, `edges` the
`DepGraph` (whose forward and reverse lists hold the same edges; how often an
edge was added is left out, no query that is modelled depends on it). There is
no snapshot, so a handle is rebuilt from the log alone.

| Code | Actions |
|---|---|
| `Esdb::open`: `replay_full` and `WalWriter::open` | `Open`, `ReplayEntry`, `Opened`, and `OpenFails` at a line that is not UTF-8 |
| `commit`, `add_edge` | `Commit`, `AddEdge`, and `CallFails` when the append returns an error |
| `rollback::rollback`, in memory | `Rollback` |
| the appends of `Esdb::rollback` after it, one per step | `LogRollback`, `LogInvalidate`, `RollbackFails` |
| `RustChronoStore.delete` | `PyDelete` |
| the process ends or dies | `Crash` |

`append` adds one to the number before it writes and moves the hash after it
has written (`AppendOk`, `AppendErr`). It writes the line and its newline with
two calls to a file opened in append mode: what is there after an error, or
after the process died between the two, is nothing, part of a line, or a line
without its newline, and the next append continues that line (`AppendLine`). A line
that does not parse is skipped (`Garbage`); one that was cut inside a character is
not UTF-8, `lines()` returns an error, and the log cannot be opened (`NotUtf8`,
`Joined`, `OpenFails`), while a handle that is open goes on.

A commit takes a new record or one that `get` returned. Confidences are the members
of `Confidences`; `Decay` is the product with 0.85, and `ReadBack` what the number
becomes when it is written as JSON and parsed by `serde_json`, which without its
feature `float_roundtrip` may be the neighbouring number. So the entries that
`read_all` returns (`Parse`) need not be those that were written, and `Verifies`
has both checks of `verify_chain`: the link, and the hash recomputed from the parsed
entry. `Exact` says that every confidence in the log reads back as written.
`NotNumbers` are the NaN among the confidences: a `RustRecord` takes any `f64` and
`clamp` leaves NaN as it is, `serde_json` writes `null` for it, and `replay_full`
passes over an upsert whose record does not deserialise (`Accepted`).

`unlogged` and `decayed` are bookkeeping: the ids invalidated in memory and not in
the log, by a rollback in progress or cut short, or by `PyDelete`; and those whose
confidence a rollback has changed in memory. What the log says is defined without
replaying it (`Logged`, `InLogOrder`, `LoggedEdges`), so that `OpeningRecovers` and
`LiveIsReplayed` check the replay.

## 3. The runs

| Run | Module, configuration | Result | Shows |
|---|---|---|---|
| `store_faults` | `MCChronoStore`, `StoreFaults.cfg` | passes, 9.5 million states | every fault at once, files that cannot be read included: `TypeOK`, `SeqIncreasing`, `MemoryMatchesDisk`, `ChainHolds`, `LogAloneSuffices`, `ChangesAreReported`, `CounterMatchesLog`, `LogShrinksOnlyCovered`, and the refinement `ImplementsMap` |
| `store_unread_log` | `StoreUnreadLog.cfg` | violation of `EventsAreFolded` | a store that opened without reading its log compacts, and the events are gone |
| `store_cut_compact` | `StoreCutCompact.cfg` | violation of `ChainValid` | a process dies inside `compact`, and what is written after the next opening breaks the chain for good |
| `store_split_line` | `StoreSplitLine.cfg` | violation of `AppendedIsReplayed` | a text with a Unicode line separator is acknowledged and lost, without any fault |
| `shared_faults` | `MCSharedFiles`, `SharedFaults.cfg` | passes, 1.1 million states | two instances that both open, write, compact, close and die at every file access: `STypeOK`, `WritesSurvive`, `CurrentUntilOvertaken`, `OpenSeesNow` |
| `shared_reader` | `SharedReader.cfg` | violation of `ReadersAreConsistent` | a reader that opens across a compaction of the only writer has old records under the new number |
| `rollback_faults` | `MCRollback`, `RollbackFaults.cfg` | passes, 3.0 million states | `RTypeOK`, `CascadeIsExact`, `DowngradesAreAudited`, `EdgesSurvive`, `NothingRestsOnTarget`, `WalkAgreesWithGraph`, `BlockersAreNamed`, `WalkShrinks` |
| `rollback_missing` | `RollbackMissing.cfg` | violation of `CascadeReachesAll` | the cascade stops at an id that has no record |
| `bridge_faults` | `MCBridge`, `BridgeFaults.cfg` | passes, 5.1 million states | what a migration promises when it returns (`ListedIsStored`, `RerunWritesNothing`) and what a bridge beside it answers (`ListedAreAnswered`), with `BTypeOK` |
| `pack_rules` | `MCContextPack`, `PackRules.cfg` | passes, 1.2 million states | `PTypeOK`, `BudgetIsUsed`, `EachRecordOnce`, `PackIsGreedy`, `PackIsKnownOrDeprecated` |
| `metrics_rules` | `MCMetrics`, `MetricsRules.cfg` | passes, 72 thousand states | `RecordingsAreKept`, `ReportAddsUp` |
| `esdb_faults` | `MCRustEsdb`, `EsdbFaults.cfg` | passes, 11.5 million states | `ETypeOK`, `NumbersIncrease`, `FailedAppendsKeepChain`, `IndexMissesNothing`, `LiveIsReplayed`, `OpeningRecovers` under crashes, failed and torn appends |

The five violations are findings: each quotes the document it contradicts in
`PROJECT.json`, and each such run admits only the fault it is about, or none. The
other findings are on passing runs: there the property says what the code does, and
the document says something else of the same case.

### What the conditions except

A conditional property names exactly what breaks it; that the code does break it
there can be seen by removing the condition from the property and running the
same configuration.

- Every property of the store except `TypeOK` ends where an opening has gone on
  without a file it could not read (`"read_fails"`): the next event then reuses a
  number and links to an older hash, reads are stale, and a snapshot or a compaction
  makes the loss final (`store_unread_log`).
- `MemoryMatchesDisk`, `ImplementsMap` and `ChangesAreReported` also except a torn
  append (the next line continues it, or memory is without an event that is in the
  file), a split line (`store_split_line`) and a lost snapshot (after `compact` the
  log no longer has the records; `wal.md:73` promises otherwise, and
  `LogAloneSuffices` says what is true: while the log begins with event 1).
  `wal.md:83` says that `events.wal` is never in a partial state; a torn append is.
- `ChainHolds` and `CounterMatchesLog` except every write that raises: the counter
  and the hash have moved, `wal_seq()` shows a number that no event has, and after a
  restart another event gets it. `ChainHolds` also excepts a cut compaction
  (`store_cut_compact`).
- `ChangesAreReported` is about the numbers of events that were written. It excepts
  records that have become tombstones, because `what_changed_since` looks at upserts
  only, and a log that was compacted. It contains the boundary: the event with the
  number asked for is in the answer, where `query.py:82` says "after".
- `DowngradesAreAudited` excepts calls that were cut short, and the ids in
  `superseded`: a second rollback of the same target replaces the record of the
  first. `docs/REQUIREMENTS.md:227` wants the full event to be auditable.
- `EdgesSurvive` lists both of its exceptions as conditions on single edges: an edge
  in use may be missing after a restart only if its id is another edge's too
  (`Collides`), or if its own last write raised; and an edge that was removed can be
  back only in the second case. `deps.py:74` makes no exception.
- `OpenSeesNow` excepts an opening between whose two reads the log was emptied
  (`shared_reader`), and the `~raced` of all three properties excepts two
  concurrent writers, which lose events and reuse numbers.
- `FailedAppendsKeepChain` is an equivalence: without torn lines `verify_chain` is
  true exactly when every confidence reads back as written. A decayed confidence
  that is committed again can make it false with no fault at all.
- `LiveIsReplayed` is exact too: the statuses that differ from the log's are those of
  `unlogged`, each of them. `delete` of the bindings changes the record in memory and
  logs nothing, where `crates/chronomemory-py/src/lib.rs:187` says that it writes a
  delete event; confidences that a rollback has decayed are not logged either. It is
  about logs without a NaN (`AllAccepted`): a record that carries one is committed,
  and gone or replaced by its predecessor after a reopening. `OpeningRecovers` has no
  such condition, and says what does come back.
  `IndexMissesNothing` is an inclusion: a record that is committed twice is in its
  list twice, and counted twice.
- `ListedIsStored` promises the title and the mapped status of an item, since these
  are what is compared. The comment at `store.py:462` speaks of the same content; a
  new confidence, kind or other data of an item with the same title and status do
  not reach the store.
- `RerunWritesNothing` excepts ids that are listed twice: each is imported again by
  every run.
- `ListedAreAnswered` has its exceptions one by one: ids written with another kind,
  ids in `missed` while a store is kept, and, when opening the store raises, a list
  read before an edit. `docs/REQUIREMENTS.md:137` has the fallback for a missing log
  only.
- `PackIsGreedy` says which records are left out for the budget: not the least
  trusted ones, as `context_pack.py:9` and `:143` and `ARCHITECTURE.md:134` have it,
  but those that do not fit beside the ones ranked before them.
  `PackIsKnownOrDeprecated` names the one status on which `compile` and
  `what_is_known` differ; `context_pack.py:136` admits active records only.
- The two properties of `Metrics` except recordings of one name in one millisecond,
  of which only the last is kept.

### Bounds

*Store.* Two ids, so that one write can hide or expose another; three write
calls (`MaxWrites`), opens, closes and crashes unbounded. Three calls reach
upsert, delete, compact in every order, a snapshot (`SnapshotEvery = 2`
instead of 50, so that a third write follows one), and a failed call followed by
one that succeeds and one that compacts. Two contents in `StoreFaults`, one of them
splitting; elsewhere one content, two statuses. Reads that fail are unbounded too. Ids
are interchangeable (`IdSymmetry`).

*Shared files.* Two instances, both of which write, two ids, three write calls
between them: one can write, compact, and leave a snapshot behind while the
other is at any of its own steps. Openings, closes and crashes are unbounded.
Ids and instances are interchangeable. The violation needs one writer.

*Rollback.* Three ids make a chain, a diamond's side, a self-loop and cycles of
two and three (when edges are added); two initial edges, two edge types of
which one cascades, an edge and its reverse under one id; two invalidations
(`MaxCalls`) and one other write (`MaxWrites`) among put, delete and edge change, so
that an invalidation can follow a change, a failure or an invalidation of the same
target. Reloads, snapshots and crashes are unbounded.

*Bridge.* Two ids, two titles, two values of everything else, and seven listings: an
empty or missing file, one item, a deprecated item, two items of which one
differs in its confidence only, the same id twice, an item without an id and
one with a bad confidence before a good one, and an item whose status is not a
string. One edit, two migrations and one
other write (`MaxEdits`, `MaxMigrations`, `MaxWrites`): the second migration sees
what an edit, a write or an interrupted first one left. Restarts and crashes are
unbounded.

*Context pack.* Four records out of twelve samples: good ones at and above the
threshold, of one, two and three tokens, one for each reason to leave a record
out, and one for each pair of reasons that the order of the tests tells apart.
Budgets of nothing, two and four tokens, so that a record can be dropped and a
later one still fit.

*Metrics.* Two names, three measurements that differ in every number, three
values of the clock, three recordings: two can meet in one id, with a third
between them.

*Rust engine.* Two ids, two kinds, two edge types of which one makes
dependents; three confidences, of which one reads back as another and is what a
decay gives, and one is NaN; four calls (`MaxOps`), so that two commits and an edge can come
before a rollback that cascades, and a failed append between any two of them;
openings and crashes are unbounded. Ids are interchangeable.

The theorems of section 4 do not depend on these bounds.

### Fairness and endings

No specification has a fairness condition and no run checks a liveness property. The
code has no background work, no retry and no waiting: once a call has begun, its
thread executes it, and whether it ends is a question of loops over finite lists and,
in `invalidate`, of a queue that receives ids again. The last one is `WalkShrinks`.
For the others the proofs give a bound: every step of a call lowers a natural number,
whatever fails (`CallsEnd`, `CompileEnds`, `WalkEnds`, `MigrationsEnd`).

### Deadlock

`pack_rules` does not check for deadlock: the call that it models ends. In every
other run some process can always die and start again, edit or set the clock, so
deadlock is checked and says little. No component waits for another one.

## 4. The proofs

`tlapm` checks them all; the assumptions are the `ASSUME`s of the modules
(statuses, `Splitting`, the listings, the bounds, `EdgeIdOf` being a function on
edges, a finite number of ids in a graph) and what a theorem's own `ASSUME` says.
Every property of a passing run is stated by a theorem.

Five promises of the documents are refuted by a run (section 3), and for each there
is a theorem that says where it does hold, so that the violating run and the theorem
together draw the line: `ChainStaysValid` for `store_cut_compact`,
`TruncationLosesNothing` for `store_unread_log`, `TidyAppendsAreAlwaysReplayed` for
`store_split_line`, `ReadersAlwaysKeepUp` for `shared_reader`, `RecordedAreAllReached`
for `rollback_missing`. Where a document disagrees with a property that passes, the
theorem about the property is what holds in its place.

What a recursive function computes is proved without an induction theorem: the
counterexamples form a set of numbers, or of subsets of a finite set, which has a
least element if it has any, and that element is shown not to be one
(`FiniteLemmas`).

| Theorem | Says |
|---|---|
| `ChronoStoreProofs!TypeCorrect` | `Spec => []TypeOK` |
| `SequenceNumbersIncrease` | `Spec => []SeqIncreasing` |
| `MemoryIsWhatDiskGives` | `Spec => []MemoryMatchesDisk` |
| `ChainStaysValid` | `Spec => []ChainHolds` |
| `TruncationLosesNothing` | `Spec => LogShrinksOnlyCovered` |
| `StoreInvariant` | `Spec => []StoreInv` |
| `CounterIsLastNumber` | `Spec => []CounterMatchesLog` |
| `StoreImplementsMap` | `Spec => ImplementsMap`, with every fault allowed |
| `LosslessStoreIsMap` | without torn appends, splitting texts, lost snapshots and failing reads, `Spec => Promise!ASpec` |
| `LogAloneIsEnough` | `Spec => []LogAloneSuffices` |
| `ChangesAreNotMissed` | `Spec => []ChangesAreReported` |
| `TidyAppendsAreAlwaysReplayed` | without split and torn lines and failing reads, `AppendedIsReplayed` always holds |
| `CallsEnd` | every step of a call lowers `StepsLeft`, which is 0 when no call runs |
| `SharedFilesProofs!SharedTypeCorrect` | `SSpec => []STypeOK` |
| `TurnsLoseNothing` | `SSpec => []WritesSurvive` |
| `OpenStoresAreCurrent` | `SSpec => []CurrentUntilOvertaken` |
| `OpeningSeesNow` | `SSpec => OpenSeesNow` |
| `ReadersAlwaysKeepUp` | `ReadersAreConsistent` holds of readers that are not `blind`, while writers take turns |
| `SharedWritesAreAtomic` | while writers take turns, what the files give changes only by the call of a `Rename` |
| `RollbackProofs!RollbackTypeCorrect` | `RSpec => []RTypeOK` |
| `CascadeExact` | `RSpec => []CascadeIsExact` |
| `DowngradesAudited` | `RSpec => []DowngradesAreAudited` |
| `EdgesPersist` | `RSpec => []EdgesSurvive`, whatever edges share an id |
| `WalkAlwaysShrinks` | `RSpec => WalkShrinks` |
| `NothingRestsOnTargetAnyMore` | `RSpec => []NothingRestsOnTarget` |
| `WalkAlwaysAgreesWithGraph` | `RSpec => []WalkAgreesWithGraph` |
| `BlockersAreAlwaysNamed` | `RSpec => []BlockersAreNamed` |
| `SearchesAlwaysAgree` | the two transitive searches of `deps.py` are each other's converse |
| `RecordedAreAllReached` | if every id that leads to the target has a record, `CascadeReachesAll` |
| `WalkEnds` | every step of the walk but the last lowers `WalkRank`, a natural number |
| `BridgeProofs!BridgeTypeCorrect` | `BSpec => []BTypeOK` |
| `MigratedIsStored` | `BSpec => []ListedIsStored` |
| `RerunAlwaysWritesNothing` | `BSpec => []RerunWritesNothing` |
| `ListedAreAlwaysAnswered` | `BSpec => []ListedAreAnswered` |
| `MigrationsEnd` | every step of a migration ends it, enters a later stage or deals with an item |
| `ContextPackProofs!PackTypeCorrect` | `PSpec => []PTypeOK` |
| `BudgetIsAlwaysUsed` | `PSpec => []BudgetIsUsed` |
| `EachRecordAlwaysOnce` | `PSpec => []EachRecordOnce` |
| `PackIsAlwaysKnownOrDeprecated` | `PSpec => []PackIsKnownOrDeprecated` |
| `CompileIsGreedy` | `PSpec => []PackIsGreedy`: the compiled pack is the one set of records that satisfies `Greedy` |
| `PackAlwaysGoesOn`, `CompileEnds` | the second pass has one candidate to go on with; every step lowers `PackRank`, which is 0 when `compile` is done |
| `MetricsProofs!RecordingsAlwaysKept` | `XSpec => []RecordingsAreKept` |
| `ReportAlwaysAddsUp` | `XSpec => []ReportAddsUp` |
| `RustEsdbProofs!EsdbTypeCorrect` | `ESpec => []ETypeOK` |
| `EsdbNumbersIncrease` | `ESpec => []NumbersIncrease` |
| `EsdbChain` | `ESpec => []FailedAppendsKeepChain` |
| `EsdbIndex` | `ESpec => []IndexMissesNothing` |
| `EsdbLiveIsReplayed` | `ESpec => []LiveIsReplayed` |
| `EsdbOpeningRecovers` | `ESpec => []OpeningRecovers`: a handle that opens has what the readable lines say, torn lines or not |

*The store.* None of the properties is inductive alone. `StoreInv` holds until an opening
goes on without a file (`AllRead`); its parts, each provable from the ones before it,
are:

- `NumberInv`: an open store's counter is past every number on disk, and while it
  replays past everything read so far. Without it nothing stops an append from
  reusing a number. The delicate points are the sentinel, which is numbered after a
  snapshot that does not contain it, and reopening over old memory.
- `DataInv`: unless a line was torn or split or the snapshot was lost, an open store
  holds `View`; a closed or reloading one is either empty (a new process) or holds
  `View` already; while it replays, each entry is the one that the lines so far
  give, or a later line replaces it. The lemmas about `LastWrite` (how the last
  write changes when a line is added or a prefix is covered by a snapshot) carry
  this part.
- `ChainInv`: whenever the counter has reached the last line, the hash in memory,
  and the one in the snapshot, is that line's.
- `TruncateInv`: a store about to truncate has a snapshot of everything.
- `CounterInv`: while nothing has failed, the last line has the greatest number that
  memory or snapshot hold, which is the other direction of `NumberInv`.
- `SplitInv`: without splitting texts no line is split.
- `AloneInv`, below.

The refinement uses `NumberInv` and `DataInv`: the append is the step that takes
effect, every other one leaves `View` alone, in particular the snapshot and the
truncation, which change both files' contents but not their meaning. `ImplementsMap`
asks for a step of the map while nothing has been torn, hidden, lost or left unread,
so the theorem needs no assumption on the faults.

*The log alone.* `AloneInv` says that while the log begins with the first event the
snapshot is what the lines up to its number give, from nothing, and so is the
memory; a memory that is being replayed may differ where a later line is going to
replace it (`Covers`, `Approaches`). It does not ask that the snapshot is readable:
memory and lines are then tied by their numbers alone. Two points are delicate. A
new snapshot laid over an old memory: where the snapshot has no record the memory
has none either, or has one whose upsert is still to be read. And an empty log,
which only a store that has numbered nothing, or a truncation, leaves behind:
`NothingYet` says that a first event written to it is the first event of all only
when there is nothing else. `CoveredView` then puts snapshot and rest of the log
together; `ChangedLater` looks for the line that made a record what it is.

`EventIsLast` says of an upsert that is past its append and not yet applied that its
line is the last of the log and numbered past the snapshot, which is why what the two
files give ends with it (`TidyAppendsAreAlwaysReplayed`).
`StepsLeft` counts, from the place of the call, the lines to replay and the steps of
the write; the one step that leaves it as it is, `RotSnapshot`, is not one of the
call.

*Shared files.* `SharedInv` says nothing more once two writers have overlapped
(`raced`) than that what is in the files is well formed. Before that, `TurnsInv`:
what the files give is what has been written (`OnDisk = truth`) and the log's
numbers increase; whatever an instance remembers, or the snapshot holds, has reached
the log at some time, so that an old memory over which a newer snapshot is merged
cannot bring a stale value back (`KnownInv`); the instance at work holds `truth` and
a number that nothing on disk exceeds (`WorkInv`); and one that opens rebuilds
`truth` from the snapshot it has merged and the log it is going to read, unless a
compaction came between the two (`OpenInv`). What a replay gives is a statement
about the last line of each id; the greatest of a set of lines, and the least, are
found with `WFMin` of the library, not by an induction. `ReadersInv` follows an
instance between its calls: until a number larger than its own is on disk
(`Passed`) its records are `truth`; a compaction during its opening is the one step
that raises its number without its records. `SharedWritesAreAtomic` puts `OnDisk =
truth` before and after a step together.

*Rollback.* `WalkInv` says, during a walk, that exactly the visited records have
changed, each once, that visited and queued ids are dependents, and that a visited
record's predecessors are visited or queued; with an empty queue the visited ids are
then closed, hence contain every dependent, which gives exactness for every graph.
`OnDisk` says that memory and disk agree until a write raises, `Named` that what is
changed is in the report of the walk, in the rollback record of some target, or
superseded. `EdgesSurvive` is inductive with the types: a write under an id changes
the record of the edges with that id and of no others, and the edge that is written
leaves no other edge of that id in the records.

`NothingRestsOnTarget` follows from `CascadeIsExact` without another induction: a
record that rests on the target is gone, invalidated or downgraded, hence not
active, and only active records are offered.

A breadth-first search is a recursive function of its rounds. A round that finds
nothing new has a closed set, and one that does has more nodes than the one before
it, which can happen fewer times than there are nodes; and no round leaves a closed
set that holds the start. So the result is the least such set (`SearchIsLeast`),
whichever way the edges are followed, and the two searches are each other's converse
(`SearchesAlwaysAgree`). The walk of `invalidate` ends with a closed set too
(`WalkInv`), so the two agree wherever no id without a record stops the walk
(`WalkAlwaysAgreesWithGraph`, `RecordedAreAllReached`). `WalkRank` weighs an id not
yet visited more than a queue of all ids, since visiting one may queue all the
others.

*The bridge and the migration.* `FollowInv` follows a migration through its items: those still to come (`raw`) are
the end of the batch, and of those before them the last one with each id is stored.
It survives a later item with the same id because that one is then the last, and
edits of the files because the batch was read before them. `SettledInv` is for the
migrations after that one: every listed item is stored as listed, so nothing in
`raw` differs from its record and nothing is imported. For `ListedAreAnswered`,
`ViewInv` has three parts: a record has one of the kinds its id was written with,
which matters when the bridge filters by kind (`KindIsKnown`); where there are
records there is a log, so that a bridge that can open a store does (`LogExists`);
and the dictionary of a kept store is what is on disk but for the ids in `missed`
(`MissedIsAll`), which is where the writes that raise after their append come in.
`MigrationsEnd` orders steps by stage and then by
the items to come: an edit makes a file longer only before it is read.

*The context pack.* The running sum only grows, so that what did not fit never fits
(`BudgetIsMet`); that it is the token count of the entries (`SumInv`) needs the sum
over a set with one element more, although the fold of the community modules takes
the elements in an order of its own: `SumInsert` shows for any element that it
counts once, whenever its turn comes. The candidates that are left come after all
that have been dealt with, in the order of the sort (`Before`, which is total), so a
dropped record was outweighed by entries before it alone
(`DroppedDoNotFit`), and the first record on which two greedy sets
differ would be decided by the same sum in both (`CompileIsGreedy`). `SortedInv`
adds to `EachRecordOnce` that the scan has ended when the second pass runs.
`VerdictInv` says that a record is excluded by the verdict of the scan or for the
budget, and that entries and candidates have no verdict against them.

*Metrics.* `KeptInv` says that every recording has a record under its id and that
every record is what one of the recordings under its id left. When those of one name
fell in different milliseconds, recordings and records correspond one to one
(`OwnRecord`), so there are as many of the one as of the other (`OneToOne`, by
`FS_Bijection`), and what is summed over the records is what would be summed over
the recordings (`ReportAlwaysAddsUp`).

*The Rust engine.* `NumberInv` adds to `NumbersIncrease` that no line exceeds the
number of a handle in use, nor a line already read that of a handle that is opening.
`ChainInv` says that until a line is torn every line is an entry linked to the one
before it, and that the hash in memory is the one of the last line written or read,
although the number may be past it; with `Exact` the recomputed hashes are the ones written, and
a single confidence that reads back differently makes one of them another. `IndexMissesNothing` is
inductive with the types: an upsert adds the id under the kind it stores, nothing
else changes a kind, and a replay starts from an empty store. `LiveInv` says that
the records, the index and the edges are those of the first `Seen` lines of the log:
the lines read while a handle opens, all of them once it is in use, except for the
ids in `unlogged` and the confidences of those in `decayed`, and as long as no NaN
is among them. `MemoryExtend` is the step of it: one more line, read or written,
changes both sides alike. The part about `todo` is there because an invalidation may
be logged only for a record that is already invalidated in memory. `RecoveryInv` is
the part of it that survives torn lines: while a handle opens, records, index, edges
and position are exactly those of the readable lines among the ones read, since an
unreadable line changes neither side.

*Only model-checked.* The five violations, which are counterexamples, and nothing
else.

## 5. Not modelled, and why

- `backup` and `export_records` copy what is there and keep no state.
- A log that `read_text` cannot decode (a direct append cut inside a multi-byte
  character) makes Python's `open` raise `UnicodeDecodeError`, which is no `OSError`;
  `docs/REQUIREMENTS.md:117` (REQ-CM-012) asks for recovery from binary bytes. The
  lines that the store's modules have are skipped or read; the Rust engine's
  counterpart is modelled (`OpenFails`).
- The two engines on one file. `wal.rs:9-10` and REQ-CM-010 want one hash algorithm,
  but the canonical JSON under the hash is written by two serialisers with different
  separators, so each engine's `chain_valid` judges the other's entries by another
  text. Hashes are compared as histories here, and serialisation is below that.
- `SharedFiles` has no reads or writes that fail; `ChronoStore` has them for one
  instance.
- A listing that is JSON but neither a list nor an object makes `migrate_from_json`
  raise or pass over characters at its loop; in effect that is an item that raises
  before the first one, or a file of items without ids, both of which are modelled.
- Two instances inside a write at once share `.wal.tmp`; what is left behind then is
  left out of `SharedFiles`, and no property speaks of it. Power loss that reorders
  renames: the code calls `fsync` on the log and not on the snapshot or the
  directory. A step that has returned is on disk here; `RotSnapshot` covers a
  snapshot that did not make it.
- A `DepGraph` without a store, or a second one on the same store: `invalidate` takes
  one graph, and that one is modelled.
- The cascade follows `depends_on` and `derived_from` and no other type
  (`CascadeTypes` is a parameter); that `assumes` and `generated_from` are left
  out of it is the code's choice and is modelled as such.
- Query functions that are one look-up: `why_do_we_believe`, the two about
  conflicts (which do not filter by status), `what_assumptions_underlie`,
  `what_generated_artifacts_depend_on`, `what_context_packs_are_stale`,
  `what_should_agent_not_do`, `what_skills_apply`, and `find_skills`. A model of one
  would be its own definition.
- Rust: `record_metric` (an append that replay ignores), `supersede` (nothing calls
  it), the epoch, the projection engine (an advisory function of its arguments that
  `commit` does not consult) and the reads that are close to the Python ones. In
  the bindings every method takes the lock once or reads; `delete` unlocks and locks
  again between parsing an id and using it, and uses nothing it read before.
- `types.rs`, `__init__.py`: declarations.

## 6. What is left

The append of `RustEsdb` as a refinement of `EpistemicMap`, for the operations that
log what they change; `SharedFiles` with the failures of single file operations that
`ChronoStore` has; a log that cannot be decoded, and both engines in turn on one
file.
