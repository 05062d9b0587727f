---- MODULE Rollback ----
(***************************************************************************)
(* rollback.invalidate (src/src/chronomemory/rollback.py) on a store and   *)
(* its DepGraph, one store write per step, with crashes and raising writes *)
(* between any two of them, among the other writes of the same program.    *)
(*                                                                         *)
(* invalidate changes the record objects that store.get hands out before   *)
(* it upserts them, so a write that raises leaves memory ahead of disk.    *)
(***************************************************************************)
EXTENDS DepGraph

CONSTANTS
    CascadeTypes,   \* _CASCADE_EDGE_TYPES
    MaxEdges,       \* bound: edges in the store to begin with
    MaxCalls,       \* bound: calls of invalidate in a behaviour
    MaxWrites       \* bound: other writes and reloads in a behaviour

ASSUME CascadeAssumption == CascadeTypes \subseteq Types

ASSUME OpsAssumption == MaxCalls \in Nat /\ MaxWrites \in Nat /\ MaxEdges \in Nat

VARIABLES
    mem,        \* the records of store._state
    disk,       \* the records that a new process would load
    events,     \* the affected_ids in the record ROLLBACK-<id> of each id, as
                \* a set of at most one: none before there is a record
    pc,         \* where invalidate stands, "idle" when it is not running
    target,     \* its record_id
    visited,    \* its visited set
    queue,      \* its queue; which element comes first decides nothing below
    report,     \* report.affected_ids
    \* bookkeeping that no step of the program reads
    before,     \* the records when invalidate was called
    failed,     \* TRUE once a write of invalidate has raised
    cut,        \* TRUE once a call of invalidate did not run to its end
    superseded, \* the ids that a replaced rollback record named and its
                \* successor does not
    calls,      \* calls of invalidate
    writes      \* other writes and reloads

locals == <<target, visited, queue, report, before>>
audit == <<events, superseded>>
ops == <<calls, writes>>
rvars == <<edges, rows, raised, mem, disk, events, pc, target, visited, queue,
           report, before, failed, cut, superseded, calls, writes>>

\* Of a confidence only the number of times it was halved matters.
Rec == [status : {"active", "hypothesis", "invalidated", "tombstone"}, halved : Nat]

NoRec == [status |-> "absent", halved |-> 0]

Cell == Rec \cup {NoRec}

Fresh == [status |-> "active", halved |-> 0]

Downgraded(r) == [status |-> "hypothesis", halved |-> r.halved + 1]

BugUnknownStatus(r) == [r EXCEPT !.status = "invalid"]

Invalidated(r) == [r EXCEPT !.status = "invalidated"]

\* The call of invalidate is over, and its local variables with it.
Return ==
    /\ pc' = "idle"
    /\ visited' = {} /\ queue' = {} /\ report' = {}
    /\ before' = [n \in Nodes |-> NoRec]
    /\ UNCHANGED target

RInit ==
    /\ \E E \in SUBSET Edge : Cardinality(E) <= MaxEdges /\ GraphInit(E)
    /\ mem \in [Nodes -> {NoRec, Fresh}]
    /\ disk = mem
    /\ events = [n \in Nodes |-> {}] /\ superseded = {}
    /\ pc = "idle"
    /\ target \in Nodes /\ visited = {} /\ queue = {} /\ report = {}
    /\ before = [n \in Nodes |-> NoRec]
    /\ failed = FALSE /\ cut = FALSE /\ calls = 0 /\ writes = 0

-----------------------------------------------------------------------------
(* The other writes of the program, between calls of invalidate.           *)

Begin == pc = "idle" /\ writes < MaxWrites /\ writes' = writes + 1 /\ UNCHANGED calls

Put ==
    /\ Begin
    /\ \E n \in Nodes : /\ mem' = [mem EXCEPT ![n] = Fresh]
                        /\ disk' = [disk EXCEPT ![n] = Fresh]
    /\ UNCHANGED <<graph, audit, pc, locals, failed, cut>>

Marked(m, n) == IF m[n] = NoRec THEN m ELSE [m EXCEPT ![n].status = "tombstone"]

Delete ==
    /\ Begin
    /\ \E n \in Nodes : mem' = Marked(mem, n) /\ disk' = Marked(disk, n)
    /\ UNCHANGED <<graph, audit, pc, locals, failed, cut>>

ChangeEdge ==
    /\ Begin
    /\ \E e \in Edge : AddEdge(e) \/ RemoveEdge(e) \/ EdgeWriteFails(e)
    /\ UNCHANGED <<mem, disk, audit, pc, locals, failed, cut>>

Reload ==
    /\ Begin
    /\ FromStore
    /\ UNCHANGED <<mem, disk, audit, pc, locals, failed, cut>>

\* A snapshot, which any upsert, close or compact may write, holds memory.
StoreSnapshot ==
    /\ disk' = mem
    /\ UNCHANGED <<graph, mem, audit, pc, locals, failed, cut, ops>>

\* The process dies; the next one loads store and graph from disk.
Crash ==
    /\ FromStore
    /\ mem' = disk
    /\ Return
    /\ cut' = (cut \/ pc # "idle")
    /\ UNCHANGED <<disk, audit, failed, ops>>

-----------------------------------------------------------------------------
(* invalidate.                                                             *)

Invalidate ==
    /\ pc = "idle"
    /\ calls < MaxCalls
    /\ calls' = calls + 1
    /\ target' \in Nodes
    /\ pc' = "target"
    /\ visited' = {} /\ queue' = {} /\ report' = {}
    /\ before' = mem
    /\ UNCHANGED <<graph, mem, disk, audit, failed, cut, writes>>

BugTargetNotVisited ==
    /\ pc = "target"
    /\ IF mem[target] = NoRec
       THEN UNCHANGED <<mem, disk, report>>
       ELSE /\ mem' = [mem EXCEPT ![target] = Invalidated(mem[target])]
            /\ disk' = [disk EXCEPT ![target] = Invalidated(mem[target])]
            /\ report' = {target}
    /\ queue' = Predecessors(target, CascadeTypes)
    /\ pc' = "cascade"
    /\ UNCHANGED <<graph, audit, target, visited, before, failed, cut, ops>>

\* Step 1, and the first queue.
InvalidateTarget ==
    /\ pc = "target"
    /\ IF mem[target] = NoRec
       THEN UNCHANGED <<mem, disk, report>>
       ELSE /\ mem' = [mem EXCEPT ![target] = Invalidated(mem[target])]
            /\ disk' = [disk EXCEPT ![target] = Invalidated(mem[target])]
            /\ report' = {target}
    /\ visited' = {target}
    /\ queue' = Predecessors(target, CascadeTypes)
    /\ pc' = "cascade"
    /\ UNCHANGED <<graph, audit, target, before, failed, cut, ops>>

BugVisitedRequeued ==
    /\ pc = "cascade"
    /\ \E n \in queue \cap visited :
         queue' = (queue \ {n}) \cup Predecessors(n, CascadeTypes)
    /\ UNCHANGED <<graph, mem, disk, audit, pc, target, visited, report, before, failed, cut, ops>>

SkipVisited ==
    /\ pc = "cascade"
    /\ \E n \in queue \cap visited : queue' = queue \ {n}
    /\ UNCHANGED <<graph, mem, disk, audit, pc, target, visited, report, before, failed, cut, ops>>

\* A dependent that has no record ends the walk there.
SkipMissing ==
    /\ pc = "cascade"
    /\ \E n \in queue \ visited :
         /\ mem[n] = NoRec
         /\ visited' = visited \cup {n}
         /\ queue' = queue \ {n}
    /\ UNCHANGED <<graph, mem, disk, audit, pc, target, report, before, failed, cut, ops>>

Report(n) == report' = report \cup {n}

\* Step 3: downgrade one dependent and go on with its own dependents.
Downgrade ==
    /\ pc = "cascade"
    /\ \E n \in queue \ visited :
         /\ mem[n] # NoRec
         /\ mem' = [mem EXCEPT ![n] = Downgraded(mem[n])]
         /\ disk' = [disk EXCEPT ![n] = Downgraded(mem[n])]
         /\ visited' = visited \cup {n}
         /\ queue' = (queue \ {n}) \cup Predecessors(n, CascadeTypes)
         /\ Report(n)
    /\ UNCHANGED <<graph, audit, pc, target, before, failed, cut, ops>>

BugEventNamesTarget ==
    /\ events' = [events EXCEPT ![target] = {report \cap {target}}]
    /\ superseded' = superseded \cup ((UNION events[target]) \ report)

\* The rollback_event is a record like any other: the one that an earlier
\* invalidation of the same target left is replaced.
WriteEvent ==
    /\ events' = [events EXCEPT ![target] = {report}]
    /\ superseded' = superseded \cup ((UNION events[target]) \ report)

\* Step 4.
LogEvent ==
    /\ pc = "cascade"
    /\ queue = {}
    /\ WriteEvent
    /\ Return
    /\ UNCHANGED <<graph, mem, disk, failed, cut, ops>>

\* An upsert of record r under id n raises, before or after its append.
RecordWriteFails(n, r) ==
    /\ mem[n] # NoRec
    /\ mem' = [mem EXCEPT ![n] = r]
    /\ disk' \in {disk, [disk EXCEPT ![n] = r]}
    /\ UNCHANGED audit

EventWriteFails ==
    /\ WriteEvent \/ UNCHANGED audit
    /\ UNCHANGED <<mem, disk>>

\* An upsert of invalidate raises: the record it was about to write has
\* changed in memory, and the exception ends the call.
InvalidateFails ==
    /\ AppendFaults
    /\ \/ pc = "target" /\ RecordWriteFails(target, Invalidated(mem[target]))
       \/ pc = "cascade" /\ \E n \in queue \ visited : RecordWriteFails(n, Downgraded(mem[n]))
       \/ pc = "cascade" /\ queue = {} /\ EventWriteFails
    /\ Return
    /\ failed' = TRUE
    /\ cut' = TRUE
    /\ UNCHANGED <<graph, ops>>

InvalidateStep == InvalidateTarget \/ SkipVisited \/ SkipMissing \/ Downgrade \/ LogEvent

RNext ==
    \/ Put \/ Delete \/ ChangeEdge \/ Reload \/ StoreSnapshot \/ Crash
    \/ Invalidate \/ InvalidateStep \/ InvalidateFails

RSpec == RInit /\ [][RNext]_rvars

-----------------------------------------------------------------------------
(* Properties.                                                             *)

\* S holds what depends on the target, following each node of `through`.
Closed(S, through) ==
    /\ target \in S
    /\ \A m \in S \cap (through \cup {target}) : Predecessors(m, CascadeTypes) \subseteq S

\* The least such set.
Dependents(through) == {n \in Nodes : \A S \in SUBSET Nodes : Closed(S, through) => n \in S}

Existing == {n \in Nodes : before[n] # NoRec}

CascadeDone == pc = "cascade" /\ queue = {}

RTypeOK ==
    /\ GraphTypes
    /\ mem \in [Nodes -> Cell] /\ disk \in [Nodes -> Cell] /\ before \in [Nodes -> Cell]
    /\ events \in [Nodes -> {{}} \cup {{S} : S \in SUBSET Nodes}]
    /\ superseded \subseteq Nodes
    /\ pc \in {"idle", "target", "cascade"}
    /\ target \in Nodes
    /\ visited \subseteq Nodes /\ queue \subseteq Nodes /\ report \subseteq Nodes
    /\ failed \in BOOLEAN /\ cut \in BOOLEAN
    /\ calls \in 0..MaxCalls /\ writes \in 0..MaxWrites

\* When the walk is over, the target is invalidated and every record that
\* depends on it through records has been downgraded exactly once, however
\* many paths and cycles lead to it; nothing else has changed, and a new
\* process sees the same unless a write of invalidate has raised.
CascadeIsExact ==
    CascadeDone =>
        /\ \A n \in Nodes :
             mem[n] = IF before[n] = NoRec THEN NoRec
                      ELSE IF n = target THEN Invalidated(before[n])
                      ELSE IF n \in Dependents(Existing) THEN Downgraded(before[n])
                      ELSE before[n]
        /\ ~failed => disk = mem

\* The same with dependents that are reached through an id without a record.
CascadeReachesAll ==
    CascadeDone => \A n \in Dependents(Nodes) \ {target} :
        mem[n] # NoRec => mem[n].status = "hypothesis"

AffectedBy(t) == UNION events[t]

\* A record that a new process sees downgraded or invalidated is named by the
\* rollback record of some target, unless a call was cut short or a later
\* invalidation of the same target, which did not reach it, has replaced the
\* record that named it.  docs/REQUIREMENTS.md:227 makes no such exception.
DowngradesAreAudited ==
    (~cut /\ pc = "idle") =>
        {n \in Nodes : disk[n].status \in {"hypothesis", "invalidated"}}
            \subseteq (UNION {AffectedBy(t) : t \in Nodes}) \cup superseded

\* The walk ends whatever cycles the graph has: each of its steps visits an
\* id for the first time or shortens the queue.
Shrinks ==
    (pc = "cascade" /\ pc' = "cascade") =>
        \/ UNCHANGED <<visited, queue>>
        \/ visited # visited' /\ visited \subseteq visited'
        \/ visited' = visited /\ queue' # queue /\ queue' \subseteq queue

WalkShrinks == [][Shrinks]_rvars
====
