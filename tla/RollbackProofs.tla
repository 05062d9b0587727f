---- MODULE RollbackProofs ----
(***************************************************************************)
(* Proofs about Rollback and Queries, for every set of record ids, every   *)
(* graph, every order of the walk and every number of calls.               *)
(***************************************************************************)
EXTENDS Queries, FiniteLemmas

(***************************************************************************)
(* The inductive invariant of the walk: what has been visited and changed, *)
(* what is still owed (the dependents of every visited record are visited  *)
(* or queued) and what may not be touched (only dependents are queued).    *)
(***************************************************************************)
Owed == \A m \in visited \cap (Existing \cup {target}) :
            Predecessors(m, CascadeTypes) \subseteq visited \cup queue

ChangedSoFar == \A n \in Nodes :
    mem[n] = IF before[n] = NoRec THEN NoRec
             ELSE IF n = target THEN Invalidated(before[n])
             ELSE IF n \in visited THEN Downgraded(before[n])
             ELSE before[n]

WalkInv ==
    /\ pc = "target" => mem = before /\ report = {}
    /\ pc = "cascade" =>
         /\ target \in visited
         /\ ChangedSoFar
         /\ Owed
         /\ visited \cup queue \subseteq Dependents(Existing)
         /\ report = visited \cap Existing

OnDisk == (~failed \/ ~cut) => mem = disk

Named == ~cut => \A n \in Nodes : mem[n].status \in {"hypothesis", "invalidated"} =>
    \/ \E t \in Nodes : n \in AffectedBy(t)
    \/ n \in superseded
    \/ pc = "cascade" /\ n \in report

Events == {{}} \cup {{S} : S \in SUBSET Nodes}

-----------------------------------------------------------------------------
(* Type correctness.                                                       *)

LEMMA RecTypes ==
    /\ NoRec \in Cell /\ Fresh \in Rec
    /\ \A r \in Rec : r # NoRec /\ Downgraded(r) \in Rec /\ Invalidated(r) \in Rec
BY DEF Cell, Rec, NoRec, Fresh, Downgraded, Invalidated

LEMMA RowTypes ==
    /\ NoRow \in Row
    /\ \A e \in Edge : RowOf(e) \in Row
    /\ \A r \in Row : [r EXCEPT !.live = FALSE] \in Row
BY DEF Row, NoRow, RowOf

LEMMA LoadedType == Loaded \subseteq Edge
BY DEF Loaded

LEMMA RowsOfType ==
    ASSUME NEW E \in SUBSET Edge
    PROVE  RowsOf(E) \in [EdgeIds -> Row]
<1>1. ASSUME NEW i \in EdgeIds, \E e \in E : EdgeIdOf[e] = i
      PROVE  RowOf(CHOOSE e \in E : EdgeIdOf[e] = i) \in Row
  <2>1. (CHOOSE e \in E : EdgeIdOf[e] = i) \in Edge
    BY <1>1
  <2> QED BY <2>1, RowTypes
<1> QED BY <1>1, RowTypes DEF RowsOf

LEMMA PredecessorsType ==
    ASSUME edges \subseteq Edge, NEW n, NEW T
    PROVE  Predecessors(n, T) \subseteq Nodes
BY DEF Predecessors, Edge

LEMMA RollbackTypeInit == RInit => RTypeOK
<1> SUFFICES ASSUME RInit PROVE RTypeOK
  OBVIOUS
<1>1. PICK E \in SUBSET Edge : GraphInit(E)
  BY DEF RInit
<1>2. GraphTypes
  BY <1>1, RowsOfType, LoadedType DEF GraphInit, GraphTypes
<1>3. mem \in [Nodes -> Cell]
  BY RecTypes DEF RInit, Cell
<1>4. calls \in 0..MaxCalls /\ writes \in 0..MaxWrites
  BY OpsAssumption DEF RInit
<1>5. disk \in [Nodes -> Cell] /\ before \in [Nodes -> Cell]
  BY <1>3, RecTypes DEF RInit, Cell
<1>6. target \in Nodes /\ pc = "idle" /\ visited = {} /\ queue = {} /\ report = {}
      /\ events \in [Nodes -> Events] /\ superseded = {} /\ failed = FALSE /\ cut = FALSE
  BY DEF RInit, Events
<1> QED BY <1>2, <1>3, <1>4, <1>5, <1>6 DEF RTypeOK, Events

LEMMA GraphTypeStep ==
    ASSUME GraphTypes,
           \/ FromStore
           \/ \E e \in Edge : AddEdge(e) \/ RemoveEdge(e) \/ EdgeWriteFails(e)
    PROVE  GraphTypes'
<1>1. CASE FromStore
  BY <1>1, LoadedType DEF FromStore, GraphTypes
<1>2. ASSUME NEW e \in Edge, AddEdge(e) PROVE GraphTypes'
  BY <1>2, RowTypes DEF AddEdge, GraphTypes
<1>3. ASSUME NEW e \in Edge, RemoveEdge(e) PROVE GraphTypes'
  <2>1. EdgeIdOf[e] \in EdgeIds
    BY EdgeIdAssumption
  <2>2. [rows[EdgeIdOf[e]] EXCEPT !.live = FALSE] \in Row
    BY <2>1, RowTypes DEF GraphTypes
  <2> QED BY <1>3, <2>1, <2>2 DEF RemoveEdge, GraphTypes
<1>4. ASSUME NEW e \in Edge, EdgeWriteFails(e) PROVE GraphTypes'
  <2>1. EdgeIdOf[e] \in EdgeIds /\ RowOf(e) \in Row
    BY EdgeIdAssumption, RowTypes
  <2>2. [rows[EdgeIdOf[e]] EXCEPT !.live = FALSE] \in Row
    BY <2>1, RowTypes DEF GraphTypes
  <2>3. edges' \subseteq Edge /\ raised' \subseteq EdgeIds
    BY <1>4, <2>1 DEF EdgeWriteFails, GraphTypes
  <2>4. rows' \in {rows, [rows EXCEPT ![EdgeIdOf[e]] = RowOf(e)],
                   [rows EXCEPT ![EdgeIdOf[e]].live = FALSE]}
    BY <1>4 DEF EdgeWriteFails
  <2>5. rows' \in [EdgeIds -> Row]
    BY <2>1, <2>2, <2>4 DEF GraphTypes
  <2> QED BY <2>3, <2>5 DEF GraphTypes
<1> QED BY <1>1, <1>2, <1>3, <1>4

LEMMA RollbackTypeStep == RTypeOK /\ [RNext]_rvars => RTypeOK'
<1> SUFFICES ASSUME RTypeOK, [RNext]_rvars PROVE RTypeOK'
  OBVIOUS
<1>o. Begin => calls' \in 0..MaxCalls /\ writes' \in 0..MaxWrites
  BY OpsAssumption DEF Begin, RTypeOK
<1>r. Return => /\ pc' = "idle" /\ target' \in Nodes /\ before' \in [Nodes -> Cell]
                /\ visited' = {} /\ queue' = {} /\ report' = {}
  BY RecTypes DEF Return, RTypeOK, Cell
<1>w. WriteEvent => events' \in [Nodes -> Events] /\ superseded' \subseteq Nodes
  <2>1. \A t \in Nodes : UNION events[t] \subseteq Nodes
    BY DEF RTypeOK
  <2> QED BY <2>1 DEF WriteEvent, RTypeOK, Events
<1>1. CASE Put
  <2>1. mem' \in [Nodes -> Cell] /\ disk' \in [Nodes -> Cell]
    BY <1>1, RecTypes DEF Put, RTypeOK, Cell
  <2> QED BY <1>1, <1>o, <2>1 DEF Put, RTypeOK, GraphTypes, graph, locals, audit
<1>2. CASE Delete
  <2>1. \A m \in [Nodes -> Cell], n \in Nodes : Marked(m, n) \in [Nodes -> Cell]
    BY DEF Marked, Cell, Rec
  <2>2. mem' \in [Nodes -> Cell] /\ disk' \in [Nodes -> Cell]
    BY <1>2, <2>1 DEF Delete, RTypeOK
  <2> QED BY <1>2, <1>o, <2>2 DEF Delete, RTypeOK, GraphTypes, graph, locals, audit
<1>3. CASE ChangeEdge
  BY <1>3, <1>o, GraphTypeStep DEF ChangeEdge, RTypeOK, locals, audit
<1>4. CASE Reload
  BY <1>4, <1>o, GraphTypeStep DEF Reload, RTypeOK, locals, audit
<1>5. CASE StoreSnapshot
  BY <1>5 DEF StoreSnapshot, RTypeOK, GraphTypes, graph, locals, audit, ops
<1>6. CASE Crash
  <2>1. GraphTypes'
    BY <1>6, GraphTypeStep DEF Crash, RTypeOK
  <2> QED BY <1>6, <1>r, <2>1 DEF Crash, RTypeOK, audit, ops
<1>7. CASE Invalidate
  <2>1. calls' \in 0..MaxCalls
    BY <1>7, OpsAssumption DEF Invalidate, RTypeOK
  <2> QED BY <1>7, <2>1 DEF Invalidate, RTypeOK, GraphTypes, graph, audit
<1>8. CASE InvalidateTarget
  <2>1. mem[target] # NoRec => Invalidated(mem[target]) \in Cell
    BY RecTypes DEF RTypeOK, Cell
  <2>2. Predecessors(target, CascadeTypes) \subseteq Nodes
    BY PredecessorsType DEF RTypeOK, GraphTypes
  <2>3. mem' \in [Nodes -> Cell] /\ disk' \in [Nodes -> Cell] /\ report' \subseteq Nodes
    BY <1>8, <2>1 DEF InvalidateTarget, RTypeOK
  <2> QED BY <1>8, <2>2, <2>3 DEF InvalidateTarget, RTypeOK, GraphTypes, graph, audit, ops
<1>9. CASE SkipVisited \/ SkipMissing
  BY <1>9 DEF SkipVisited, SkipMissing, RTypeOK, GraphTypes, graph, audit, ops
<1>10. CASE Downgrade
  <2>1. PICK n \in queue \ visited :
          /\ mem[n] # NoRec
          /\ mem' = [mem EXCEPT ![n] = Downgraded(mem[n])]
          /\ disk' = [disk EXCEPT ![n] = Downgraded(mem[n])]
          /\ visited' = visited \cup {n}
          /\ queue' = (queue \ {n}) \cup Predecessors(n, CascadeTypes)
          /\ report' = report \cup {n}
    BY <1>10 DEF Downgrade, Report
  <2>2. n \in Nodes /\ Downgraded(mem[n]) \in Cell
    BY <2>1, RecTypes DEF RTypeOK, Cell
  <2>3. Predecessors(n, CascadeTypes) \subseteq Nodes
    BY PredecessorsType DEF RTypeOK, GraphTypes
  <2>4. mem' \in [Nodes -> Cell] /\ disk' \in [Nodes -> Cell]
    BY <2>1, <2>2 DEF RTypeOK
  <2> QED BY <1>10, <2>1, <2>2, <2>3, <2>4 DEF Downgrade, RTypeOK, GraphTypes, graph, audit, ops
<1>11. CASE LogEvent
  BY <1>11, <1>r, <1>w DEF LogEvent, RTypeOK, GraphTypes, graph, ops, Events
<1>12. CASE InvalidateFails
  <2>1. \A n \in Nodes : mem[n] # NoRec =>
          Invalidated(mem[n]) \in Cell /\ Downgraded(mem[n]) \in Cell
    BY RecTypes DEF RTypeOK, Cell
  <2>2. \A n \in Nodes, r \in Cell :
          RecordWriteFails(n, r) => /\ mem' \in [Nodes -> Cell] /\ disk' \in [Nodes -> Cell]
                                    /\ UNCHANGED audit
    BY DEF RecordWriteFails, RTypeOK
  <2>3. EventWriteFails => /\ mem' = mem /\ disk' = disk
                           /\ events' \in [Nodes -> Events] /\ superseded' \subseteq Nodes
    BY <1>w DEF EventWriteFails, RTypeOK, audit, Events
  <2>4. /\ mem' \in [Nodes -> Cell] /\ disk' \in [Nodes -> Cell]
        /\ events' \in [Nodes -> Events] /\ superseded' \subseteq Nodes
    <3>1. CASE pc = "target" /\ RecordWriteFails(target, Invalidated(mem[target]))
      <4>1. Invalidated(mem[target]) \in Cell /\ target \in Nodes
        BY <3>1, <2>1 DEF RecordWriteFails, RTypeOK
      <4> QED BY <3>1, <4>1, <2>2 DEF RTypeOK, audit, Events
    <3>2. ASSUME NEW n \in queue \ visited, RecordWriteFails(n, Downgraded(mem[n]))
          PROVE  /\ mem' \in [Nodes -> Cell] /\ disk' \in [Nodes -> Cell]
                 /\ events' \in [Nodes -> Events] /\ superseded' \subseteq Nodes
      <4>1. n \in Nodes /\ Downgraded(mem[n]) \in Cell
        BY <3>2, <2>1 DEF RecordWriteFails, RTypeOK
      <4> QED BY <3>2, <4>1, <2>2 DEF RTypeOK, audit, Events
    <3>3. CASE EventWriteFails
      BY <3>3, <2>3 DEF RTypeOK
    <3> QED BY <1>12, <3>1, <3>2, <3>3 DEF InvalidateFails
  <2> QED BY <1>12, <1>r, <2>4 DEF InvalidateFails, RTypeOK, GraphTypes, graph, ops, Events
<1>13. CASE UNCHANGED rvars
  BY <1>13 DEF rvars, RTypeOK, GraphTypes
<1> QED BY <1>1, <1>2, <1>3, <1>4, <1>5, <1>6, <1>7, <1>8, <1>9, <1>10, <1>11, <1>12,
           <1>13 DEF RNext, InvalidateStep

\* Type correctness of the cascade and of the graph.
THEOREM RollbackTypeCorrect == RSpec => []RTypeOK
BY RollbackTypeInit, RollbackTypeStep, PTL DEF RSpec

-----------------------------------------------------------------------------
(* The walk.                                                               *)

\* What depends on the target is closed, and is in every closed set.
LEMMA DependentsClosed ==
    ASSUME NEW through
    PROVE  /\ target \in Nodes => target \in Dependents(through)
           /\ \A m \in Dependents(through) \cap (through \cup {target}), n \in Nodes :
                n \in Predecessors(m, CascadeTypes) => n \in Dependents(through)
           /\ \A S \in SUBSET Nodes : Closed(S, through) => Dependents(through) \subseteq S
BY DEF Dependents, Closed

\* Nothing that a running call of invalidate looks at changes but by it.
LEMMA WalkUndisturbed ==
    ASSUME WalkInv, UNCHANGED <<edges, mem, pc, target, visited, queue, report, before>>
    PROVE  WalkInv'
<1>1. \A m : Predecessors(m, CascadeTypes)' = Predecessors(m, CascadeTypes)
  BY DEF Predecessors
<1>2. Existing' = Existing
  BY DEF Existing
<1>3. \A S : Closed(S, Existing)' <=> Closed(S, Existing)
  BY <1>1, <1>2 DEF Closed
<1>4. Dependents(Existing)' = Dependents(Existing)
  BY <1>3 DEF Dependents
<1>5. Owed' <=> Owed
  BY <1>1, <1>2 DEF Owed
<1>6. ChangedSoFar' <=> ChangedSoFar
  BY DEF ChangedSoFar
<1> QED BY <1>2, <1>4, <1>5, <1>6 DEF WalkInv

LEMMA WalkInit == RInit => WalkInv
BY DEF RInit, WalkInv

\* The queue, the graph and the notion of dependence during one step.
LEMMA StepFrame ==
    ASSUME UNCHANGED <<edges, target, before>>
    PROVE  /\ Existing' = Existing
           /\ \A m : Predecessors(m, CascadeTypes)' = Predecessors(m, CascadeTypes)
           /\ Dependents(Existing)' = Dependents(Existing)
<1>1. \A m : Predecessors(m, CascadeTypes)' = Predecessors(m, CascadeTypes)
  BY DEF Predecessors
<1>2. Existing' = Existing
  BY DEF Existing
<1>3. \A S : Closed(S, Existing)' <=> Closed(S, Existing)
  BY <1>1, <1>2 DEF Closed
<1> QED BY <1>1, <1>2, <1>3 DEF Dependents

LEMMA WalkStep == RTypeOK /\ WalkInv /\ [RNext]_rvars => WalkInv'
<1> SUFFICES ASSUME RTypeOK, WalkInv, [RNext]_rvars PROVE WalkInv'
  OBVIOUS
<1>1. CASE Put \/ Delete \/ ChangeEdge \/ Reload \/ Crash
  BY <1>1 DEF Put, Delete, ChangeEdge, Reload, Crash, Return, Begin, locals, WalkInv
<1>2. CASE StoreSnapshot \/ UNCHANGED rvars
  BY <1>2, WalkUndisturbed DEF StoreSnapshot, graph, locals, rvars
<1>3. CASE Invalidate
  BY <1>3 DEF Invalidate, WalkInv
<1>4. CASE LogEvent \/ InvalidateFails
  BY <1>4 DEF LogEvent, InvalidateFails, Return, WalkInv
<1>5. CASE InvalidateTarget
  <2>1. /\ pc = "target" /\ pc' = "cascade" /\ mem = before
        /\ UNCHANGED <<edges, target, before>>
        /\ visited' = {target} /\ queue' = Predecessors(target, CascadeTypes)
    BY <1>5 DEF InvalidateTarget, WalkInv, graph
  <2>2. ChangedSoFar' /\ report' = visited' \cap Existing
    <3>1. CASE mem[target] = NoRec
      <4>1. mem' = mem /\ report' = report /\ report = {}
        BY <1>5, <3>1 DEF InvalidateTarget, WalkInv
      <4> QED BY <2>1, <3>1, <4>1 DEF ChangedSoFar, Existing
    <3>2. CASE mem[target] # NoRec
      <4>1. mem' = [mem EXCEPT ![target] = Invalidated(mem[target])] /\ report' = {target}
        BY <1>5, <3>2 DEF InvalidateTarget
      <4> QED BY <2>1, <3>2, <4>1 DEF ChangedSoFar, Existing, RTypeOK
    <3> QED BY <3>1, <3>2
  <2>3. Owed'
    BY <2>1, StepFrame DEF Owed
  <2>4. visited' \cup queue' \subseteq Dependents(Existing)
    <3>1. Predecessors(target, CascadeTypes) \subseteq Nodes
      BY PredecessorsType DEF RTypeOK, GraphTypes
    <3> QED BY <2>1, <3>1, DependentsClosed DEF RTypeOK
  <2> QED BY <2>1, <2>2, <2>3, <2>4, StepFrame DEF WalkInv
<1>6. CASE SkipVisited
  <2>1. PICK n \in queue \cap visited : queue' = queue \ {n}
    BY <1>6 DEF SkipVisited
  <2>2. /\ pc = "cascade" /\ pc' = "cascade"
        /\ UNCHANGED <<edges, target, before, mem, visited, report>>
    BY <1>6 DEF SkipVisited, graph
  <2>3. Owed' /\ ChangedSoFar'
    BY <2>1, <2>2, StepFrame DEF Owed, ChangedSoFar, WalkInv
  <2> QED BY <2>1, <2>2, <2>3, StepFrame DEF WalkInv
<1>7. CASE SkipMissing
  <2>1. PICK n \in queue \ visited :
          mem[n] = NoRec /\ visited' = visited \cup {n} /\ queue' = queue \ {n}
    BY <1>7 DEF SkipMissing
  <2>2. /\ pc = "cascade" /\ pc' = "cascade"
        /\ UNCHANGED <<edges, target, before, mem, report>>
    BY <1>7 DEF SkipMissing, graph
  <2>3. n \in Nodes /\ n # target /\ before[n] = NoRec /\ n \notin Existing
    <3>1. n \in Nodes /\ n # target
      BY <2>1, <2>2 DEF RTypeOK, WalkInv
    <3>2. mem[n] = before[n]
      BY <2>1, <2>2, <3>1 DEF WalkInv, ChangedSoFar
    <3> QED BY <2>1, <3>1, <3>2 DEF Existing
  <2>4. ChangedSoFar'
    BY <2>1, <2>2, <2>3 DEF ChangedSoFar, WalkInv
  <2>5. Owed'
    BY <2>1, <2>2, <2>3, StepFrame DEF Owed, WalkInv
  <2> QED BY <2>1, <2>2, <2>3, <2>4, <2>5, StepFrame DEF WalkInv
<1>8. CASE Downgrade
  <2>1. PICK n \in queue \ visited :
          /\ mem[n] # NoRec
          /\ mem' = [mem EXCEPT ![n] = Downgraded(mem[n])]
          /\ visited' = visited \cup {n}
          /\ queue' = (queue \ {n}) \cup Predecessors(n, CascadeTypes)
          /\ report' = report \cup {n}
    BY <1>8 DEF Downgrade, Report
  <2>2. /\ pc = "cascade" /\ pc' = "cascade"
        /\ UNCHANGED <<edges, target, before>>
    BY <1>8 DEF Downgrade, graph
  <2>3. n \in Nodes /\ n # target /\ before[n] = mem[n] /\ n \in Existing
    <3>1. n \in Nodes /\ n # target
      BY <2>1, <2>2 DEF RTypeOK, WalkInv
    <3>2. mem[n] = before[n]
      BY <2>1, <2>2, <3>1 DEF WalkInv, ChangedSoFar
    <3> QED BY <2>1, <3>1, <3>2 DEF Existing
  <2>4. ChangedSoFar'
    <3> SUFFICES ASSUME NEW k \in Nodes
                 PROVE  mem'[k] = IF before[k] = NoRec THEN NoRec
                                  ELSE IF k = target THEN Invalidated(before[k])
                                  ELSE IF k \in visited' THEN Downgraded(before[k])
                                  ELSE before[k]
      BY <2>2 DEF ChangedSoFar
    <3>1. CASE k = n
      BY <2>1, <2>3, <3>1 DEF RTypeOK
    <3>2. CASE k # n
      BY <2>1, <2>2, <2>3, <3>2 DEF RTypeOK, WalkInv, ChangedSoFar
    <3> QED BY <3>1, <3>2
  <2>5. Owed'
    BY <2>1, <2>2, <2>3, StepFrame DEF Owed, WalkInv
  <2>6. visited' \cup queue' \subseteq Dependents(Existing)
    <3>1. Predecessors(n, CascadeTypes) \subseteq Nodes
      BY PredecessorsType DEF RTypeOK, GraphTypes
    <3>2. n \in Dependents(Existing)
      BY <2>1, <2>2 DEF WalkInv
    <3>3. Predecessors(n, CascadeTypes) \subseteq Dependents(Existing)
      BY <2>3, <3>1, <3>2, DependentsClosed
    <3> QED BY <2>1, <2>2, <3>2, <3>3 DEF WalkInv
  <2>7. report' = visited' \cap Existing'
    BY <2>1, <2>2, <2>3, StepFrame DEF WalkInv
  <2> QED BY <2>1, <2>2, <2>4, <2>5, <2>6, <2>7, StepFrame DEF WalkInv
<1> QED BY <1>1, <1>2, <1>3, <1>4, <1>5, <1>6, <1>7, <1>8 DEF RNext, InvalidateStep

\* Memory leaves the disk behind only by a write that raised, which also cut
\* its call short.
LEMMA OnDiskStep == OnDisk /\ [RNext]_rvars => OnDisk'
<1> SUFFICES ASSUME OnDisk, [RNext]_rvars PROVE OnDisk'
  OBVIOUS
<1>2. CASE ChangeEdge
  BY <1>2 DEF ChangeEdge, OnDisk
<1>3. CASE Put \/ Delete \/ Downgrade \/ InvalidateTarget
  BY <1>3 DEF Put, Delete, Downgrade, InvalidateTarget, OnDisk, graph
<1>4. CASE Reload \/ StoreSnapshot \/ Crash
  BY <1>4 DEF Reload, StoreSnapshot, Crash, OnDisk
<1>5. CASE Invalidate \/ SkipVisited \/ SkipMissing \/ LogEvent \/ InvalidateFails
  BY <1>5 DEF Invalidate, SkipVisited, SkipMissing, LogEvent, InvalidateFails, OnDisk
<1>6. CASE UNCHANGED rvars
  BY <1>6 DEF rvars, OnDisk
<1> QED BY <1>2, <1>3, <1>4, <1>5, <1>6 DEF RNext, InvalidateStep

\* The cascade is exact: when the walk is over, precisely the target and the
\* records that depend on it have changed, each of them once.
THEOREM CascadeExact == RSpec => []CascadeIsExact
<1>1. RTypeOK /\ WalkInv /\ OnDisk => CascadeIsExact
  <2> SUFFICES ASSUME RTypeOK, WalkInv, OnDisk, CascadeDone
               PROVE  /\ \A n \in Nodes :
                           mem[n] = IF before[n] = NoRec THEN NoRec
                                    ELSE IF n = target THEN Invalidated(before[n])
                                    ELSE IF n \in Dependents(Existing)
                                    THEN Downgraded(before[n]) ELSE before[n]
                      /\ ~failed => disk = mem
    BY DEF CascadeIsExact
  <2>1. Closed(visited, Existing)
    BY DEF CascadeDone, WalkInv, Owed, Closed
  <2>2. Dependents(Existing) \subseteq visited
    BY <2>1, DependentsClosed DEF RTypeOK
  <2>3. Dependents(Existing) = visited
    BY <2>2 DEF CascadeDone, WalkInv
  <2>4. ChangedSoFar
    BY DEF CascadeDone, WalkInv
  <2> QED BY <2>3, <2>4 DEF ChangedSoFar, OnDisk
<1>2. RInit => OnDisk
  BY DEF RInit, OnDisk
<1> QED BY <1>1, <1>2, RollbackTypeInit, RollbackTypeStep, WalkInit, WalkStep, OnDiskStep, PTL
        DEF RSpec

-----------------------------------------------------------------------------
(* The audit trail.                                                        *)

LEMMA NamedStep ==
    RTypeOK /\ WalkInv /\ OnDisk /\ Named /\ [RNext]_rvars => Named'
<1> SUFFICES ASSUME RTypeOK, WalkInv, OnDisk, Named, [RNext]_rvars, ~cut',
                    NEW n \in Nodes, mem'[n].status \in {"hypothesis", "invalidated"}
             PROVE  \/ \E t \in Nodes : n \in AffectedBy(t)'
                    \/ n \in superseded'
                    \/ pc' = "cascade" /\ n \in report'
  BY DEF Named
<1>a. UNCHANGED audit => /\ superseded' = superseded
                         /\ \A t \in Nodes : AffectedBy(t)' = AffectedBy(t)
  BY DEF audit, AffectedBy
<1>1. CASE Put \/ Delete
  <2>1. mem'[n] = mem[n] \/ mem'[n].status \in {"active", "tombstone"}
    <3>1. \A m \in [Nodes -> Cell], k \in Nodes :
            Marked(m, k)[n] = m[n] \/ Marked(m, k)[n].status = "tombstone"
      BY DEF Marked, Cell, Rec, NoRec
    <3>2. CASE Put
      BY <3>2 DEF Put, Fresh, RTypeOK
    <3>3. CASE Delete
      BY <3>1, <3>3 DEF Delete, RTypeOK
    <3> QED BY <1>1, <3>2, <3>3
  <2>2. pc = "idle" /\ ~cut /\ UNCHANGED audit
    BY <1>1 DEF Put, Delete, Begin
  <2> QED BY <1>a, <2>1, <2>2 DEF Named
<1>2. CASE ChangeEdge \/ Reload \/ StoreSnapshot \/ Invalidate
  <2>1. mem' = mem /\ UNCHANGED audit /\ cut' = cut
        /\ ((pc' = pc /\ report' = report) \/ pc = "idle")
    BY <1>2 DEF ChangeEdge, Reload, StoreSnapshot, Invalidate, Begin, locals
  <2> QED BY <1>a, <2>1 DEF Named
<1>3. CASE Crash
  <2>1. pc = "idle" /\ ~cut /\ UNCHANGED audit /\ mem' = mem
    BY <1>3 DEF Crash, OnDisk
  <2> QED BY <1>a, <2>1 DEF Named
<1>4. CASE InvalidateTarget
  <2>1. pc = "target" /\ pc' = "cascade" /\ UNCHANGED audit /\ cut' = cut
    BY <1>4 DEF InvalidateTarget
  <2>2. mem'[n] = mem[n] \/ n \in report'
    BY <1>4 DEF InvalidateTarget, RTypeOK
  <2> QED BY <1>a, <2>1, <2>2 DEF Named
<1>5. CASE SkipVisited \/ SkipMissing
  <2>1. pc' = pc /\ UNCHANGED audit /\ cut' = cut /\ mem' = mem /\ report' = report
    BY <1>5 DEF SkipVisited, SkipMissing, graph
  <2> QED BY <1>a, <2>1 DEF Named
<1>6. CASE Downgrade
  <2>1. pc = "cascade" /\ pc' = "cascade" /\ UNCHANGED audit /\ cut' = cut
        /\ report \subseteq report'
    BY <1>6 DEF Downgrade, Report
  <2>2. mem'[n] = mem[n] \/ n \in report'
    BY <1>6 DEF Downgrade, Report, RTypeOK
  <2> QED BY <1>a, <2>1, <2>2 DEF Named
<1>7. CASE LogEvent
  <2>1. mem' = mem /\ cut' = cut /\ WriteEvent /\ target \in Nodes
    BY <1>7 DEF LogEvent, RTypeOK
  <2>2. /\ events' = [events EXCEPT ![target] = {report}]
        /\ superseded' = superseded \cup ((UNION events[target]) \ report)
    BY <2>1 DEF WriteEvent
  <2>3. events'[target] = {report}
    BY <2>1, <2>2 DEF RTypeOK
  <2>4. n \in report => n \in UNION events'[target]
    BY <2>3
  <2>5. \A t \in Nodes : t # target => events'[t] = events[t]
    BY <2>2 DEF RTypeOK
  <2>6. n \in UNION events[target] => n \in UNION events'[target] \/ n \in superseded'
    <3> DEFINE U == UNION events[target]
    <3>1. superseded' = superseded \cup (U \ report)
      BY <2>2
    <3> HIDE DEF U
    <3>2. n \in U => n \in report \/ n \in superseded'
      BY <3>1
    <3> QED BY <2>4, <3>2 DEF U
  <2>7. \/ \E t \in Nodes : n \in UNION events[t]
        \/ n \in superseded
        \/ n \in report
    BY <2>1 DEF Named, AffectedBy
  <2>8. (\E t \in Nodes : n \in UNION events'[t]) \/ n \in superseded'
    <3>1. CASE \E t \in Nodes : n \in UNION events[t]
      <4>1. PICK t \in Nodes : n \in UNION events[t]
        BY <3>1
      <4>2. CASE t = target
        BY <2>1, <2>6, <4>1, <4>2
      <4>3. CASE t # target
        BY <2>5, <4>1, <4>3
      <4> QED BY <4>2, <4>3
    <3>2. CASE n \in superseded
      BY <2>2, <3>2
    <3>3. CASE n \in report
      BY <2>1, <2>4, <3>3
    <3> QED BY <2>7, <3>1, <3>2, <3>3
  <2> QED BY <2>8 DEF AffectedBy
<1>8. CASE InvalidateFails
  BY <1>8 DEF InvalidateFails
<1>9. CASE UNCHANGED rvars
  BY <1>9, <1>a DEF rvars, audit, Named
<1> QED BY <1>1, <1>2, <1>3, <1>4, <1>5, <1>6, <1>7, <1>8, <1>9 DEF RNext, InvalidateStep

\* Auditability: every downgrade or invalidation that a new process can see
\* is named by the rollback record of some target, unless a call was cut short
\* or a later invalidation of the same target has replaced that record.
THEOREM DowngradesAudited == RSpec => []DowngradesAreAudited
<1>1. Named /\ OnDisk => DowngradesAreAudited
  <2> SUFFICES ASSUME Named, OnDisk, ~cut, pc = "idle",
                      NEW n \in Nodes, disk[n].status \in {"hypothesis", "invalidated"}
               PROVE  n \in (UNION {AffectedBy(t) : t \in Nodes}) \cup superseded
    BY DEF DowngradesAreAudited
  <2>1. disk = mem
    BY DEF OnDisk
  <2>2. (\E t \in Nodes : n \in AffectedBy(t)) \/ n \in superseded
    BY <2>1 DEF Named
  <2>3. n \in superseded => n \in (UNION {AffectedBy(m) : m \in Nodes}) \cup superseded
    OBVIOUS
  <2>4. ASSUME NEW t \in Nodes, n \in AffectedBy(t)
        PROVE  n \in (UNION {AffectedBy(m) : m \in Nodes}) \cup superseded
    <3> DEFINE A(m) == AffectedBy(m)
    <3>1. A(t) \in {A(m) : m \in Nodes} /\ n \in A(t)
      BY <2>4
    <3> HIDE DEF A
    <3>2. n \in UNION {A(m) : m \in Nodes}
      BY <3>1
    <3> QED BY <3>2 DEF A
  <2> QED BY <2>2, <2>3, <2>4
<1>2. RInit => OnDisk /\ Named
  BY DEF RInit, OnDisk, Named, Fresh, NoRec
<1> QED BY <1>1, <1>2, RollbackTypeInit, RollbackTypeStep, WalkInit, WalkStep, OnDiskStep,
           NamedStep, PTL DEF RSpec

-----------------------------------------------------------------------------
(* Edges.                                                                  *)

LEMMA EdgesStep ==
    ASSUME GraphTypes, EdgesSurvive, NEW e \in Edge,
           AddEdge(e) \/ RemoveEdge(e) \/ EdgeWriteFails(e)
    PROVE  EdgesSurvive'
<1> DEFINE id == EdgeIdOf[e]
<1>t. rows \in [EdgeIds -> Row] /\ edges \subseteq Edge
      /\ \A f \in Edge : EdgeIdOf[f] \in EdgeIds
  BY EdgeIdAssumption DEF GraphTypes
<1>c. \A f \in Edge : /\ Collides(f)' = Collides(f)
                      /\ f # e /\ EdgeIdOf[f] = id => Collides(f)
  BY DEF Collides
<1>r. \A f \in Edge : /\ RowOf(f).live = TRUE
                      /\ f # e => RowOf(f) # RowOf(e)
  BY DEF RowOf
\* What belongs to other ids is untouched.
<1>o. \A f \in Edge : EdgeIdOf[f] # id =>
        /\ rows'[EdgeIdOf[f]] = rows[EdgeIdOf[f]]
        /\ f \in edges' <=> f \in edges
        /\ EdgeIdOf[f] \in raised <=> EdgeIdOf[f] \in raised'
  <2>1. rows' \in {rows, [rows EXCEPT ![id] = RowOf(e)], [rows EXCEPT ![id].live = FALSE]}
    BY DEF AddEdge, RemoveEdge, EdgeWriteFails
  <2>2. edges' \in {edges \cup {e}, edges \ {e}}
    BY DEF AddEdge, RemoveEdge, EdgeWriteFails
  <2>3. raised' \in {raised \cup {id}, raised \ {id}}
    BY DEF AddEdge, RemoveEdge, EdgeWriteFails
  <2>4. \A i \in EdgeIds : i # id => rows'[i] = rows[i]
    BY <1>t, <2>1
  <2> QED BY <1>t, <2>2, <2>3, <2>4
\* What was written under e's own id.
<1>i. \/ id \in raised'
      \/ e \in edges' /\ rows'[id] = RowOf(e)
      \/ rows'[id].live = FALSE /\ e \notin edges'
  <2>1. CASE AddEdge(e)
    BY <1>t, <2>1 DEF AddEdge
  <2>2. CASE RemoveEdge(e)
    <3>1. rows[id] \in Row
      BY <1>t
    <3>2. rows'[id] = [rows[id] EXCEPT !.live = FALSE]
      BY <1>t, <2>2 DEF RemoveEdge
    <3>3. rows'[id].live = FALSE
      BY <3>1, <3>2 DEF Row
    <3> QED BY <2>2, <3>3 DEF RemoveEdge
  <2>3. CASE EdgeWriteFails(e)
    BY <2>3 DEF EdgeWriteFails
  <2> QED BY <2>1, <2>2, <2>3
<1> HIDE DEF id
<1>l. \A f \in Edge : f \in Loaded' <=> rows'[EdgeIdOf[f]] = RowOf(f)
  BY DEF Loaded
<1>m. \A f \in Edge : f \in Loaded <=> rows[EdgeIdOf[f]] = RowOf(f)
  BY DEF Loaded
<1>1. ASSUME NEW f \in Edge, f \in Loaded', f \notin edges' PROVE EdgeIdOf[f] \in raised'
  <2>1. CASE EdgeIdOf[f] = id
    <3>1. rows'[id] = RowOf(f)
      BY <1>1, <1>l, <2>1
    <3> QED BY <1>1, <1>i, <1>r, <2>1, <3>1
  <2>2. CASE EdgeIdOf[f] # id
    <3>1. f \in Loaded \ edges
      BY <1>1, <1>l, <1>m, <1>o, <2>2
    <3> QED BY <1>o, <2>2, <3>1 DEF EdgesSurvive
  <2> QED BY <2>1, <2>2
<1>2. ASSUME NEW f \in Edge, f \in edges', f \notin Loaded'
      PROVE  EdgeIdOf[f] \in raised' \/ Collides(f)'
  <2>1. CASE EdgeIdOf[f] = id
    <3>1. CASE f = e
      BY <1>2, <1>i, <1>l, <2>1, <3>1
    <3>2. CASE f # e
      BY <1>c, <2>1, <3>2
    <3> QED BY <3>1, <3>2
  <2>2. CASE EdgeIdOf[f] # id
    <3>1. f \in edges \ Loaded
      BY <1>2, <1>l, <1>m, <1>o, <2>2
    <3> QED BY <1>c, <1>o, <2>2, <3>1 DEF EdgesSurvive
  <2> QED BY <2>1, <2>2
<1>3. edges' \subseteq Edge /\ Loaded' \subseteq Edge
  <2>1. edges' \subseteq edges \cup {e}
    BY DEF AddEdge, RemoveEdge, EdgeWriteFails
  <2> QED BY <1>t, <2>1 DEF Loaded
<1> QED BY <1>1, <1>2, <1>3 DEF EdgesSurvive

\* The graph in use is the one that a new process would load from the store,
\* but for edges whose own write raised and edges that share their record id
\* with another one (deps.py:59), whichever ids there are.
THEOREM EdgesPersist == RSpec => []EdgesSurvive
<1>1. RInit => EdgesSurvive
  BY DEF RInit, GraphInit, EdgesSurvive
<1>2. RTypeOK /\ EdgesSurvive /\ [RNext]_rvars => EdgesSurvive'
  <2> SUFFICES ASSUME RTypeOK, EdgesSurvive, [RNext]_rvars PROVE EdgesSurvive'
    OBVIOUS
  <2>1. CASE ChangeEdge
    BY <2>1, EdgesStep DEF ChangeEdge, RTypeOK
  <2>2. CASE FromStore
    BY <2>2 DEF FromStore, EdgesSurvive, Loaded
  <2>3. CASE UNCHANGED graph
    BY <2>3 DEF graph, EdgesSurvive, Loaded, Collides
  <2>4. CASE Put \/ Delete \/ StoreSnapshot \/ Invalidate \/ InvalidateTarget \/ SkipVisited
    BY <2>3, <2>4 DEF Put, Delete, StoreSnapshot, Invalidate, InvalidateTarget, SkipVisited
  <2>5. CASE SkipMissing \/ Downgrade \/ LogEvent \/ InvalidateFails \/ UNCHANGED rvars
    BY <2>3, <2>5 DEF SkipMissing, Downgrade, LogEvent, InvalidateFails, graph, rvars
  <2>6. CASE Reload \/ Crash
    BY <2>2, <2>6 DEF Reload, Crash
  <2> QED BY <2>1, <2>4, <2>5, <2>6 DEF RNext, InvalidateStep
<1> QED BY <1>1, <1>2, RollbackTypeInit, RollbackTypeStep, PTL DEF RSpec

\* Circular dependencies: no step of the walk repeats an earlier state of it,
\* since each visits a new id or shortens the queue.
THEOREM WalkAlwaysShrinks == RSpec => WalkShrinks
<1>1. [RNext]_rvars => [Shrinks]_rvars
  <2> SUFFICES ASSUME [RNext]_rvars, pc = "cascade", pc' = "cascade"
               PROVE  \/ UNCHANGED <<visited, queue>>
                      \/ visited # visited' /\ visited \subseteq visited'
                      \/ visited' = visited /\ queue' # queue /\ queue' \subseteq queue
    BY DEF Shrinks
  <2>1. CASE SkipVisited
    BY <2>1 DEF SkipVisited
  <2>2. CASE SkipMissing
    BY <2>2 DEF SkipMissing
  <2>3. CASE Downgrade
    BY <2>3 DEF Downgrade
  <2>4. CASE StoreSnapshot \/ UNCHANGED rvars
    BY <2>4 DEF StoreSnapshot, locals, rvars
  <2> QED BY <2>1, <2>2, <2>3, <2>4
          DEF RNext, InvalidateStep, Put, Delete, ChangeEdge, Reload, Begin, Crash, Invalidate,
              InvalidateTarget, LogEvent, InvalidateFails, Return
<1> QED BY <1>1, PTL DEF RSpec, WalkShrinks

\* Every id that leads to the target has a record.
AllRecorded == Dependents(Nodes) \subseteq Existing \cup {target}

ReachesAllRecorded == AllRecorded => CascadeReachesAll

\* What docs/REQUIREMENTS.md promises of the cascade, and the code breaks
\* behind an id without a record (rollback.py:135), holds wherever there is no
\* such id: then every dependent is downgraded, over any path and any cycle.
THEOREM RecordedAreAllReached == RSpec => []ReachesAllRecorded
<1>1. RTypeOK /\ CascadeIsExact => ReachesAllRecorded
  <2> SUFFICES ASSUME RTypeOK, CascadeIsExact, AllRecorded, CascadeDone,
                      NEW n \in Dependents(Nodes) \ {target}, mem[n] # NoRec
               PROVE  mem[n].status = "hypothesis"
    BY DEF ReachesAllRecorded, CascadeReachesAll
  <2> DEFINE All == Dependents(Nodes)
  <2>1. /\ target \in All /\ All \subseteq Nodes
        /\ \A m \in All : Predecessors(m, CascadeTypes) \cap Nodes \subseteq All
    BY DependentsClosed DEF RTypeOK, Dependents
  <2>2. ASSUME NEW S \in SUBSET Nodes, Closed(S, Existing) PROVE n \in S
    <3>1. S \cap All \in SUBSET Nodes
      BY <2>1
    <3>2. Closed(S \cap All, Nodes)
      BY <2>1, <2>2, <3>1 DEF Closed, AllRecorded
    <3> QED BY <3>1, <3>2 DEF Dependents
  <2>3. n \in Dependents(Existing)
    BY <2>1, <2>2 DEF Dependents
  <2>4. n \in Nodes /\ before[n] # NoRec /\ n # target
    BY <2>1 DEF AllRecorded, Existing
  <2>5. mem[n] = Downgraded(before[n])
    BY <2>3, <2>4 DEF CascadeIsExact
  <2> QED BY <2>5 DEF Downgraded
<1> QED BY <1>1, RollbackTypeCorrect, CascadeExact, PTL

-----------------------------------------------------------------------------
(* What an agent is offered after a rollback (Queries).  The exactness of  *)
(* the cascade leaves no record that rests on the target active, and only  *)
(* active records are offered.                                             *)

\* A record that rests on the target is not active once the walk is over.
LEMMA RestingIsNotActive ==
    ASSUME RTypeOK, CascadeIsExact, CascadeDone,
           NEW n \in {target} \cup Dependents(Existing)
    PROVE  n \in Nodes /\ mem[n].status # "active"
<1>1. n \in Nodes
  BY DEF RTypeOK, Dependents
<1>2. \/ mem[n] = NoRec
      \/ mem[n] = Invalidated(before[n]) /\ before[n] # NoRec
      \/ mem[n] = Downgraded(before[n])
  BY <1>1 DEF CascadeIsExact
<1>3. before[n] # NoRec => before[n] \in Rec
  BY <1>1 DEF RTypeOK, Cell
<1>4. CASE mem[n] = NoRec
  BY <1>1, <1>4 DEF NoRec
<1>5. CASE mem[n] = Invalidated(before[n]) /\ before[n] # NoRec
  BY <1>1, <1>3, <1>5 DEF Invalidated, Rec
<1>6. CASE mem[n] = Downgraded(before[n])
  BY <1>1, <1>6 DEF Downgraded
<1> QED BY <1>2, <1>4, <1>5, <1>6

\* invalidate (rollback.py) and the queries (query.py) together: whatever the
\* graph, its cycles and the order of the walk, nothing that rests on the
\* target is known, actionable or done any more.
THEOREM NothingRestsOnTargetAnyMore == RSpec => []NothingRestsOnTarget
<1>1. RTypeOK /\ CascadeIsExact => NothingRestsOnTarget
  <2> SUFFICES ASSUME RTypeOK, CascadeIsExact, CascadeDone
               PROVE  LET resting == {target} \cup Dependents(Existing) IN
                      /\ resting \cap (WhatIsKnown(100) \cup WhatCanAgentDoNext(Nodes)) = {}
                      /\ ~HasThisWorkBeenDone(resting)
    BY DEF NothingRestsOnTarget
  <2>1. \A n \in {target} \cup Dependents(Existing) : mem[n].status # "active"
    BY RestingIsNotActive
  <2> QED BY <2>1 DEF WhatIsKnown, WhatCanAgentDoNext, HasThisWorkBeenDone, Status
<1> QED BY <1>1, RollbackTypeCorrect, CascadeExact, PTL

-----------------------------------------------------------------------------
(* The transitive searches of DepGraph: what they find, with the start, is *)
(* the least set that is closed under the steps.                           *)

LEMMA SearchIsLeast ==
    ASSUME NEW n \in Nodes, NEW next, \A m \in Nodes : next[m] \subseteq Nodes
    PROVE  \E found \in SUBSET Nodes :
              /\ Reached(n, next) = found \ {n}
              /\ n \in found
              /\ \A m \in found : next[m] \subseteq found
              /\ \A R : (n \in R /\ \A m \in R : next[m] \subseteq R) => found \subseteq R
<1> DEFINE K == Cardinality(Nodes)
           Rounds(s) == [k \in 0..K |-> IF k = 0 THEN {n}
                                        ELSE s[k - 1] \cup UNION {next[m] : m \in s[k - 1]}]
           seen == CHOOSE s : s = Rounds(s)
<1>0. K \in Nat
  BY NodesAssumption, FS_CardinalityType
<1>1. Reached(n, next) = seen[K] \ {n}
  BY DEF Reached
<1>2. \A s : IsSearch(s, n, next, K) <=> s = Rounds(s)
  BY DEF IsSearch, Onwards
<1> HIDE DEF Rounds
<1>3. PICK s : IsSearch(s, n, next, K)
  BY <1>0, SearchExists
<1>4. s = Rounds(s)
  BY <1>2, <1>3
<1>5. seen = Rounds(seen)
  BY <1>4
<1> HIDE DEF seen
<1>6. IsSearch(seen, n, next, K)
  BY <1>2, <1>5
<1>7. /\ n \in seen[K] /\ seen[K] \subseteq Nodes
      /\ \A m \in seen[K] : next[m] \subseteq seen[K]
  BY <1>6, NodesAssumption, SearchCloses
<1> HIDE DEF K
<1>8. ASSUME NEW R, n \in R, \A m \in R : next[m] \subseteq R
      PROVE  seen[K] \subseteq R
  <2>1. \A k \in 0..K : seen[k] \subseteq R
    BY <1>0, <1>6, <1>8, SearchStays
  <2> QED BY <1>0, <2>1
<1> QED BY <1>1, <1>7, <1>8

\* The two searches are each other's converse: what DepGraph reaches one way
\* it reaches the other way back, along any set of edge types.
SearchesAgree ==
    \A m, n \in Nodes, T \in SUBSET Types :
        m \in TransitiveSuccessors(n, T) <=> n \in TransitivePredecessors(m, T)

\* transitive_successors and transitive_predecessors (deps.py) agree on every
\* graph that add, remove, failed writes and restarts lead to.
THEOREM SearchesAlwaysAgree == RSpec => []SearchesAgree
<1>1. RTypeOK => SearchesAgree
  <2> SUFFICES ASSUME RTypeOK, NEW m \in Nodes, NEW n \in Nodes, NEW T \in SUBSET Types
               PROVE  m \in TransitiveSuccessors(n, T) <=> n \in TransitivePredecessors(m, T)
    BY DEF SearchesAgree
  <2> DEFINE on == [x \in Nodes |-> Successors(x, T)]
             back == [x \in Nodes |-> Predecessors(x, T)]
             Least(x, next, R) ==
                 /\ R \in SUBSET Nodes /\ Reached(x, next) = R \ {x} /\ x \in R
                 /\ \A y \in R : next[y] \subseteq R
                 /\ \A S : (x \in S /\ \A y \in S : next[y] \subseteq S) => R \subseteq S
  <2>1. /\ \A x \in Nodes : on[x] \subseteq Nodes /\ back[x] \subseteq Nodes
        /\ \A x, y \in Nodes : y \in on[x] <=> x \in back[y]
    BY DEF Successors, Predecessors, RTypeOK, GraphTypes, Edge
  <2>2. /\ TransitiveSuccessors(n, T) = Reached(n, on)
        /\ TransitivePredecessors(m, T) = Reached(m, back)
    BY DEF TransitiveSuccessors, TransitivePredecessors
  <2> HIDE DEF on, back
  <2>3. \A x \in Nodes : \E R : Least(x, on, R)
    BY <2>1, SearchIsLeast
  <2>4. \A x \in Nodes : \E R : Least(x, back, R)
    BY <2>1, SearchIsLeast
  \* Whatever is reached from x one way reaches x the other way.
  <2>5. ASSUME NEW next, NEW prev, NEW x \in Nodes, NEW y \in Nodes,
               \A u, v \in Nodes : v \in next[u] <=> u \in prev[v],
               \A u \in Nodes : next[u] \subseteq Nodes,
               NEW R, Least(x, next, R), y \in R,
               \A u \in Nodes : \E B : Least(u, prev, B)
        PROVE  x = y \/ x \in Reached(y, prev)
    <3> DEFINE S == {u \in Nodes : \E B : Least(u, prev, B) /\ x \in B}
    <3>1. x \in S
      BY <2>5
    <3>2. ASSUME NEW u \in S, NEW v \in next[u] PROVE v \in S
      <4>1. u \in Nodes /\ v \in Nodes /\ u \in prev[v]
        BY <2>5, <3>2
      <4>2. PICK B : Least(u, prev, B) /\ x \in B
        BY <3>2
      <4>3. PICK C : Least(v, prev, C)
        BY <2>5, <4>1
      <4>4. u \in C
        BY <4>1, <4>3
      <4>5. B \subseteq C
        BY <4>2, <4>3, <4>4
      <4> QED BY <4>1, <4>2, <4>3, <4>5
    <3>3. \A u \in S : next[u] \subseteq S
      BY <3>2
    <3>4. y \in S
      <4> HIDE DEF S
      <4> QED BY <2>5, <3>1, <3>3
    <3>5. PICK B : Least(y, prev, B) /\ x \in B
      BY <3>4
    <3> QED BY <3>5
  <2>6. PICK F : Least(n, on, F)
    BY <2>3
  <2>7. PICK B : Least(m, back, B)
    BY <2>4
  <2>8. m \in F => n = m \/ n \in Reached(m, back)
    BY <2>1, <2>4, <2>5, <2>6
  <2>9. n \in B => m = n \/ m \in Reached(n, on)
    <3>1. \A u, v \in Nodes : v \in back[u] <=> u \in on[v]
      BY <2>1
    <3>2. \A u \in Nodes : back[u] \subseteq Nodes
      BY <2>1
    <3>3. ASSUME n \in B PROVE m = n \/ m \in Reached(n, on)
      <4> HIDE DEF Least
      <4> QED BY <2>3, <2>5, <2>7, <3>1, <3>2, <3>3
    <3> QED BY <3>3
  <2>10. /\ m \in Reached(n, on) <=> m \in F /\ m # n
         /\ n \in Reached(m, back) <=> n \in B /\ n # m
    BY <2>6, <2>7
  <2> QED BY <2>2, <2>8, <2>9, <2>10
<1> QED BY <1>1, RollbackTypeCorrect, PTL

-----------------------------------------------------------------------------
(* The end of the walk.                                                    *)

\* Ids left to visit, each worth more than a queue of them all, and the queue.
WalkRank == (Cardinality(Nodes) + 1) * Cardinality(Nodes \ visited) + Cardinality(queue)

LEMMA NodesCount ==
    ASSUME NEW S, S \subseteq Nodes
    PROVE  /\ IsFiniteSet(S) /\ Cardinality(S) \in Nat /\ Cardinality(S) <= Cardinality(Nodes)
           /\ \A n \in S : Cardinality(S \ {n}) = Cardinality(S) - 1
<1>1. IsFiniteSet(S) /\ Cardinality(S) <= Cardinality(Nodes)
  BY NodesAssumption, FS_Subset
<1> QED BY <1>1, FS_CardinalityType, FS_RemoveElement

\* Each step of the walk that does not end it brings its end nearer.
WalkRankFalls ==
    [][(pc = "cascade" /\ pc' = "cascade" /\ InvalidateStep)
           => WalkRank' \in Nat /\ WalkRank' < WalkRank]_rvars

\* invalidate (rollback.py) returns, whatever cycles the graph has and in
\* whatever order its queue is worked off: it takes at most as many steps as
\* WalkRank is when it starts.
THEOREM WalkEnds == RSpec => WalkRankFalls
<1>1. RTypeOK /\ [RNext]_rvars =>
        [(pc = "cascade" /\ pc' = "cascade" /\ InvalidateStep)
            => WalkRank' \in Nat /\ WalkRank' < WalkRank]_rvars
  <2> SUFFICES ASSUME RTypeOK, pc = "cascade", pc' = "cascade", InvalidateStep
               PROVE  WalkRank' \in Nat /\ WalkRank' < WalkRank
    BY DEF RTypeOK
  <2> DEFINE K == Cardinality(Nodes)
             v == Cardinality(Nodes \ visited)
             q == Cardinality(queue)
  <2>1. K \in Nat /\ v \in Nat /\ q \in Nat /\ visited \subseteq Nodes /\ queue \subseteq Nodes
    BY NodesCount DEF RTypeOK
  <2>2. WalkRank = (K + 1) * v + q /\ WalkRank' = (K + 1) * v' + q'
    BY DEF WalkRank
  <2>3. (K + 1) * v \in Nat /\ (v - 1 \in Nat => (K + 1) * (v - 1) = (K + 1) * v - (K + 1))
    BY <2>1
  <2>4. ASSUME NEW n \in queue \ visited, visited' = visited \cup {n},
               queue' \subseteq Nodes
        PROVE  WalkRank' \in Nat /\ WalkRank' < WalkRank
    <3>1. Nodes \ visited' = (Nodes \ visited) \ {n} /\ n \in Nodes \ visited
      BY <2>1, <2>4
    <3>2. v' = v - 1 /\ v' \in Nat
      BY <3>1, NodesCount
    <3>3. q' \in Nat /\ q' <= K
      BY <2>4, NodesCount
    <3> HIDE DEF K, v, q
    <3>4. (K + 1) * v' = (K + 1) * v - (K + 1) /\ (K + 1) * v' \in Nat
      BY <2>1, <2>3, <3>2
    <3> QED BY <2>1, <2>2, <2>3, <3>3, <3>4
  <2>5. CASE SkipVisited
    <3>1. PICK n \in queue : queue' = queue \ {n}
      BY <2>5 DEF SkipVisited
    <3>2. visited' = visited
      BY <2>5 DEF SkipVisited
    <3>3. v' = v /\ q' = q - 1 /\ q' \in Nat
      BY <2>1, <3>1, <3>2, NodesCount
    <3> HIDE DEF K, v, q
    <3> QED BY <2>1, <2>2, <2>3, <3>3
  <2>6. CASE SkipMissing
    <3>1. PICK n \in queue \ visited : visited' = visited \cup {n} /\ queue' = queue \ {n}
      BY <2>6 DEF SkipMissing
    <3> QED BY <2>1, <2>4, <3>1
  <2>7. CASE Downgrade
    <3>1. PICK n \in queue \ visited :
            /\ visited' = visited \cup {n}
            /\ queue' = (queue \ {n}) \cup Predecessors(n, CascadeTypes)
      BY <2>7 DEF Downgrade
    <3>2. queue' \subseteq Nodes
      BY <2>1, <3>1, PredecessorsType DEF RTypeOK, GraphTypes
    <3> QED BY <2>4, <3>1, <3>2
  <2> QED BY <2>5, <2>6, <2>7 DEF InvalidateStep, InvalidateTarget, LogEvent, Return
<1> QED BY <1>1, RollbackTypeInit, RollbackTypeStep, PTL DEF RSpec, WalkRankFalls

-----------------------------------------------------------------------------
(* Two sets of records in doubt.                                           *)

\* A positive power of two is at least two: it counts the subsets of a set.
LEMMA PowerOfTwo ==
    ASSUME NEW k \in Nat, k # 0
    PROVE  2 ^ k \in Nat /\ 2 ^ k >= 2
<1> DEFINE S == 1..k
           P == {{}}
           one == {1}
           Q == P \cup {one}
<1>1. IsFiniteSet(S) /\ Cardinality(S) = k
  BY FS_Interval
<1>2. IsFiniteSet(SUBSET S) /\ Cardinality(SUBSET S) = 2 ^ k
  BY <1>1, FS_SUBSET
<1>3. IsFiniteSet(P) /\ Cardinality(P) = 1 /\ one \notin P
  BY FS_Singleton
<1>4. Q \in SUBSET (SUBSET S)
  OBVIOUS
<1> HIDE DEF P, S, one
<1>5. Cardinality(Q) = 2
  BY <1>3, FS_AddElement
<1> HIDE DEF Q
<1>6. Cardinality(Q) <= Cardinality(SUBSET S) /\ Cardinality(SUBSET S) \in Nat
  BY <1>2, <1>4, FS_Subset, FS_CardinalityType
<1> QED BY <1>2, <1>5, <1>6

\* invalidate (rollback.py), transitive_predecessors (deps.py) and the two
\* lists of doubtful records (query.py) agree on what rests on the target.
THEOREM WalkAlwaysAgreesWithGraph == RSpec => []WalkAgreesWithGraph
<1>1. RTypeOK /\ WalkInv => WalkAgreesWithGraph
  <2> SUFFICES ASSUME RTypeOK, WalkInv, CascadeDone PROVE WalkAgreesWithGraph
    BY DEF WalkAgreesWithGraph
  <2> DEFINE next == [m \in Nodes |-> Predecessors(m, CascadeTypes)]
             upstream == TransitivePredecessors(target, CascadeTypes)
  <2>1. \A m \in Nodes : next[m] = Predecessors(m, CascadeTypes) /\ next[m] \subseteq Nodes
    BY PredecessorsType DEF RTypeOK, GraphTypes
  <2>2. upstream = Reached(target, next) /\ target \in Nodes
    BY DEF TransitivePredecessors, RTypeOK
  <2> HIDE DEF next, upstream
  <2>3. PICK found \in SUBSET Nodes :
          /\ upstream = found \ {target}
          /\ target \in found
          /\ \A m \in found : next[m] \subseteq found
          /\ \A R : (target \in R /\ \A m \in R : next[m] \subseteq R) => found \subseteq R
    BY <2>1, <2>2, SearchIsLeast
  <2>4. /\ target \in visited /\ ChangedSoFar /\ Owed /\ queue = {}
        /\ visited \subseteq Dependents(Existing) /\ visited \subseteq Nodes
    BY DEF CascadeDone, WalkInv, RTypeOK
  <2>5. visited \ {target} \subseteq upstream
    <3>1. Closed(found, Existing)
      BY <2>1, <2>3 DEF Closed
    <3> QED BY <2>3, <2>4, <3>1, DependentsClosed
  <2>6. upstream \subseteq Existing => visited \ {target} = upstream
    <3> SUFFICES ASSUME upstream \subseteq Existing PROVE found \subseteq visited
      BY <2>3, <2>5
    <3>1. ASSUME NEW m \in visited PROVE next[m] \subseteq visited
      <4>1. m \in Existing \cup {target} /\ m \in Nodes
        BY <2>4, <2>5
      <4> QED BY <2>1, <2>4, <4>1 DEF Owed
    <3> QED BY <2>3, <2>4, <3>1
  <2>7. ASSUME NEW n \in WhatDependsOn(target) \ {target}
        PROVE  n \in WhatRequiresReverification \cap WhatConfidenceCollapsed(100)
    <3>1. n \in Predecessors(target, CascadeTypes) /\ mem[n] # NoRec
      BY DependsOnAssumption DEF WhatDependsOn, Found, Predecessors
    <3>2. n \in visited /\ n \in Nodes
      BY <2>4, <3>1 DEF Owed
    <3>3. mem[n] = Downgraded(before[n]) /\ before[n] # NoRec
      BY <2>4, <3>1, <3>2 DEF ChangedSoFar
    <3>4. before[n] \in Rec
      BY <3>2, <3>3 DEF RTypeOK, Cell
    <3>5. Status(n) = "hypothesis" /\ mem[n].halved \in Nat /\ mem[n].halved # 0
      BY <3>3, <3>4 DEF Downgraded, Rec, Status
    <3> DEFINE p == 2 ^ mem[n].halved
    <3>6. p \in Nat /\ p >= 2
      BY <3>5, PowerOfTwo
    <3>7. Confidence(n, 100) = 100 \div p
      BY DEF Confidence
    <3> HIDE DEF p
    <3>8. Confidence(n, 100) < Threshold
      BY <3>6, <3>7 DEF Threshold
    <3> QED BY <3>2, <3>5, <3>8 DEF WhatRequiresReverification, WhatConfidenceCollapsed
  <2> QED BY <2>5, <2>6, <2>7 DEF WalkAgreesWithGraph, upstream
<1> QED BY <1>1, RollbackTypeInit, RollbackTypeStep, WalkInit, WalkStep, PTL DEF RSpec

\* what_can_agent_do_next and what_state_delta_would_complete (query.py): what
\* the first holds back for records in doubt, the second can unblock.
THEOREM BlockersAreAlwaysNamed == RSpec => []BlockersAreNamed
<1>1. RTypeOK => BlockersAreNamed
  <2> SUFFICES ASSUME RTypeOK, NEW a \in Nodes, Status(a) = "active",
                      a \notin WhatCanAgentDoNext(Nodes),
                      \A d \in Successors(a, {"depends_on"}) : Status(d) \in {"active", "hypothesis"}
               PROVE  WhatStateDeltaWouldComplete(a) # {}
    BY DEF BlockersAreNamed
  <2>1. PICK d \in Successors(a, {"depends_on"}) : Status(d) = "hypothesis"
    BY DEF WhatCanAgentDoNext
  <2> DEFINE next == [m \in Nodes |-> Successors(m, Types)]
  <2>2. \A m \in Nodes : next[m] \subseteq Nodes
    BY DEF Successors, RTypeOK, GraphTypes, Edge
  <2>3. d \in next[a]
    BY DependsOnAssumption, CascadeAssumption DEF Successors
  <2>4. TransitiveSuccessors(a, Types) = Reached(a, next)
    BY DEF TransitiveSuccessors
  <2> HIDE DEF next
  <2>5. PICK found \in SUBSET Nodes : /\ Reached(a, next) = found \ {a}
                                      /\ a \in found
                                      /\ \A m \in found : next[m] \subseteq found
    BY <2>2, SearchIsLeast
  <2>6. d \in TransitiveSuccessors(a, Types)
    BY <2>1, <2>3, <2>4, <2>5
  <2> QED BY <2>1, <2>6 DEF WhatStateDeltaWouldComplete
<1> QED BY <1>1, RollbackTypeCorrect, PTL
====
