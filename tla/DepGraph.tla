---- MODULE DepGraph ----
(***************************************************************************)
(* A DepGraph (src/src/chronomemory/deps.py) over the edge records that it *)
(* keeps in a ChronoStore.  A write of the store is one step, which takes  *)
(* effect, raises, or does both: what ChronoStore is shown to implement.   *)
(***************************************************************************)
EXTENDS Naturals, FiniteSets

CONSTANTS
    Nodes,          \* record ids
    Types,          \* EDGE_TYPES
    EdgeIds,        \* ids of edge records
    EdgeIdOf,       \* DependencyEdge.edge_id, a function of the edge
    AppendFaults    \* TRUE when a write of the store may raise

Edge == [from : Nodes, to : Nodes, type : Types]

ASSUME EdgeIdAssumption == EdgeIdOf \in [Edge -> EdgeIds]

ASSUME AppendFaultsAssumption == AppendFaults \in BOOLEAN

VARIABLES
    edges,      \* the keys of graph._edges
    rows,       \* the store's record under each edge id
    raised      \* bookkeeping: the edge ids whose last write has raised

graph == <<edges, rows, raised>>

\* A record of kind "edge": the edge it describes, none before there is one.
NoRow == [edge |-> {}, live |-> FALSE]

RowOf(e) == [edge |-> {e}, live |-> TRUE]

Row == [edge : {{}} \cup {{e} : e \in Edge}, live : BOOLEAN]

\* from_store: the edges of the records that are not tombstones.
Loaded == {e \in Edge : rows[EdgeIdOf[e]] = RowOf(e)}

\* The records of a store in which the edges of E were once added.
RowsOf(E) == [i \in EdgeIds |->
    IF \E e \in E : EdgeIdOf[e] = i
    THEN RowOf(CHOOSE e \in E : EdgeIdOf[e] = i) ELSE NoRow]

\* A graph loaded from a store that an earlier process has left: it holds no
\* two edges under one id.
GraphInit(E) ==
    /\ \A e, f \in E : EdgeIdOf[e] = EdgeIdOf[f] => e = f
    /\ rows = RowsOf(E)
    /\ edges = Loaded
    /\ raised = {}

\* The in-memory edge comes first; _persist_edge upserts its record.
AddEdge(e) ==
    /\ edges' = edges \cup {e}
    /\ rows' = [rows EXCEPT ![EdgeIdOf[e]] = RowOf(e)]
    /\ raised' = raised \ {EdgeIdOf[e]}

BugRemoveLeavesRecord(e) ==
    /\ edges' = edges \ {e}
    /\ UNCHANGED <<rows, raised>>

\* The record becomes a tombstone, if there is one.
RemoveEdge(e) ==
    /\ edges' = edges \ {e}
    /\ rows' = [rows EXCEPT ![EdgeIdOf[e]].live = FALSE]
    /\ raised' = raised \ {EdgeIdOf[e]}

\* The store raises after the in-memory graph has changed; the event may be
\* in its log all the same, when what raised came after the append.
EdgeWriteFails(e) ==
    /\ AppendFaults
    /\ \/ /\ edges' = edges \cup {e}
          /\ rows' \in {rows, [rows EXCEPT ![EdgeIdOf[e]] = RowOf(e)]}
       \/ /\ edges' = edges \ {e}
          /\ rows' \in {rows, [rows EXCEPT ![EdgeIdOf[e]].live = FALSE]}
    /\ raised' = raised \cup {EdgeIdOf[e]}

FromStore ==
    /\ edges' = Loaded
    /\ UNCHANGED <<rows, raised>>

\* Direct predecessors of n across the edge types of T.
Predecessors(n, T) == {e.from : e \in {x \in edges : x.to = n /\ x.type \in T}}

-----------------------------------------------------------------------------
GraphTypes ==
    /\ edges \subseteq Edge
    /\ rows \in [EdgeIds -> Row]
    /\ raised \subseteq EdgeIds

\* Another edge has the same record id: edge_id joins its parts with hyphens,
\* which record ids contain.
Collides(e) == \E f \in Edge \ {e} : EdgeIdOf[f] = EdgeIdOf[e]

\* from_store would rebuild the graph in use, edge for edge, with two
\* exceptions: an edge whose own last write has raised, until a later write
\* under its id, and an edge in use whose id another edge shares, which may
\* have lost its record to that edge.  Nothing that was removed comes back.
EdgesSurvive ==
    /\ \A e \in Loaded \ edges : EdgeIdOf[e] \in raised
    /\ \A e \in edges \ Loaded : EdgeIdOf[e] \in raised \/ Collides(e)
====
