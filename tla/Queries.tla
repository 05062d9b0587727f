---- MODULE Queries ----
(***************************************************************************)
(* The query functions of src/src/chronomemory/query.py that an agent asks *)
(* around a rollback, as operators over the store and the graph of module  *)
(* Rollback, and the transitive searches of DepGraph that they use.  Where *)
(* a record's kind or confidence matters it is a parameter: the properties *)
(* hold for any.                                                           *)
(***************************************************************************)
EXTENDS Rollback

ASSUME DependsOnAssumption == "depends_on" \in CascadeTypes

ASSUME NodesAssumption == IsFiniteSet(Nodes)

\* _CONFIDENCE_RAG_THRESHOLD and the default of what_confidence_collapsed, in
\* per cent.
Threshold == 60

\* The confidence of n's record when it was put in with c per cent.
Confidence(n, c) == c \div 2 ^ mem[n].halved

Status(n) == mem[n].status

-----------------------------------------------------------------------------
(* DepGraph.                                                               *)

Successors(n, T) == {e.to : e \in {x \in edges : x.from = n /\ x.type \in T}}

\* The breadth-first search of transitive_successors and
\* transitive_predecessors, a round of the queue at a time: after k rounds
\* whatever is at most k edges away has been visited.  The start is discarded.
Reached(n, next) ==
    LET seen[k \in 0..Cardinality(Nodes)] ==
            IF k = 0 THEN {n} ELSE seen[k - 1] \cup UNION {next[m] : m \in seen[k - 1]}
    IN  seen[Cardinality(Nodes)] \ {n}

BugWalksBackwards(n, T) == Reached(n, [m \in Nodes |-> Predecessors(m, T)])

TransitiveSuccessors(n, T) == Reached(n, [m \in Nodes |-> Successors(m, T)])

BugDirectOnly(n, T) == Predecessors(n, T) \ {n}

TransitivePredecessors(n, T) == Reached(n, [m \in Nodes |-> Predecessors(m, T)])

-----------------------------------------------------------------------------
(* query.py.                                                               *)

\* query(rag_filter=True); the kinds left out are bookkeeping, which Nodes
\* does not hold.
WhatIsKnown(c) == {n \in Nodes : Status(n) = "active" /\ Confidence(n, c) >= Threshold}

WhatRequiresReverification == {n \in Nodes : Status(n) = "hypothesis"}

WhatConfidenceCollapsed(c) ==
    {n \in Nodes : Confidence(n, c) < Threshold /\ Status(n) = "hypothesis"}

BugActionsOfAnyStatus(actions) ==
    {a \in actions : \A d \in Successors(a, {"depends_on"}) : Status(d) = "active"}

\* `actions` are the records of kind "action".
WhatCanAgentDoNext(actions) ==
    {a \in actions : /\ Status(a) = "active"
                     /\ \A d \in Successors(a, {"depends_on"}) : Status(d) = "active"}

WhatStateDeltaWouldComplete(goal) ==
    {n \in TransitiveSuccessors(goal, Types) : Status(n) = "hypothesis"}

Found(S) == {n \in S : mem[n] # NoRec}

WhatDependsOn(n) == Found(Predecessors(n, {"depends_on"}))

\* `works` are the decisions and facts whose label contains that of the work.
HasThisWorkBeenDone(works) == \E n \in works : Status(n) = "active"

-----------------------------------------------------------------------------
(* Properties.                                                             *)

\* When a rollback is through, nothing that rests on its target through
\* records is offered to an agent any more, whatever the graph's shape: not
\* as knowledge, whatever its confidence was, not as something to do, and not
\* as work that need not be done again.
NothingRestsOnTarget ==
    CascadeDone =>
        LET resting == {target} \cup Dependents(Existing) IN
        /\ resting \cap (WhatIsKnown(100) \cup WhatCanAgentDoNext(Nodes)) = {}
        /\ ~HasThisWorkBeenDone(resting)

\* invalidate walks the graph with a loop of its own: it visits nothing that
\* transitive_predecessors would not, and all of it when every id on the way
\* has a record; and what what_depends_on then names is in both lists of what
\* is to be looked at again, however confident it was.
WalkAgreesWithGraph ==
    CascadeDone =>
        LET upstream == TransitivePredecessors(target, CascadeTypes) IN
        /\ visited \ {target} \subseteq upstream
        /\ upstream \subseteq Existing => visited \ {target} = upstream
        /\ WhatDependsOn(target) \ {target}
               \subseteq WhatRequiresReverification \cap WhatConfidenceCollapsed(100)

\* An action that is held back only by records in doubt can be unblocked:
\* what_state_delta_would_complete names such a record for it.
BlockersAreNamed ==
    \A a \in Nodes :
        (/\ Status(a) = "active"
         /\ a \notin WhatCanAgentDoNext(Nodes)
         /\ \A d \in Successors(a, {"depends_on"}) : Status(d) \in {"active", "hypothesis"})
            => WhatStateDeltaWouldComplete(a) # {}
====
