---- MODULE MCRollback ----
(* Finite instances of Rollback for TLC. *)
EXTENDS Queries, TLC

CONSTANTS n1, n2, n3

MCNodes == {n1, n2, n3}
MCTypes == {"depends_on", "validated_by"}
MCCascadeTypes == {"depends_on"}
OneType == {"depends_on"}

\* The edges with the same record id: the nodes stand for ids like "R", "R-R"
\* and "R-R-R-R", so that an edge and its reverse have the same id and no other
\* two edges have.
Reversed(e) == [from |-> e.to, to |-> e.from, type |-> e.type]

HyphenIdOf == [e \in Edge |-> {e, Reversed(e)}]
HyphenIds == {HyphenIdOf[e] : e \in Edge}

NodeSymmetry == Permutations(MCNodes)
====
