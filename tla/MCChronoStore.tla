---- MODULE MCChronoStore ----
(* Finite instances of ChronoStore for TLC. *)
EXTENDS ChronoStoreInv, StoreQueries, TLC

CONSTANTS a, b, x, y

MCIds == {a, b}
OneContent == {x}
TwoContents == {x, y}
SecondContent == {y}
NoContent == {}
MCStatuses == {"active", "tombstone"}

AllFaults == FaultKinds

NoFaults == {}

CutCompact == {"cut_compact"}

ReadFailure == {"read_fails"}

IdSymmetry == Permutations(MCIds)
====
