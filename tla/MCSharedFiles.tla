---- MODULE MCSharedFiles ----
(* Finite instances of SharedFiles for TLC. *)
EXTENDS SharedFiles, TLC

CONSTANTS p, q, a, b

MCInstances == {p, q}
MCWriters == {p, q}
OneWriter == {p}
MCIds == {a, b}
MCValues == {"x"}
IdSymmetry == Permutations(MCIds)
Symmetry == Permutations(MCIds) \cup Permutations(MCInstances)
====
