---- MODULE MCRustEsdb ----
(* Finite instances of RustEsdb for TLC. *)
EXTENDS RustEsdb, TLC

CONSTANTS r1, r2

MCIds == {r1, r2}
MCKinds == {"Fact", "Decision"}
MCEdgeTypes == {"DependsOn", "Contradicts"}
MCDependentTypes == {"DependsOn"}

\* A confidence that reads back as it was written, what it decays to, which
\* does not, and NaN.
MCConfidences == {"plain", "long", "nan"}
MCNotNumbers == {"nan"}
MCDecay == [c \in MCConfidences |-> IF c = "nan" THEN "nan" ELSE "long"]
MCReadBack == [c \in MCConfidences |-> IF c = "nan" THEN "nan" ELSE "plain"]

MCNewRecords == [kind : {"Fact"}, status : {"Active"}, conf : MCConfidences]
                \cup [kind : {"Decision"}, status : {"Active"}, conf : {"plain"}]

AllFaults == FaultKinds

IdSymmetry == Permutations(MCIds)
====
