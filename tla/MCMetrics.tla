---- MODULE MCMetrics ----
(* Finite instances of Metrics for TLC. *)
EXTENDS Metrics, TLC

CONSTANTS t, u

MCNames == {t, u}

\* A success and two failures that differ in every number.
MCMeasurements ==
    {[context |-> 1, input |-> 2, output |-> 4, tools |-> 3, blocked |-> 0, success |-> TRUE],
     [context |-> 0, input |-> 1, output |-> 1, tools |-> 1, blocked |-> 2, success |-> FALSE],
     [context |-> 5, input |-> 0, output |-> 0, tools |-> 0, blocked |-> 1, success |-> FALSE]}

NameSymmetry == Permutations(MCNames)
====
