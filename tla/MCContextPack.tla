---- MODULE MCContextPack ----
(* Finite instances of ContextPack for TLC. *)
EXTENDS ContextPack

MCKinds == {"fact", "edge"}
MCInfraKinds == {"edge"}

Sample(status, kind, confidence, size, onGoal) ==
    [status |-> status, kind |-> kind, confidence |-> confidence,
     size |-> size, onGoal |-> onGoal]

\* Good records at and above the threshold, of one token (the minimum), two
\* and three; one record for each reason to leave it out; and one
\* for each pair of reasons that the order of the tests tells apart.
MCSamples ==
    {Sample("active", "fact", c, n, TRUE) : c \in {6, 9}, n \in {0, 8, 12}}
        \cup {Sample("deprecated", "fact", 9, 8, TRUE),
              Sample("hypothesis", "fact", 5, 8, TRUE),
              Sample("tombstone", "edge", 9, 8, TRUE),
              Sample("active", "fact", 5, 8, FALSE),
              Sample("active", "edge", 9, 8, FALSE),
              Sample("active", "fact", 6, 8, FALSE)}

MCBudgets == {0, 2, 4}
====
