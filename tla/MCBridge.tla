---- MODULE MCBridge ----
(* Finite instances of Migration and Bridge for TLC. *)
EXTENDS Bridge, TLC

CONSTANTS a, b

MCIds == {a, b}
MCTitles == {"t", "u"}
MCRests == {"x", "y"}
MCGovStatuses == {"implemented", "deprecated"}
MCDeprecating == {"deprecated"}

I(id, title, gov, rest) ==
    [id |-> id, title |-> title, gov |-> gov, rest |-> rest, wrong |-> "nothing"]

Bad(id, wrong) == [I(id, "t", "implemented", "x") EXCEPT !.wrong = wrong]

\* An empty or missing file; one item; a deprecated item; two items, one of
\* them with another confidence; the same id twice; an item without an id and
\* one that float() refuses before a good one; a status that is not a string.
MCListings ==
    {<<>>,
     <<I(a, "t", "implemented", "x")>>,
     <<I(b, "u", "deprecated", "x")>>,
     <<I(a, "t", "implemented", "y"), I(b, "t", "implemented", "x")>>,
     <<I(a, "t", "implemented", "x"), I(a, "u", "implemented", "x")>>,
     <<I(NoId, "t", "implemented", "x"), Bad(a, "confidence"), I(b, "t", "implemented", "x")>>,
     <<Bad(a, "status")>>}
====
