---- MODULE ContextPack ----
(***************************************************************************)
(* ContextPackCompiler.compile (src/src/chronomemory/context_pack.py): one *)
(* scan of the store that sorts every record into a candidate or an        *)
(* exclusion, then a pass over the candidates, most trusted first, under   *)
(* the token budget.  The store's dictionary is in the order 1..N; labels  *)
(* and goals matter only by whether they share a word; confidences are     *)
(* counted in tenths.  Definitions named Bug... are seeded faults that no  *)
(* action uses: each stands for the definition below it in the runs that   *)
(* show a property can fail.                                               *)
(***************************************************************************)
EXTENDS Integers, Sequences, FiniteSetsExt

CONSTANTS
    N,              \* records in the store
    Kinds,          \* values of ChronoRecord.kind
    InfraKinds,     \* _INFRA_KINDS
    Samples,        \* the records a store may hold
    Budgets         \* values of token_budget

Statuses == {"active", "deprecated", "hypothesis", "invalidated", "tombstone"}

\* `size` counts the characters of label and data; `onGoal` says whether the
\* label shares a word with the goal.
Record == [status : Statuses, kind : Kinds, confidence : 0..10,
           size : Nat, onGoal : BOOLEAN]

ASSUME PackAssumption ==
    /\ N \in Nat
    /\ InfraKinds \subseteq Kinds
    /\ Samples \subseteq Record
    /\ Budgets \subseteq Nat

VARIABLES
    records,        \* the store's dictionary
    goalWords,      \* TRUE when the goal is not blank
    budget,         \* token_budget
    pc,             \* "scan", "fill" or "done"
    cursor,         \* records scanned so far
    candidates,     \* the candidates the second pass has not reached
    entries,        \* pack.entries
    excluded,       \* pack.excluded: the reason under each excluded record
    running         \* running_tokens

input == <<records, goalWords, budget>>
pvars == <<records, goalWords, budget, pc, cursor, candidates, entries, excluded, running>>

Reasons == {"status", "confidence", "infrastructure", "not relevant", "budget"}

Id == 1..N

_MIN_CONFIDENCE == 6

_EXCLUDED_STATUSES == {"tombstone", "invalidated", "hypothesis"}

\* _estimate_tokens: four characters to a token, and at least one token.
Tokens(i) == IF records[i].size \div 4 > 1 THEN records[i].size \div 4 ELSE 1

\* A call of compile on any store.
PInit ==
    /\ records \in [Id -> Samples]
    /\ goalWords \in BOOLEAN
    /\ budget \in Budgets
    /\ pc = "scan" /\ cursor = 0
    /\ candidates = {} /\ entries = <<>> /\ excluded = <<>> /\ running = 0

-----------------------------------------------------------------------------
(* The scan.  Its tests come in this order, and the first that holds gives *)
(* the reason.                                                             *)

BadStatus(r)  == r.status \in _EXCLUDED_STATUSES
TooWeak(r)    == r.confidence < _MIN_CONFIDENCE
Infra(r)      == r.kind \in InfraKinds
Irrelevant(r) == goalWords /\ ~r.onGoal

BugThresholdOffByOne(r) ==
    IF BadStatus(r) THEN "status"
    ELSE IF r.confidence <= _MIN_CONFIDENCE THEN "confidence"
    ELSE IF Infra(r) THEN "infrastructure"
    ELSE IF Irrelevant(r) THEN "not relevant"
    ELSE "none"

Verdict(r) ==
    IF BadStatus(r) THEN "status"
    ELSE IF TooWeak(r) THEN "confidence"
    ELSE IF Infra(r) THEN "infrastructure"
    ELSE IF Irrelevant(r) THEN "not relevant"
    ELSE "none"

BugReasonLost(i, why) == excluded' = [j \in DOMAIN excluded \cup {i} |-> ""]

Excluding(i, why) == excluded' = [j \in DOMAIN excluded \cup {i} |->
                                      IF j = i THEN why ELSE excluded[j]]

Exclude ==
    /\ pc = "scan"
    /\ cursor < N
    /\ Verdict(records[cursor + 1]) # "none"
    /\ Excluding(cursor + 1, Verdict(records[cursor + 1]))
    /\ cursor' = cursor + 1
    /\ UNCHANGED <<input, pc, candidates, entries, running>>

Admit ==
    /\ pc = "scan"
    /\ cursor < N
    /\ Verdict(records[cursor + 1]) = "none"
    /\ candidates' = candidates \cup {cursor + 1}
    /\ cursor' = cursor + 1
    /\ UNCHANGED <<input, pc, entries, excluded, running>>

Scanned ==
    /\ pc = "scan"
    /\ cursor = N
    /\ pc' = "fill"
    /\ UNCHANGED <<input, cursor, candidates, entries, excluded, running>>

-----------------------------------------------------------------------------
(* The sort, as the order in which the second pass meets the candidates,   *)
(* and that pass.                                                          *)

\* The sort is by confidence, highest first, and stable.
Before(i, j) ==
    \/ records[i].confidence > records[j].confidence
    \/ records[i].confidence = records[j].confidence /\ i <= j

BugUnsorted == {i \in candidates : \A j \in candidates : i <= j}

Foremost == {i \in candidates : \A j \in candidates : Before(i, j)}

BugBudgetNeverMet(i) == running + Tokens(i) < budget

Fits(i) == running + Tokens(i) <= budget

Take ==
    /\ pc = "fill"
    /\ \E i \in Foremost :
         /\ Fits(i)
         /\ entries' = Append(entries, i)
         /\ running' = running + Tokens(i)
         /\ candidates' = candidates \ {i}
    /\ UNCHANGED <<input, pc, cursor, excluded>>

BugDropEndsThePass ==
    /\ pc = "fill"
    /\ \E i \in Foremost :
         /\ ~Fits(i)
         /\ Excluding(i, "budget")
         /\ candidates' = {}
    /\ UNCHANGED <<input, pc, cursor, entries, running>>

Drop ==
    /\ pc = "fill"
    /\ \E i \in Foremost :
         /\ ~Fits(i)
         /\ Excluding(i, "budget")
         /\ candidates' = candidates \ {i}
    /\ UNCHANGED <<input, pc, cursor, entries, running>>

Compiled ==
    /\ pc = "fill"
    /\ candidates = {}
    /\ pc' = "done"
    /\ UNCHANGED <<input, cursor, candidates, entries, excluded, running>>

PNext == Exclude \/ Admit \/ Scanned \/ Take \/ Drop \/ Compiled

PSpec == PInit /\ [][PNext]_pvars

-----------------------------------------------------------------------------
(* query.what_is_known over the same dictionary, kind unspecified: the     *)
(* store's own filter on status and confidence, then the kinds.            *)

WhatIsKnown ==
    {i \in Id : /\ records[i].status = "active"
                /\ records[i].confidence >= 6
                /\ records[i].kind \notin InfraKinds}

\* ContextPack.token_count
TokenCount(S) == MapThenSumSet(Tokens, S)

Entered == {entries[k] : k \in DOMAIN entries}

Dropped == {i \in DOMAIN excluded : excluded[i] = "budget"}

-----------------------------------------------------------------------------
(* Properties.                                                             *)

\* The type invariant.
PTypeOK ==
    /\ records \in [Id -> Samples] /\ goalWords \in BOOLEAN /\ budget \in Budgets
    /\ pc \in {"scan", "fill", "done"}
    /\ cursor \in 0..N
    /\ candidates \subseteq Id
    /\ entries \in Seq(Id)
    /\ DOMAIN excluded \subseteq Id
    /\ \A i \in DOMAIN excluded : excluded[i] \in Reasons
    /\ running \in Nat

\* The sum that the loop keeps is the token count of the pack, it stays within
\* the budget, and nothing that was dropped for the budget fits in what is
\* left of it (compile, token_count).
BudgetIsUsed ==
    /\ running = TokenCount(Entered)
    /\ running <= budget
    /\ \A d \in Dropped : running + Tokens(d) > budget

\* No record is lost or listed twice: at every moment each scanned record is
\* a candidate, an entry or an exclusion, and the compiled pack accounts for
\* the whole store (pack.entries, pack.excluded).
EachRecordOnce ==
    /\ Entered \cup DOMAIN excluded \cup candidates = 1..cursor
    /\ Entered \cap DOMAIN excluded = {}
    /\ candidates \cap (Entered \cup DOMAIN excluded) = {}
    /\ \A j, k \in DOMAIN entries : entries[j] = entries[k] => j = k
    /\ pc = "done" => cursor = N /\ candidates = {}

\* A record is in S exactly when nothing speaks against it and it fits beside
\* those in S that outrank it.
Greedy(S) == \A i \in Id :
    i \in S <=> /\ Verdict(records[i]) = "none"
                /\ TokenCount({j \in S : Before(j, i) /\ j # i}) + Tokens(i) <= budget

\* compile has one answer, the greedy set.  So a record is left out for the
\* budget because it alone, or with those that outrank it in the pack, is too
\* big, and smaller records that are trusted less may go in after it: what is
\* dropped need not be the least trusted, as context_pack.py:9 says it is.
PackIsGreedy ==
    pc = "done" => /\ Greedy(Entered)
                   /\ \A T \in SUBSET Id : Greedy(T) => T = Entered

\* The rules of inclusion that compile, the store's rag_filter and
\* what_is_known state separately differ by exactly one status: with no goal
\* and enough budget the pack is what is known and, though the docstring of
\* compile admits active records only, the deprecated records.
PackIsKnownOrDeprecated ==
    (pc = "done" /\ ~goalWords /\ Dropped = {}) =>
        Entered = WhatIsKnown \cup
            {i \in Id : /\ records[i].status = "deprecated"
                        /\ records[i].confidence >= 6
                        /\ records[i].kind \notin InfraKinds}
====
