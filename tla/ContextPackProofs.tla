---- MODULE ContextPackProofs ----
(***************************************************************************)
(* Proofs about ContextPack, for every store and budget.                   *)
(***************************************************************************)
EXTENDS ContextPack, FiniteLemmas

LEMMA RecordType ==
    ASSUME PTypeOK, NEW i \in Id
    PROVE  records[i] \in Record /\ Tokens(i) \in Nat
<1>1. records[i] \in Record
  BY PackAssumption DEF PTypeOK
<1>2. records[i].size \in Nat
  BY <1>1 DEF Record
<1> QED BY <1>1, <1>2 DEF Tokens

LEMMA VerdictIsReason ==
    ASSUME NEW r, Verdict(r) # "none"
    PROVE  Verdict(r) \in Reasons \ {"budget"}
BY DEF Verdict, Reasons

\* The next record of the scan.
LEMMA NextIsId ==
    ASSUME PTypeOK, cursor < N
    PROVE  cursor + 1 \in Id /\ cursor + 1 \in 0..N
BY PackAssumption DEF PTypeOK, Id

LEMMA ExcludingType ==
    ASSUME PTypeOK, NEW i \in Id, NEW why \in Reasons, Excluding(i, why)
    PROVE  /\ DOMAIN excluded' = DOMAIN excluded \cup {i}
           /\ excluded'[i] = why
           /\ \A j \in DOMAIN excluded : j # i => excluded'[j] = excluded[j]
           /\ DOMAIN excluded' \subseteq Id
           /\ \A j \in DOMAIN excluded' : excluded'[j] \in Reasons
BY DEF PTypeOK, Excluding

-----------------------------------------------------------------------------
(* Types and the budget.                                                   *)

LEMMA PackTypeInit == PInit => PTypeOK
BY PackAssumption DEF PInit, PTypeOK

LEMMA PackTypeStep == PTypeOK /\ [PNext]_pvars => PTypeOK'
<1> SUFFICES ASSUME PTypeOK, [PNext]_pvars PROVE PTypeOK'
  OBVIOUS
<1>1. CASE Exclude
  <2>1. cursor + 1 \in Id /\ cursor' \in 0..N
    BY <1>1, NextIsId DEF Exclude
  <2>2. Verdict(records[cursor + 1]) \in Reasons
    BY <1>1, VerdictIsReason DEF Exclude
  <2>3. DOMAIN excluded' \subseteq Id /\ \A j \in DOMAIN excluded' : excluded'[j] \in Reasons
    BY <1>1, <2>1, <2>2, ExcludingType DEF Exclude
  <2> QED BY <1>1, <2>1, <2>3 DEF Exclude, PTypeOK, input
<1>2. CASE Admit
  <2>1. cursor + 1 \in Id /\ cursor' \in 0..N
    BY <1>2, NextIsId DEF Admit
  <2> QED BY <1>2, <2>1 DEF Admit, PTypeOK, input
<1>3. CASE Scanned \/ Compiled
  BY <1>3 DEF Scanned, Compiled, PTypeOK, input
<1>4. CASE Take
  <2>1. PICK i \in Foremost : /\ entries' = Append(entries, i)
                              /\ running' = running + Tokens(i)
                              /\ candidates' = candidates \ {i}
    BY <1>4 DEF Take
  <2>2. i \in Id
    BY <2>1 DEF Foremost, PTypeOK
  <2>3. running' \in Nat /\ entries' \in Seq(Id)
    BY <2>1, <2>2, RecordType DEF PTypeOK
  <2> QED BY <1>4, <2>1, <2>3 DEF Take, PTypeOK, input
<1>5. CASE Drop
  <2>1. PICK i \in Foremost : Excluding(i, "budget") /\ candidates' = candidates \ {i}
    BY <1>5 DEF Drop
  <2>2. i \in Id /\ "budget" \in Reasons
    BY <2>1 DEF Foremost, PTypeOK, Reasons
  <2>3. DOMAIN excluded' \subseteq Id /\ \A j \in DOMAIN excluded' : excluded'[j] \in Reasons
    BY <2>1, <2>2, ExcludingType
  <2> QED BY <1>5, <2>1, <2>3 DEF Drop, PTypeOK, input
<1>6. CASE UNCHANGED pvars
  BY <1>6 DEF pvars, input, PTypeOK
<1> QED BY <1>1, <1>2, <1>3, <1>4, <1>5, <1>6 DEF PNext

\* Every variable of compile keeps its type.
THEOREM PackTypeCorrect == PSpec => []PTypeOK
BY PackTypeInit, PackTypeStep, PTL DEF PSpec

\* The sum that the loop keeps stays within the budget, and what was dropped
\* does not fit in the rest: the part of BudgetIsUsed that is about the loop.
BudgetIsMet == running <= budget /\ \A d \in Dropped : running + Tokens(d) > budget

LEMMA BudgetStep == PTypeOK /\ BudgetIsMet /\ [PNext]_pvars => BudgetIsMet'
<1> SUFFICES ASSUME PTypeOK, BudgetIsMet, [PNext]_pvars PROVE BudgetIsMet'
  OBVIOUS
<1>t. budget \in Nat /\ running \in Nat /\ \A i \in Id : Tokens(i) \in Nat
  BY PackAssumption, RecordType DEF PTypeOK
<1>d. Dropped \subseteq Id
  BY DEF Dropped, PTypeOK
<1>r. ASSUME UNCHANGED records PROVE \A i : Tokens(i)' = Tokens(i)
  BY <1>r DEF Tokens
<1>1. CASE Exclude
  <2>1. cursor + 1 \in Id
    BY <1>1, NextIsId DEF Exclude
  <2>2. Verdict(records[cursor + 1]) \in Reasons \ {"budget"}
    BY <1>1, VerdictIsReason DEF Exclude
  <2>3. Dropped' \subseteq Dropped
    BY <1>1, <2>1, <2>2, ExcludingType DEF Exclude, Dropped
  <2> QED BY <1>1, <1>r, <2>3 DEF Exclude, BudgetIsMet, input
<1>2. CASE Admit \/ Scanned \/ Compiled \/ UNCHANGED pvars
  BY <1>2, <1>r DEF Admit, Scanned, Compiled, pvars, input, BudgetIsMet, Dropped
<1>3. CASE Take
  <2>1. PICK i \in Foremost : Fits(i) /\ running' = running + Tokens(i)
    BY <1>3 DEF Take
  <2>2. i \in Id
    BY <2>1 DEF Foremost, PTypeOK
  <2>3. Dropped' = Dropped /\ budget' = budget /\ records' = records
    BY <1>3 DEF Take, Dropped, input
  <2>4. running' <= budget
    BY <2>1 DEF Fits
  <2>5. ASSUME NEW d \in Dropped PROVE running' + Tokens(d) > budget
    BY <1>t, <1>d, <2>1, <2>2 DEF BudgetIsMet
  <2> QED BY <1>r, <2>3, <2>4, <2>5 DEF BudgetIsMet
<1>4. CASE Drop
  <2>1. PICK i \in Foremost : ~Fits(i) /\ Excluding(i, "budget")
    BY <1>4 DEF Drop
  <2>2. i \in Id /\ "budget" \in Reasons
    BY <2>1 DEF Foremost, PTypeOK, Reasons
  <2>3. Dropped' \subseteq Dropped \cup {i}
    BY <2>1, <2>2, ExcludingType DEF Dropped
  <2>4. running + Tokens(i) > budget
    BY <1>t, <2>1, <2>2 DEF Fits
  <2> QED BY <1>4, <1>r, <2>3, <2>4 DEF Drop, BudgetIsMet, input
<1> QED BY <1>1, <1>2, <1>3, <1>4 DEF PNext

\* compile stops at the budget and not before it.
LEMMA BudgetAlwaysMet == PSpec => []BudgetIsMet
<1>1. PInit => BudgetIsMet
  BY PackAssumption DEF PInit, BudgetIsMet, Dropped
<1> QED BY <1>1, BudgetStep, PackTypeCorrect, PTL DEF PSpec

-----------------------------------------------------------------------------
(* Where every record goes.                                                *)

ScanEnds == pc # "scan" => cursor = N

SortedInv == EachRecordOnce /\ ScanEnds

\* A sequence without repetitions stays one when a new element is appended.
LEMMA AppendEntry ==
    ASSUME PTypeOK, NEW i \in Id, entries' = Append(entries, i)
    PROVE  /\ Entered' = Entered \cup {i}
           /\ (/\ i \notin Entered
               /\ \A j, k \in DOMAIN entries : entries[j] = entries[k] => j = k)
              => \A j, k \in DOMAIN entries' : entries'[j] = entries'[k] => j = k
<1>1. entries \in Seq(Id)
  BY DEF PTypeOK
<1>2. /\ DOMAIN entries' = DOMAIN entries \cup {Len(entries) + 1}
      /\ entries'[Len(entries) + 1] = i
      /\ \A k \in DOMAIN entries : entries'[k] = entries[k]
  BY <1>1
<1> QED BY <1>2 DEF Entered

LEMMA SortedStep == PTypeOK /\ SortedInv /\ [PNext]_pvars => SortedInv'
<1> SUFFICES ASSUME PTypeOK, SortedInv, [PNext]_pvars PROVE SortedInv'
  OBVIOUS
<1>n. N \in Nat /\ cursor \in 0..N
  BY PackAssumption DEF PTypeOK
<1>1. CASE Exclude
  <2>1. cursor + 1 \in Id /\ cursor < N /\ pc = "scan" /\ pc' = "scan" /\ cursor' = cursor + 1
    BY <1>1, NextIsId DEF Exclude
  <2>2. Verdict(records[cursor + 1]) \in Reasons
    BY <1>1, VerdictIsReason DEF Exclude
  <2>3. DOMAIN excluded' = DOMAIN excluded \cup {cursor + 1}
    BY <1>1, <2>1, <2>2, ExcludingType DEF Exclude
  <2>4. Entered' = Entered /\ candidates' = candidates /\ entries' = entries
    BY <1>1 DEF Exclude, Entered
  <2>5. cursor + 1 \notin 1..cursor /\ 1..(cursor + 1) = 1..cursor \cup {cursor + 1}
    BY <1>n
  <2> QED BY <2>1, <2>3, <2>4, <2>5 DEF SortedInv, EachRecordOnce, ScanEnds
<1>2. CASE Admit
  <2>1. cursor < N /\ pc = "scan" /\ pc' = "scan" /\ cursor' = cursor + 1
        /\ candidates' = candidates \cup {cursor + 1}
        /\ Entered' = Entered /\ entries' = entries /\ excluded' = excluded
    BY <1>2 DEF Admit, Entered
  <2>2. cursor + 1 \notin 1..cursor /\ 1..(cursor + 1) = 1..cursor \cup {cursor + 1}
    BY <1>n
  <2> QED BY <2>1, <2>2 DEF SortedInv, EachRecordOnce, ScanEnds
<1>3. CASE Scanned \/ Compiled \/ UNCHANGED pvars
  BY <1>3 DEF Scanned, Compiled, pvars, SortedInv, EachRecordOnce, ScanEnds, Entered
<1>4. CASE Take
  <2>1. PICK i \in Foremost : entries' = Append(entries, i) /\ candidates' = candidates \ {i}
    BY <1>4 DEF Take
  <2>2. i \in Id /\ i \in candidates
    BY <2>1 DEF Foremost, PTypeOK
  <2>3. /\ Entered' = Entered \cup {i}
        /\ \A j, k \in DOMAIN entries' : entries'[j] = entries'[k] => j = k
    BY <2>1, <2>2, AppendEntry DEF SortedInv, EachRecordOnce
  <2>4. pc = "fill" /\ pc' = "fill" /\ cursor' = cursor /\ excluded' = excluded
    BY <1>4 DEF Take
  <2> QED BY <2>1, <2>2, <2>3, <2>4 DEF SortedInv, EachRecordOnce, ScanEnds
<1>5. CASE Drop
  <2>1. PICK i \in Foremost : Excluding(i, "budget") /\ candidates' = candidates \ {i}
    BY <1>5 DEF Drop
  <2>2. i \in Id /\ i \in candidates /\ "budget" \in Reasons
    BY <2>1 DEF Foremost, PTypeOK, Reasons
  <2>3. DOMAIN excluded' = DOMAIN excluded \cup {i}
    BY <2>1, <2>2, ExcludingType
  <2>4. pc = "fill" /\ pc' = "fill" /\ cursor' = cursor /\ entries' = entries
        /\ Entered' = Entered
    BY <1>5 DEF Drop, Entered
  <2> QED BY <2>1, <2>2, <2>3, <2>4 DEF SortedInv, EachRecordOnce, ScanEnds
<1> QED BY <1>1, <1>2, <1>3, <1>4, <1>5 DEF PNext

LEMMA SortedInit == PInit => SortedInv
<1> SUFFICES ASSUME PInit PROVE SortedInv
  OBVIOUS
<1>1. Entered = {} /\ DOMAIN excluded = {} /\ candidates = {} /\ 1..cursor = {}
  BY DEF PInit, Entered
<1> QED BY <1>1 DEF PInit, SortedInv, EachRecordOnce, ScanEnds

\* compile accounts for every record once: as an entry or as an exclusion.
THEOREM EachRecordAlwaysOnce == PSpec => []EachRecordOnce
<1>1. SortedInv => EachRecordOnce
  BY DEF SortedInv
<1> QED BY <1>1, SortedInit, SortedStep, PackTypeCorrect, PTL DEF PSpec

\* A record is excluded for the budget or by the verdict of the scan, and only
\* records without a verdict against them become entries.
VerdictInv ==
    /\ \A i \in DOMAIN excluded : excluded[i] = "budget" \/ Verdict(records[i]) # "none"
    /\ \A i \in Entered \cup candidates : Verdict(records[i]) = "none"

LEMMA VerdictStep == PTypeOK /\ VerdictInv /\ [PNext]_pvars => VerdictInv'
<1> SUFFICES ASSUME PTypeOK, VerdictInv, [PNext]_pvars PROVE VerdictInv'
  OBVIOUS
<1>g. goalWords' = goalWords => \A r : Verdict(r)' = Verdict(r)
  BY DEF Verdict, Irrelevant, BadStatus, TooWeak, Infra
<1>r. goalWords' = goalWords /\ records' = records
  BY DEF PNext, Exclude, Admit, Scanned, Take, Drop, Compiled, pvars, input
<1>v. \A i : Verdict(records[i])' = Verdict(records[i])
  BY <1>g, <1>r DEF Verdict, Irrelevant, BadStatus, TooWeak, Infra
<1>1. CASE Exclude
  <2>1. cursor + 1 \in Id /\ Verdict(records[cursor + 1]) # "none"
    BY <1>1, NextIsId DEF Exclude
  <2>2. Verdict(records[cursor + 1]) \in Reasons
    BY <1>1, VerdictIsReason DEF Exclude
  <2>3. /\ DOMAIN excluded' = DOMAIN excluded \cup {cursor + 1}
        /\ \A j \in DOMAIN excluded : j # cursor + 1 => excluded'[j] = excluded[j]
    BY <1>1, <2>1, <2>2, ExcludingType DEF Exclude
  <2>4. Entered' = Entered /\ candidates' = candidates
    BY <1>1 DEF Exclude, Entered
  <2> QED BY <1>v, <2>1, <2>3, <2>4 DEF VerdictInv
<1>2. CASE Admit
  <2>1. Entered' = Entered /\ candidates' = candidates \cup {cursor + 1} /\ excluded' = excluded
        /\ Verdict(records[cursor + 1]) = "none"
    BY <1>2 DEF Admit, Entered
  <2> QED BY <1>v, <2>1 DEF VerdictInv
<1>3. CASE Scanned \/ Compiled \/ UNCHANGED pvars
  <2>1. Entered' = Entered /\ candidates' = candidates /\ excluded' = excluded
    BY <1>3 DEF Scanned, Compiled, pvars, Entered
  <2> QED BY <1>v, <2>1 DEF VerdictInv
<1>4. CASE Take
  <2>1. PICK i \in Foremost : entries' = Append(entries, i) /\ candidates' = candidates \ {i}
    BY <1>4 DEF Take
  <2>2. i \in Id /\ i \in candidates
    BY <2>1 DEF Foremost, PTypeOK
  <2>3. Entered' = Entered \cup {i} /\ excluded' = excluded
    BY <1>4, <2>1, <2>2, AppendEntry DEF Take
  <2> QED BY <1>v, <2>1, <2>2, <2>3 DEF VerdictInv
<1>5. CASE Drop
  <2>1. PICK i \in Foremost : Excluding(i, "budget") /\ candidates' = candidates \ {i}
    BY <1>5 DEF Drop
  <2>2. i \in Id /\ "budget" \in Reasons
    BY <2>1 DEF Foremost, PTypeOK, Reasons
  <2>3. /\ DOMAIN excluded' = DOMAIN excluded \cup {i} /\ excluded'[i] = "budget"
        /\ \A j \in DOMAIN excluded : j # i => excluded'[j] = excluded[j]
    BY <2>1, <2>2, ExcludingType
  <2>4. Entered' = Entered
    BY <1>5 DEF Drop, Entered
  <2> QED BY <1>v, <2>1, <2>3, <2>4 DEF VerdictInv
<1> QED BY <1>1, <1>2, <1>3, <1>4, <1>5 DEF PNext

\* The two tests of inclusion, when the goal is blank.
LEMMA RulesAgree ==
    ASSUME PTypeOK, ~goalWords, NEW i \in Id
    PROVE  Verdict(records[i]) = "none" <=>
               /\ records[i].status \in {"active", "deprecated"}
               /\ records[i].confidence >= 6
               /\ records[i].kind \notin InfraKinds
<1>1. records[i].status \in Statuses /\ records[i].confidence \in 0..10
  BY RecordType DEF Record
<1> QED BY <1>1 DEF Verdict, BadStatus, TooWeak, Infra, Irrelevant, _EXCLUDED_STATUSES,
                   _MIN_CONFIDENCE, Statuses

\* compile (context_pack.py) and what_is_known (query.py): with no goal and
\* enough budget the pack is what is known, with the deprecated records.
THEOREM PackIsAlwaysKnownOrDeprecated == PSpec => []PackIsKnownOrDeprecated
<1>1. PTypeOK /\ SortedInv /\ VerdictInv => PackIsKnownOrDeprecated
  <2> SUFFICES ASSUME PTypeOK, SortedInv, VerdictInv, pc = "done", ~goalWords, Dropped = {}
               PROVE  Entered = WhatIsKnown \cup
                          {i \in Id : /\ records[i].status = "deprecated"
                                      /\ records[i].confidence >= 6
                                      /\ records[i].kind \notin InfraKinds}
    BY DEF PackIsKnownOrDeprecated
  <2>1. Entered \cup DOMAIN excluded = Id /\ Entered \cap DOMAIN excluded = {}
    BY DEF SortedInv, EachRecordOnce, ScanEnds, Id
  <2>2. Entered = {i \in Id : Verdict(records[i]) = "none"}
    BY <2>1 DEF VerdictInv, Dropped
  <2> QED BY <2>2, RulesAgree DEF WhatIsKnown
<1>2. PInit => VerdictInv
  <2> SUFFICES ASSUME PInit PROVE VerdictInv
    OBVIOUS
  <2>1. Entered = {} /\ DOMAIN excluded = {} /\ candidates = {}
    BY DEF PInit, Entered
  <2> QED BY <2>1 DEF VerdictInv
<1> QED BY <1>1, <1>2, VerdictStep, SortedInit, SortedStep, PackTypeCorrect, PTL DEF PSpec

-----------------------------------------------------------------------------
(* The sum of token counts.                                                *)

Costs == [i \in Id |-> Tokens(i)]

LEMMA CostsType == PTypeOK => \A i \in Id : Costs[i] = Tokens(i) /\ Costs[i] \in Nat
BY RecordType DEF Costs

LEMMA IdsAreFinite == IsFiniteSet(Id) /\ \A S \in SUBSET Id : IsFiniteSet(S)
<1>1. N \in Int /\ 1 \in Int
  BY PackAssumption
<1>2. IsFiniteSet(1..N)
  BY <1>1, FS_Interval
<1> QED BY <1>2, FS_Subset DEF Id

\* The recursion that MapThenSumSet unfolds into is one of those that sum.
LEMMA TokenCountIsSum ==
    ASSUME NEW S, S \subseteq Id
    PROVE  TokenCount(S) = SumOver(Costs, S)
<1> DEFINE Round(it) == [T \in SUBSET S |->
               IF T = {} THEN 0
               ELSE Tokens(CHOOSE x \in T : TRUE) + it[T \ {CHOOSE x \in T : TRUE}]]
           sum == CHOOSE it : it = Round(it)
<1>0. IsFiniteSet(S)
  BY IdsAreFinite
<1>1. TokenCount(S) = sum[S]
  BY DEF TokenCount, MapThenSumSet, MapThenFoldSet
<1>2. ASSUME NEW it PROVE Round(it) = [T \in SUBSET S |-> SumStep(it, Costs, T)]
  <2>1. ASSUME NEW T \in SUBSET S, T # {} PROVE Costs[First(T)] = Tokens(First(T))
    BY <2>1, FirstIn DEF Costs
  <2> QED BY <2>1 DEF SumStep, First
<1> HIDE DEF Round
<1>3. (\E it : IsSum(it, Costs, S)) => IsSum(sum, Costs, S)
  BY <1>2 DEF IsSum
<1> HIDE DEF sum
<1> QED BY <1>0, <1>1, <1>3, SumOfChosen

\* What a new entry adds.
LEMMA TokenCountInsert ==
    ASSUME PTypeOK, NEW S, S \subseteq Id, NEW i \in Id, i \notin S
    PROVE  TokenCount(S \cup {i}) = TokenCount(S) + Tokens(i)
<1>1. IsFiniteSet(S)
  BY IdsAreFinite
<1>2. \A y \in S \cup {i} : Costs[y] \in Nat
  BY CostsType
<1>3. SumOver(Costs, S \cup {i}) = SumOver(Costs, S) + Costs[i]
  BY <1>1, <1>2, SumOverInsert
<1>4. TokenCount(S \cup {i}) = SumOver(Costs, S \cup {i}) /\ TokenCount(S) = SumOver(Costs, S)
  BY TokenCountIsSum
<1> QED BY <1>3, <1>4, CostsType

LEMMA NoTokens == TokenCount({}) = 0
BY TokenCountIsSum, SumOverEmpty

LEMMA SameStoreSameTokens ==
    ASSUME records' = records
    PROVE  /\ \A S : TokenCount(S)' = TokenCount(S)
           /\ \A i : Tokens(i)' = Tokens(i)
           /\ \A i, j : Before(i, j)' = Before(i, j)
BY DEF TokenCount, MapThenSumSet, MapThenFoldSet, Tokens, Before

LEMMA NothingEntered ==
    ASSUME entries = <<>>
    PROVE  Entered = {} /\ TokenCount(Entered) = 0
<1>1. Entered = {}
  BY DEF Entered
<1> QED BY <1>1, NoTokens

\* The sum that the loop keeps is the one that token_count would compute.
SumInv == running = TokenCount(Entered)

LEMMA SumInvStep == PTypeOK /\ SortedInv /\ SumInv /\ [PNext]_pvars => SumInv'
<1> SUFFICES ASSUME PTypeOK, SortedInv, SumInv, [PNext]_pvars PROVE SumInv'
  OBVIOUS
<1>r. records' = records
  BY DEF PNext, Exclude, Admit, Scanned, Take, Drop, Compiled, pvars, input
<1>e. Entered \subseteq Id
  BY DEF Entered, PTypeOK
<1>1. CASE Take
  <2>1. PICK i \in Foremost : /\ entries' = Append(entries, i)
                              /\ running' = running + Tokens(i)
    BY <1>1 DEF Take
  <2>2. i \in Id /\ i \in candidates
    BY <2>1 DEF Foremost, PTypeOK
  <2>3. Entered' = Entered \cup {i} /\ i \notin Entered
    BY <2>1, <2>2, AppendEntry DEF SortedInv, EachRecordOnce
  <2>4. TokenCount(Entered \cup {i}) = TokenCount(Entered) + Tokens(i)
    BY <1>e, <2>2, <2>3, TokenCountInsert
  <2>5. TokenCount(Entered)' = TokenCount(Entered \cup {i})
    BY <1>r, <2>3, SameStoreSameTokens
  <2> QED BY <2>1, <2>4, <2>5 DEF SumInv
<1>2. CASE Exclude \/ Admit \/ Scanned \/ Drop \/ Compiled \/ UNCHANGED pvars
  <2>1. running' = running /\ Entered' = Entered
    BY <1>2 DEF Exclude, Admit, Scanned, Drop, Compiled, pvars, Entered
  <2>2. TokenCount(Entered)' = TokenCount(Entered)
    BY <1>r, <2>1, SameStoreSameTokens
  <2> QED BY <2>1, <2>2 DEF SumInv
<1> QED BY <1>1, <1>2 DEF PNext

\* compile and token_count agree on the size of the pack, the pack keeps within
\* the budget, and no record was dropped that would still fit.
THEOREM BudgetIsAlwaysUsed == PSpec => []BudgetIsUsed
<1>1. PInit => SumInv
  BY NothingEntered DEF PInit, SumInv
<1>2. SumInv /\ BudgetIsMet => BudgetIsUsed
  BY DEF SumInv, BudgetIsMet, BudgetIsUsed
<1> QED BY <1>1, <1>2, SumInvStep, SortedInit, SortedStep, BudgetAlwaysMet, PackTypeCorrect, PTL
        DEF PSpec

-----------------------------------------------------------------------------
(* Who outranks whom.                                                      *)

LEMMA BeforeIsAnOrder ==
    ASSUME PTypeOK, NEW i \in Id, NEW j \in Id
    PROVE  Before(i, j) /\ Before(j, i) => i = j
<1>1. records[i].confidence \in 0..10 /\ records[j].confidence \in 0..10 /\ i \in Int /\ j \in Int
  BY RecordType, PackAssumption DEF Record, Id
<1> QED BY <1>1 DEF Before

\* The second pass meets the candidates in the order of the sort: whoever it
\* has taken or dropped comes before every candidate that is left.
RankedInv ==
    /\ pc = "scan" => entries = <<>> /\ Dropped = {}
    /\ \A i \in Entered \cup Dropped : \A c \in candidates : Before(i, c)

LEMMA RankedStep ==
    PTypeOK /\ SortedInv /\ RankedInv /\ [PNext]_pvars => RankedInv'
<1> SUFFICES ASSUME PTypeOK, SortedInv, RankedInv, [PNext]_pvars PROVE RankedInv'
  OBVIOUS
<1>r. records' = records
  BY DEF PNext, Exclude, Admit, Scanned, Take, Drop, Compiled, pvars, input
<1>b. \A i, j : Before(i, j)' = Before(i, j)
  BY <1>r, SameStoreSameTokens
<1>1. CASE Exclude
  <2>1. cursor + 1 \in Id /\ pc = "scan"
    BY <1>1, NextIsId DEF Exclude
  <2>2. Verdict(records[cursor + 1]) \in Reasons \ {"budget"}
    BY <1>1, VerdictIsReason DEF Exclude
  <2>3. Dropped' \subseteq Dropped
    BY <1>1, <2>1, <2>2, ExcludingType DEF Exclude, Dropped
  <2>4. entries' = <<>> /\ Dropped' = {} /\ Entered' = {}
    BY <1>1, <2>1, <2>3, NothingEntered DEF Exclude, RankedInv, Entered
  <2> QED BY <2>4 DEF RankedInv
<1>2. CASE Admit
  <2>1. entries' = <<>> /\ Dropped' = {}
    BY <1>2 DEF Admit, RankedInv, Dropped
  <2>2. Entered' = {}
    BY <2>1 DEF Entered
  <2> QED BY <2>1, <2>2 DEF RankedInv
<1>3. CASE Scanned \/ Compiled \/ UNCHANGED pvars
  <2>1. Entered' = Entered /\ Dropped' = Dropped /\ candidates' = candidates /\ entries' = entries
        /\ (pc' = "scan" => pc = "scan")
    BY <1>3 DEF Scanned, Compiled, pvars, Entered, Dropped
  <2> QED BY <1>b, <2>1 DEF RankedInv
<1>4. CASE Take
  <2>1. PICK i \in Foremost : entries' = Append(entries, i) /\ candidates' = candidates \ {i}
    BY <1>4 DEF Take
  <2>2. i \in Id /\ i \in candidates /\ \A c \in candidates : Before(i, c)
    BY <2>1 DEF Foremost, PTypeOK
  <2>3. Entered' = Entered \cup {i} /\ Dropped' = Dropped /\ pc' # "scan"
    BY <1>4, <2>1, <2>2, AppendEntry DEF Take, Dropped
  <2> QED BY <1>b, <2>1, <2>2, <2>3 DEF RankedInv
<1>5. CASE Drop
  <2>1. PICK i \in Foremost : Excluding(i, "budget") /\ candidates' = candidates \ {i}
    BY <1>5 DEF Drop
  <2>2. i \in Id /\ i \in candidates /\ "budget" \in Reasons
        /\ \A c \in candidates : Before(i, c)
    BY <2>1 DEF Foremost, PTypeOK, Reasons
  <2>3. Dropped' \subseteq Dropped \cup {i}
    BY <2>1, <2>2, ExcludingType DEF Dropped
  <2>4. Entered' = Entered /\ pc' # "scan"
    BY <1>5 DEF Drop, Entered
  <2> QED BY <1>b, <2>1, <2>2, <2>3, <2>4 DEF RankedInv
<1> QED BY <1>1, <1>2, <1>3, <1>4, <1>5 DEF PNext

\* Whatever was dropped does not fit beside the entries that outrank it.
DroppedDoNotFit ==
    \A d \in Dropped : TokenCount({i \in Entered : Before(i, d)}) + Tokens(d) > budget

LEMMA OutrankedStep ==
    PTypeOK /\ SortedInv /\ SumInv /\ RankedInv /\ DroppedDoNotFit /\ [PNext]_pvars
        => DroppedDoNotFit'
<1> SUFFICES ASSUME PTypeOK, SortedInv, SumInv, RankedInv, DroppedDoNotFit, [PNext]_pvars
             PROVE  DroppedDoNotFit'
  OBVIOUS
<1> DEFINE Above(d) == {i \in Entered : Before(i, d)}
<1>r. records' = records /\ budget' = budget
  BY DEF PNext, Exclude, Admit, Scanned, Take, Drop, Compiled, pvars, input
<1>b. /\ \A i, j : Before(i, j)' = Before(i, j)
      /\ \A i : Tokens(i)' = Tokens(i)
      /\ \A S : TokenCount(S)' = TokenCount(S)
  BY <1>r, SameStoreSameTokens
<1>d. Dropped \subseteq Id /\ Dropped \cap candidates = {}
  BY DEF Dropped, PTypeOK, SortedInv, EachRecordOnce
<1>s. ASSUME NEW d \in Dropped', Above(d)' = Above(d),
             TokenCount(Above(d)) + Tokens(d) > budget
      PROVE  (TokenCount({i \in Entered : Before(i, d)}) + Tokens(d) > budget)'
  BY <1>b, <1>r, <1>s
<1>1. CASE Exclude
  <2>1. cursor + 1 \in Id
    BY <1>1, NextIsId DEF Exclude
  <2>2. Verdict(records[cursor + 1]) \in Reasons \ {"budget"}
    BY <1>1, VerdictIsReason DEF Exclude
  <2>3. Dropped' \subseteq Dropped
    BY <1>1, <2>1, <2>2, ExcludingType DEF Exclude, Dropped
  <2>4. Entered' = Entered
    BY <1>1 DEF Exclude, Entered
  <2>5. ASSUME NEW d \in Dropped' PROVE Above(d)' = Above(d)
    BY <1>b, <2>4
  <2> QED BY <1>s, <2>3, <2>5 DEF DroppedDoNotFit
<1>2. CASE Admit \/ Scanned \/ Compiled \/ UNCHANGED pvars
  <2>1. Entered' = Entered /\ Dropped' = Dropped
    BY <1>2 DEF Admit, Scanned, Compiled, pvars, Entered, Dropped
  <2>2. ASSUME NEW d \in Dropped' PROVE Above(d)' = Above(d)
    BY <1>b, <2>1
  <2> QED BY <1>s, <2>1, <2>2 DEF DroppedDoNotFit
<1>3. CASE Take
  <2>1. PICK i \in Foremost : entries' = Append(entries, i)
    BY <1>3 DEF Take
  <2>2. i \in Id /\ i \in candidates
    BY <2>1 DEF Foremost, PTypeOK
  <2>3. Entered' = Entered \cup {i} /\ Dropped' = Dropped
    BY <1>3, <2>1, <2>2, AppendEntry DEF Take, Dropped
  <2>4. ASSUME NEW d \in Dropped' PROVE Above(d)' = Above(d)
    <3>1. d \in Id /\ d # i /\ Before(d, i)
      BY <1>d, <2>2, <2>3 DEF RankedInv
    <3>2. ~Before(i, d)
      BY <2>2, <3>1, BeforeIsAnOrder
    <3> QED BY <1>b, <2>3, <3>2
  <2> QED BY <1>s, <2>3, <2>4 DEF DroppedDoNotFit
<1>4. CASE Drop
  <2>1. PICK i \in Foremost : ~Fits(i) /\ Excluding(i, "budget")
    BY <1>4 DEF Drop
  <2>2. i \in Id /\ i \in candidates /\ "budget" \in Reasons
    BY <2>1 DEF Foremost, PTypeOK, Reasons
  <2>3. Dropped' \subseteq Dropped \cup {i}
    BY <2>1, <2>2, ExcludingType DEF Dropped
  <2>4. Entered' = Entered
    BY <1>4 DEF Drop, Entered
  <2>5. ASSUME NEW d \in Dropped' PROVE Above(d)' = Above(d)
    BY <1>b, <2>4
  <2>6. TokenCount(Above(i)) + Tokens(i) > budget
    <3>1. Above(i) = Entered
      BY <2>2 DEF RankedInv
    <3>2. ~(running + Tokens(i) <= budget)
      BY <2>1 DEF Fits
    <3>3. running \in Nat /\ Tokens(i) \in Nat /\ budget \in Nat
      BY <2>2, RecordType, PackAssumption DEF PTypeOK
    <3> QED BY <3>1, <3>2, <3>3 DEF SumInv
  <2> QED BY <1>s, <2>3, <2>5, <2>6 DEF DroppedDoNotFit
<1> QED BY <1>1, <1>2, <1>3, <1>4 DEF PNext

LEMMA OutrankedAlways == PSpec => []DroppedDoNotFit
<1>1. PInit => SumInv /\ RankedInv /\ DroppedDoNotFit
  <2> SUFFICES ASSUME PInit PROVE SumInv /\ RankedInv /\ DroppedDoNotFit
    OBVIOUS
  <2>1. entries = <<>> /\ running = 0 /\ candidates = {} /\ Dropped = {}
    BY DEF PInit, Dropped
  <2> QED BY <2>1, NothingEntered DEF SumInv, RankedInv, DroppedDoNotFit
<1> QED BY <1>1, SumInvStep, RankedStep, OutrankedStep, SortedInit, SortedStep, PackTypeCorrect,
           PTL DEF PSpec

-----------------------------------------------------------------------------
(* The pack as a set.  With the order of the sort, the rule of the second  *)
(* pass determines which records are taken, and compile finds them.        *)

LEMMA BeforeIsTotal ==
    ASSUME PTypeOK, NEW i \in Id, NEW j \in Id, NEW k \in Id
    PROVE  /\ Before(i, i)
           /\ Before(i, j) \/ Before(j, i)
           /\ Before(i, j) /\ Before(j, k) => Before(i, k)
<1>1. \A x \in {i, j, k} : records[x].confidence \in 0..10 /\ x \in Int
  BY RecordType, PackAssumption DEF Record, Id
<1> QED BY <1>1 DEF Before

\* Of any records, one comes before all others.
LEMMA OneIsForemost ==
    ASSUME PTypeOK, NEW S, S \subseteq Id, S # {}
    PROVE  \E i \in S : \A j \in S : Before(i, j)
<1> DEFINE Headless(T) == T # {} /\ ~\E i \in T : \A j \in T : Before(i, j)
           C == {T \in SUBSET S : Headless(T)}
<1>1. C = {}
  <2> SUFFICES ASSUME C # {} PROVE FALSE
    OBVIOUS
  <2>0. C \subseteq SUBSET S /\ IsFiniteSet(S)
    BY IdsAreFinite
  <2>1. PICK T \in C : \A U \in C : U \subseteq T => U = T
    <3> HIDE DEF C
    <3> QED BY <2>0, LeastSubset
  <2>2. PICK x \in T : TRUE
    BY <2>1
  <2> DEFINE U == T \ {x}
  <2>3. U \in SUBSET S /\ ~Headless(U) /\ T \subseteq Id /\ T = U \cup {x}
    <3>1. U \subseteq T /\ x \notin U /\ T \in SUBSET S /\ T = U \cup {x}
      BY <2>0, <2>1, <2>2
    <3>2. U \notin C
      <4> HIDE DEF C, U
      <4> QED BY <2>1, <2>2, <3>1
    <3> HIDE DEF Headless, U
    <3> QED BY <3>1, <3>2
  <2>4. CASE U = {}
    <3>1. \A j \in T : j = x
      BY <2>3, <2>4
    <3> QED BY <2>1, <2>2, <2>3, <3>1, BeforeIsTotal
  <2>5. CASE U # {}
    <3>1. PICK y \in U : \A j \in U : Before(y, j)
      BY <2>3, <2>5
    <3>2. x \in Id /\ y \in Id /\ \A j \in U : j \in Id
      BY <2>3, <3>1
    <3>3. CASE Before(y, x)
      <4>1. \A j \in T : Before(y, j)
        BY <2>3, <3>1, <3>3
      <4> QED BY <2>1, <2>3, <3>1, <4>1
    <3>4. CASE Before(x, y)
      <4>1. \A j \in T : Before(x, j)
        BY <2>3, <3>1, <3>2, <3>4, BeforeIsTotal
      <4> QED BY <2>1, <2>2, <4>1
    <3> QED BY <3>2, <3>3, <3>4, BeforeIsTotal
  <2> QED BY <2>4, <2>5
<1> QED BY <1>1

\* No two sets are greedy.
LEMMA GreedyIsUnique ==
    ASSUME PTypeOK, NEW S, S \subseteq Id, Greedy(S), NEW T, T \subseteq Id, Greedy(T)
    PROVE  S = T
<1> DEFINE D == (S \ T) \cup (T \ S)
           Above(R, i) == {j \in R : Before(j, i) /\ j # i}
<1> SUFFICES ASSUME D # {} PROVE FALSE
  OBVIOUS
<1>1. D \subseteq Id
  OBVIOUS
<1>2. PICK i \in D : \A j \in D : Before(i, j)
  <2> HIDE DEF D
  <2> QED BY <1>1, OneIsForemost
<1>3. \A j \in Id : Before(j, i) /\ j # i => j \notin D
  BY <1>1, <1>2, BeforeIsAnOrder
<1>4. Above(S, i) = Above(T, i)
  BY <1>3
<1>5. i \in Id /\ (i \in S <=> i \notin T)
  BY <1>1, <1>2
<1>6. /\ i \in S <=> /\ Verdict(records[i]) = "none"
                     /\ TokenCount(Above(S, i)) + Tokens(i) <= budget
      /\ i \in T <=> /\ Verdict(records[i]) = "none"
                     /\ TokenCount(Above(T, i)) + Tokens(i) <= budget
  BY <1>5 DEF Greedy
<1> QED BY <1>4, <1>5, <1>6

\* compile (context_pack.py) has one answer, whatever the store holds: the one
\* set in which a record is listed exactly when no rule excludes it and it
\* fits in what the more trusted ones in the set leave of the budget.
THEOREM CompileIsGreedy == PSpec => []PackIsGreedy
<1>1. PTypeOK /\ SortedInv /\ VerdictInv /\ BudgetIsUsed /\ DroppedDoNotFit
        => PackIsGreedy
  <2> SUFFICES ASSUME PTypeOK, SortedInv, VerdictInv, BudgetIsUsed, DroppedDoNotFit,
                      pc = "done"
               PROVE  /\ Greedy(Entered)
                      /\ \A T \in SUBSET Id : Greedy(T) => T = Entered
    BY DEF PackIsGreedy
  <2> DEFINE Above(i) == {j \in Entered : Before(j, i) /\ j # i}
  <2>0. Entered \subseteq Id /\ DOMAIN excluded \subseteq Id
    BY DEF Entered, PTypeOK
  <2>1. Entered \cup DOMAIN excluded = Id /\ Entered \cap DOMAIN excluded = {}
    BY DEF SortedInv, EachRecordOnce, ScanEnds, Id
  <2>2. ASSUME NEW i \in Entered
        PROVE  Verdict(records[i]) = "none" /\ TokenCount(Above(i)) + Tokens(i) <= budget
    <3> DEFINE A == Above(i)
               B == A \cup {i}
    <3>1. A \subseteq Id /\ i \in Id /\ i \notin A /\ B \subseteq Entered
      BY <2>0
    <3> HIDE DEF A
    <3>2. TokenCount(B) = TokenCount(A) + Tokens(i)
      BY <3>1, TokenCountInsert
    <3> HIDE DEF B
    <3>3. TokenCount(B) <= TokenCount(Entered)
      <4>1. IsFiniteSet(Entered) /\ \A x \in Entered : Costs[x] \in Nat
        BY <2>0, IdsAreFinite, CostsType
      <4>2. SumOver(Costs, B) <= SumOver(Costs, Entered)
        BY <3>1, <4>1, SumOverSubset
      <4>3. B \subseteq Id
        BY <2>0, <3>1
      <4> QED BY <2>0, <4>2, <4>3, TokenCountIsSum
    <3>4. TokenCount(A) \in Nat /\ Tokens(i) \in Nat /\ TokenCount(Entered) \in Nat /\ budget \in Nat
      <4>1. ASSUME NEW R, R \subseteq Id PROVE TokenCount(R) \in Nat
        <5>1. IsFiniteSet(R) /\ \A x \in R : Costs[x] \in Nat
          BY <4>1, IdsAreFinite, CostsType
        <5>2. SumOver(Costs, R) \in Nat
          BY <5>1, SumOverType
        <5> QED BY <4>1, <5>2, TokenCountIsSum
      <4> QED BY <2>0, <3>1, <4>1, RecordType, PackAssumption DEF PTypeOK
    <3>5. TokenCount(Entered) <= budget
      BY DEF BudgetIsUsed
    <3>6. TokenCount(A) + Tokens(i) <= budget
      BY <3>2, <3>3, <3>4, <3>5
    <3> QED BY <3>6 DEF A, VerdictInv
  <2>3. ASSUME NEW i \in Id \ Entered, Verdict(records[i]) = "none"
        PROVE  ~(TokenCount(Above(i)) + Tokens(i) <= budget)
    <3>1. i \in Dropped
      BY <2>1, <2>3 DEF VerdictInv, Dropped
    <3>2. Above(i) = {j \in Entered : Before(j, i)}
      OBVIOUS
    <3>3. TokenCount(Above(i)) + Tokens(i) > budget
      BY <3>1, <3>2 DEF DroppedDoNotFit
    <3>4. TokenCount(Above(i)) \in Nat /\ Tokens(i) \in Nat /\ budget \in Nat
      <4>1. Above(i) \subseteq Id
        BY <2>0
      <4> DEFINE A == Above(i)
      <4> HIDE DEF A
      <4>2. A \subseteq Id
        BY <4>1 DEF A
      <4>3. IsFiniteSet(A) /\ \A x \in A : Costs[x] \in Nat
        BY <4>2, IdsAreFinite, CostsType
      <4>4. TokenCount(A) \in Nat
        BY <4>2, <4>3, SumOverType, TokenCountIsSum
      <4> QED BY <4>4, RecordType, PackAssumption DEF PTypeOK, A
    <3> QED BY <3>3, <3>4
  <2>4. Greedy(Entered)
    BY <2>2, <2>3 DEF Greedy
  <2> QED BY <2>0, <2>4, GreedyIsUnique
<1>2. PInit => VerdictInv
  <2> SUFFICES ASSUME PInit PROVE VerdictInv
    OBVIOUS
  <2>1. Entered = {} /\ DOMAIN excluded = {} /\ candidates = {}
    BY DEF PInit, Entered
  <2> QED BY <2>1 DEF VerdictInv
<1> QED BY <1>1, <1>2, VerdictStep, SortedInit, SortedStep, BudgetIsAlwaysUsed,
           OutrankedAlways, PackTypeCorrect, PTL DEF PSpec

-----------------------------------------------------------------------------
(* The end of compile.                                                     *)

\* What is left to do: two steps for each record that is not scanned, one for
\* each candidate, and one for each loop to end.
PackRank ==
    IF pc = "scan" THEN 2 * (N - cursor) + Cardinality(candidates) + 2
    ELSE IF pc = "fill" THEN Cardinality(candidates) + 1
    ELSE 0

LEMMA CandidatesCount ==
    ASSUME PTypeOK
    PROVE  /\ IsFiniteSet(candidates) /\ Cardinality(candidates) \in Nat
           /\ \A i \in candidates : Cardinality(candidates \ {i}) = Cardinality(candidates) - 1
           /\ \A i : i \notin candidates =>
                 Cardinality(candidates \cup {i}) = Cardinality(candidates) + 1
<1>1. IsFiniteSet(candidates)
  BY IdsAreFinite DEF PTypeOK
<1> QED BY <1>1, FS_CardinalityType, FS_RemoveElement, FS_AddElement

\* The rank counts down to the end, and the second pass has one way to go on.
PackGoesOn ==
    /\ PackRank \in Nat
    /\ PackRank = 0 <=> pc = "done"
    /\ pc = "fill" /\ candidates # {} => \E i \in candidates : Foremost = {i}

\* The rank is a number, zero exactly when compile (context_pack.py) is done;
\* while candidates are left there is exactly one to go on with, ties of
\* trust and of tokens included: the stable sort leaves the loop no choice.
THEOREM PackAlwaysGoesOn == PSpec => []PackGoesOn
<1>1. PTypeOK => PackGoesOn
  <2> SUFFICES ASSUME PTypeOK PROVE PackGoesOn
    OBVIOUS
  <2>1. Cardinality(candidates) \in Nat /\ cursor \in 0..N /\ N \in Nat
        /\ pc \in {"scan", "fill", "done"}
    BY CandidatesCount, PackAssumption DEF PTypeOK
  <2>2. PackRank \in Nat /\ (PackRank = 0 <=> pc = "done")
    BY <2>1 DEF PackRank
  <2>3. ASSUME candidates # {} PROVE \E i \in candidates : Foremost = {i}
    <3>1. candidates \subseteq Id
      BY DEF PTypeOK
    <3>2. PICK i \in candidates : \A j \in candidates : Before(i, j)
      BY <2>3, <3>1, OneIsForemost
    <3>3. \A k \in Foremost : k = i
      BY <3>1, <3>2, BeforeIsAnOrder DEF Foremost
    <3> QED BY <3>2, <3>3 DEF Foremost
  <2> QED BY <2>2, <2>3 DEF PackGoesOn
<1> QED BY <1>1, PackTypeCorrect, PTL

PackRankFalls == [][PackRank' < PackRank]_pvars

\* Every step of compile (context_pack.py) brings its end nearer, whatever the
\* store holds: no record is scanned, taken or dropped a second time.
THEOREM CompileEnds == PSpec => PackRankFalls
<1>1. PTypeOK /\ SortedInv /\ [PNext]_pvars => [PackRank' < PackRank]_pvars
  <2> SUFFICES ASSUME PTypeOK, SortedInv, PNext PROVE PackRank' < PackRank
    OBVIOUS
  <2>0. Cardinality(candidates) \in Nat /\ cursor \in 0..N /\ N \in Nat
    BY CandidatesCount, PackAssumption DEF PTypeOK
  <2>1. CASE Exclude
    <3>1. /\ pc = "scan" /\ pc' = "scan" /\ cursor' = cursor + 1 /\ cursor < N
          /\ candidates' = candidates
      BY <2>1 DEF Exclude
    <3> QED BY <2>0, <3>1 DEF PackRank
  <2>2. CASE Admit
    <3>1. /\ pc = "scan" /\ pc' = "scan" /\ cursor' = cursor + 1 /\ cursor < N
          /\ candidates' = candidates \cup {cursor + 1}
      BY <2>2 DEF Admit
    <3>2. cursor + 1 \notin candidates
      BY <2>0 DEF SortedInv, EachRecordOnce
    <3>3. Cardinality(candidates') = Cardinality(candidates) + 1
      BY <3>1, <3>2, CandidatesCount
    <3> QED BY <2>0, <3>1, <3>3 DEF PackRank
  <2>3. CASE Scanned
    <3>1. pc = "scan" /\ pc' = "fill" /\ cursor = N /\ candidates' = candidates
      BY <2>3 DEF Scanned
    <3> QED BY <2>0, <3>1 DEF PackRank
  <2>4. CASE Take \/ Drop
    <3>1. PICK i \in candidates : candidates' = candidates \ {i}
      BY <2>4 DEF Take, Drop, Foremost
    <3>2. pc = "fill" /\ pc' = "fill"
      BY <2>4 DEF Take, Drop
    <3>3. Cardinality(candidates') = Cardinality(candidates) - 1
      BY <3>1, CandidatesCount
    <3> QED BY <2>0, <3>2, <3>3 DEF PackRank
  <2>5. CASE Compiled
    <3>1. pc = "fill" /\ pc' = "done" /\ Cardinality(candidates) = 0
      BY <2>5, FS_EmptySet DEF Compiled
    <3> QED BY <3>1 DEF PackRank
  <2> QED BY <2>1, <2>2, <2>3, <2>4, <2>5 DEF PNext
<1> QED BY <1>1, SortedInit, SortedStep, PackTypeCorrect, PTL DEF PSpec, PackRankFalls
====
