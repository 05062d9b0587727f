---- MODULE MetricsProofs ----
(***************************************************************************)
(* Proofs about Metrics, for any number of tasks, skills and recordings    *)
(* and whatever the clock does.                                            *)
(***************************************************************************)
EXTENDS Metrics, FiniteLemmas

Kinds == {"token_metric", "skill_run"}

TokenMetric == [kind : {"token_metric"}, of : Names, success : BOOLEAN, total : Nat,
                tools : Nat, blocked : Nat, confidence : {10}]

SkillRun == {r \in [kind : {"skill_run"}, of : Names, success : BOOLEAN, total : Nat,
                    confidence : {5, 10}] : r.confidence = IF r.success THEN 10 ELSE 5}

\* A token metric says what was measured.
Says(record, m) ==
    record.kind = "token_metric" =>
        /\ record.total = m.context + m.input + m.output
        /\ record.tools = m.tools /\ record.blocked = m.blocked
        /\ record.success = m.success

Recording == {h \in [kind : Kinds, name : Names, ms : Nat, record : TokenMetric \cup SkillRun,
                     given : Measurements] :
                 h.record.kind = h.kind /\ h.record.of = h.name /\ Says(h.record, h.given)}

\* The id that a recording is stored under.
IdOf(h) == [kind |-> h.kind, name |-> h.name, ms |-> h.ms]

\* Every recording left a record under its id, and every record is what one
\* of the recordings under its id left.
KeptInv ==
    /\ clock \in Nat
    /\ history \in Seq(Recording)
    /\ \A i \in DOMAIN history : IdOf(history[i]) \in DOMAIN store
    /\ \A id \in DOMAIN store :
          \E i \in DOMAIN history : IdOf(history[i]) = id /\ store[id] = history[i].record

LEMMA KeptInit == XInit => KeptInv
<1> SUFFICES ASSUME XInit PROVE KeptInv
  OBVIOUS
<1>1. history = <<>> /\ store = <<>> /\ clock \in Nat
  BY MetricsAssumption DEF XInit
<1> QED BY <1>1 DEF KeptInv

LEMMA UpsertKeeps ==
    ASSUME KeptInv, NEW name \in Names, NEW record \in TokenMetric \cup SkillRun,
           record.of = name, NEW m \in Measurements, Says(record, m),
           Upsert(Stamp(record.kind, name), record, m)
    PROVE  KeptInv'
<1> DEFINE id == Stamp(record.kind, name)
           h == [kind |-> record.kind, name |-> record.of, ms |-> clock, record |-> record,
                 given |-> m]
           n == Len(history)
<1>1. /\ history' = Append(history, h) /\ clock' = clock
      /\ store' = [i \in DOMAIN store \cup {id} |-> IF i = id THEN record ELSE store[i]]
  BY DEF Upsert
<1>2. clock \in Nat /\ history \in Seq(Recording)
  BY DEF KeptInv
<1>3. h \in Recording /\ IdOf(h) = id
  BY <1>2 DEF Recording, TokenMetric, SkillRun, Kinds, IdOf, Stamp
<1>4. h.record = record
  OBVIOUS
<1> HIDE DEF h, id
<1>5. /\ n \in Nat /\ DOMAIN history = 1..n /\ DOMAIN history' = 1..(n + 1)
      /\ history'[n + 1] = h /\ \A i \in 1..n : history'[i] = history[i]
  BY <1>1, <1>2, <1>3
<1>6. history' \in Seq(Recording)
  BY <1>1, <1>2, <1>3
<1>7. DOMAIN store' = DOMAIN store \cup {id} /\ store'[id] = record
      /\ \A i \in DOMAIN store : i # id => store'[i] = store[i]
  BY <1>1
<1> HIDE DEF n
<1>8. \A i \in DOMAIN history' : IdOf(history'[i]) \in DOMAIN store'
  <2> SUFFICES ASSUME NEW i \in DOMAIN history' PROVE IdOf(history'[i]) \in DOMAIN store'
    OBVIOUS
  <2>1. CASE i \in 1..n
    BY <1>5, <1>7, <2>1 DEF KeptInv
  <2>2. CASE i = n + 1
    BY <1>3, <1>5, <1>7, <2>2
  <2> QED BY <1>5, <2>1, <2>2
<1>9. ASSUME NEW k \in DOMAIN store'
      PROVE  \E i \in DOMAIN history' : IdOf(history'[i]) = k /\ store'[k] = history'[i].record
  <2>1. CASE k = id
    BY <1>3, <1>4, <1>5, <1>7, <2>1
  <2>2. CASE k # id
    <3>1. PICK i \in DOMAIN history : IdOf(history[i]) = k /\ store[k] = history[i].record
      BY <1>7, <2>2 DEF KeptInv
    <3> QED BY <1>5, <1>7, <2>2, <3>1
  <2> QED BY <2>1, <2>2
<1> QED BY <1>1, <1>2, <1>6, <1>8, <1>9 DEF KeptInv

LEMMA KeptStep == KeptInv /\ [XNext]_xvars => KeptInv'
<1> SUFFICES ASSUME KeptInv, [XNext]_xvars PROVE KeptInv'
  OBVIOUS
<1>1. ASSUME NEW name \in Names, NEW m \in Measurements, RecordTokenMetric(name, m)
      PROVE  KeptInv'
  <2> DEFINE record == [kind |-> "token_metric", of |-> name, success |-> m.success,
                        total |-> m.context + m.input + m.output, tools |-> m.tools,
                        blocked |-> m.blocked, confidence |-> 10]
  <2>1. record \in TokenMetric /\ record.of = name /\ record.kind = "token_metric"
    BY MetricsAssumption DEF Measurement, TokenMetric
  <2>2. Upsert(Stamp("token_metric", name), record, m)
    BY <1>1 DEF RecordTokenMetric
  <2>3. Says(record, m)
    BY DEF Says
  <2> HIDE DEF record
  <2> QED BY <2>1, <2>2, <2>3, UpsertKeeps
<1>2. ASSUME NEW name \in Names, NEW m \in Measurements, RecordSkillRun(name, m)
      PROVE  KeptInv'
  <2> DEFINE record == [kind |-> "skill_run", of |-> name, success |-> m.success,
                        total |-> m.output, confidence |-> IF m.success THEN 10 ELSE 5]
  <2>1. record \in SkillRun /\ record.of = name /\ record.kind = "skill_run"
    BY MetricsAssumption DEF Measurement, SkillRun
  <2>2. Upsert(Stamp("skill_run", name), record, m)
    BY <1>2 DEF RecordSkillRun
  <2>3. Says(record, m)
    BY DEF Says
  <2> HIDE DEF record
  <2> QED BY <2>1, <2>2, <2>3, UpsertKeeps
<1>3. CASE ClockChanges \/ UNCHANGED xvars
  BY <1>3, MetricsAssumption DEF KeptInv, ClockChanges, xvars
<1> QED BY <1>1, <1>2, <1>3 DEF XNext

-----------------------------------------------------------------------------
(* Recordings and records correspond one to one.                           *)

LEMMA HistoryIsFinite == KeptInv => \A S \in SUBSET DOMAIN history : IsFiniteSet(S)
<1> SUFFICES ASSUME KeptInv PROVE \A S \in SUBSET DOMAIN history : IsFiniteSet(S)
  OBVIOUS
<1>1. Len(history) \in Nat /\ DOMAIN history = 1..Len(history)
  BY DEF KeptInv
<1>2. IsFiniteSet(1..Len(history))
  BY <1>1, FS_Interval
<1> QED BY <1>1, <1>2, FS_Subset

LEMMA OneToOne ==
    ASSUME KeptInv, NEW S, S \subseteq DOMAIN history, NEW T, T \subseteq DOMAIN store,
           \A i, j \in S : IdOf(history[i]) = IdOf(history[j]) => i = j,
           \A i \in S : IdOf(history[i]) \in T,
           \A id \in T : \E i \in S : IdOf(history[i]) = id
    PROVE  Cardinality(T) = Cardinality(S)
<1> DEFINE f == [i \in S |-> IdOf(history[i])]
<1>1. f \in Bijection(S, T)
  BY DEF Bijection, Injection, Surjection, IsInjective
<1> QED BY <1>1, HistoryIsFinite, FS_Bijection DEF ExistsBijection

\* Recordings of one kind that fell in different milliseconds have ids of
\* their own, under which their records are: those of one task or skill, or
\* those of many.
RecordedOf(kind, Of) ==
    {i \in DOMAIN history : history[i].kind = kind /\ history[i].name \in Of}

LEMMA OwnRecord ==
    ASSUME KeptInv, NEW kind, NEW Of, Distinct(RecordedOf(kind, Of))
    PROVE  LET S == RecordedOf(kind, Of) IN
           /\ \A i, j \in S : IdOf(history[i]) = IdOf(history[j]) => i = j
           /\ \A i \in S : /\ IdOf(history[i]) \in DOMAIN store
                           /\ store[IdOf(history[i])] = history[i].record
           /\ \A id \in DOMAIN store : store[id].kind = kind /\ store[id].of \in Of =>
                 \E i \in S : IdOf(history[i]) = id
<1> DEFINE S == RecordedOf(kind, Of)
<1>0. S = {i \in DOMAIN history : history[i].kind = kind /\ history[i].name \in Of}
  BY DEF RecordedOf
<1>1. \A i \in DOMAIN history : /\ history[i] \in Recording
                                /\ history[i].record.kind = history[i].kind
                                /\ history[i].record.of = history[i].name
  BY DEF KeptInv, Recording
<1>2. ASSUME NEW i \in S, NEW j \in S, IdOf(history[i]) = IdOf(history[j]) PROVE i = j
  <2>1. history[i].ms = history[j].ms /\ history[i].name = history[j].name
    BY <1>2 DEF IdOf
  <2> QED BY <2>1 DEF Distinct
<1> HIDE DEF S
<1>3. ASSUME NEW id \in DOMAIN store
      PROVE  \E i \in DOMAIN history : IdOf(history[i]) = id /\ store[id] = history[i].record
  BY DEF KeptInv
<1>4. ASSUME NEW i \in S
      PROVE  IdOf(history[i]) \in DOMAIN store /\ store[IdOf(history[i])] = history[i].record
  <2>1. i \in DOMAIN history /\ IdOf(history[i]) \in DOMAIN store
    BY <1>0 DEF KeptInv
  <2>2. PICK j \in DOMAIN history : /\ IdOf(history[j]) = IdOf(history[i])
                                    /\ store[IdOf(history[i])] = history[j].record
    BY <1>3, <2>1
  <2>3. history[j].kind = history[i].kind /\ history[j].name = history[i].name
    BY <2>2 DEF IdOf
  <2>4. j \in S
    BY <1>0, <2>1, <2>3
  <2> QED BY <1>2, <2>1, <2>2, <2>4
<1>5. ASSUME NEW id \in DOMAIN store, store[id].kind = kind, store[id].of \in Of
      PROVE  \E i \in S : IdOf(history[i]) = id
  BY <1>0, <1>1, <1>3, <1>5
<1> QED BY <1>2, <1>4, <1>5 DEF S

LEMMA OwnRecordOfOne ==
    ASSUME KeptInv, NEW kind, NEW name, Distinct(Recorded(kind, name))
    PROVE  LET S == Recorded(kind, name) IN
           /\ \A i, j \in S : IdOf(history[i]) = IdOf(history[j]) => i = j
           /\ \A i \in S : /\ IdOf(history[i]) \in DOMAIN store
                           /\ store[IdOf(history[i])] = history[i].record
           /\ \A id \in DOMAIN store : store[id].kind = kind /\ store[id].of = name =>
                 \E i \in S : IdOf(history[i]) = id
<1> DEFINE Of == {name}
           S == RecordedOf(kind, Of)
<1>1. S = Recorded(kind, name) /\ \A n : n \in Of <=> n = name
  BY DEF Recorded, RecordedOf
<1> HIDE DEF Of
<1>2. Distinct(RecordedOf(kind, Of))
  BY <1>1
<1>3. /\ \A i, j \in S : IdOf(history[i]) = IdOf(history[j]) => i = j
      /\ \A i \in S : /\ IdOf(history[i]) \in DOMAIN store
                      /\ store[IdOf(history[i])] = history[i].record
      /\ \A id \in DOMAIN store : store[id].kind = kind /\ store[id].of \in Of =>
            \E i \in S : IdOf(history[i]) = id
  BY <1>2, OwnRecord
<1> HIDE DEF S
<1> QED BY <1>1, <1>3

\* record_token_metric and record_skill_run: a task or a skill loses none of
\* its recordings but to a later one of its own in the same millisecond.
THEOREM RecordingsAlwaysKept == XSpec => []RecordingsAreKept
<1>1. KeptInv => RecordingsAreKept
  <2> SUFFICES ASSUME KeptInv, NEW name \in Names
               PROVE  LET metrics == Recorded("token_metric", name)
                          runs == Recorded("skill_run", name)
                      IN  /\ Distinct(metrics) =>
                               {store[i] : i \in GetTokenMetrics(name)}
                                 = {history[i].record : i \in metrics}
                          /\ Distinct(metrics) =>
                               Cardinality(GetTokenMetrics(name)) = Cardinality(metrics)
                          /\ Distinct(runs) =>
                               Cardinality(TrustedRuns(name)) =
                                 Cardinality({i \in runs : history[i].record.success})
    BY DEF RecordingsAreKept
  <2> DEFINE metrics == Recorded("token_metric", name)
             runs == Recorded("skill_run", name)
             good == {i \in runs : history[i].record.success}
  <2>1. ASSUME Distinct(metrics)
        PROVE  /\ {store[i] : i \in GetTokenMetrics(name)} = {history[i].record : i \in metrics}
               /\ Cardinality(GetTokenMetrics(name)) = Cardinality(metrics)
    <3>1. /\ \A i, j \in metrics : IdOf(history[i]) = IdOf(history[j]) => i = j
          /\ \A i \in metrics : /\ IdOf(history[i]) \in DOMAIN store
                                /\ store[IdOf(history[i])] = history[i].record
          /\ \A id \in GetTokenMetrics(name) : \E i \in metrics : IdOf(history[i]) = id
      BY <2>1, OwnRecordOfOne DEF GetTokenMetrics, OfKind
    <3>2. \A i \in metrics : IdOf(history[i]) \in GetTokenMetrics(name)
      <4> SUFFICES ASSUME NEW i \in metrics PROVE IdOf(history[i]) \in GetTokenMetrics(name)
        OBVIOUS
      <4>1. /\ history[i].record.kind = "token_metric" /\ history[i].record.of = name
        BY DEF KeptInv, Recorded, Recording
      <4> QED BY <3>1, <4>1 DEF GetTokenMetrics, OfKind
    <3>3. metrics \subseteq DOMAIN history /\ GetTokenMetrics(name) \subseteq DOMAIN store
      BY DEF Recorded, GetTokenMetrics, OfKind
    <3>4. Cardinality(GetTokenMetrics(name)) = Cardinality(metrics)
      BY <3>1, <3>2, <3>3, OneToOne
    <3> QED BY <3>1, <3>2, <3>4
  <2>2. ASSUME Distinct(runs)
        PROVE  Cardinality(TrustedRuns(name)) = Cardinality(good)
    <3>1. /\ \A i, j \in runs : IdOf(history[i]) = IdOf(history[j]) => i = j
          /\ \A i \in runs : /\ IdOf(history[i]) \in DOMAIN store
                             /\ store[IdOf(history[i])] = history[i].record
          /\ \A id \in DOMAIN store : store[id].kind = "skill_run" /\ store[id].of = name =>
                \E i \in runs : IdOf(history[i]) = id
      BY <2>2, OwnRecordOfOne
    <3>2. \A i \in runs : /\ history[i].record.kind = "skill_run"
                          /\ history[i].record.of = name
                          /\ history[i].record.confidence =
                                IF history[i].record.success THEN 10 ELSE 5
      BY DEF KeptInv, Recorded, Recording, TokenMetric, SkillRun
    <3>3. \A i \in runs : history[i].record.confidence >= 6 <=> history[i].record.success
      BY <3>2
    <3>4. \A i \in good : IdOf(history[i]) \in TrustedRuns(name)
      BY <3>1, <3>2, <3>3 DEF TrustedRuns, OfKind
    <3>5. \A id \in TrustedRuns(name) : \E i \in good : IdOf(history[i]) = id
      BY <3>1, <3>3 DEF TrustedRuns, OfKind
    <3>6. good \subseteq DOMAIN history /\ TrustedRuns(name) \subseteq DOMAIN store
      BY DEF Recorded, TrustedRuns, OfKind
    <3> HIDE DEF good
    <3>7. \A i, j \in good : IdOf(history[i]) = IdOf(history[j]) => i = j
      BY <3>1 DEF good
    <3> QED BY <3>4, <3>5, <3>6, <3>7, OneToOne
  <2> QED BY <2>1, <2>2
<1> QED BY <1>1, KeptInit, KeptStep, PTL DEF XSpec

-----------------------------------------------------------------------------
(* The sums of the report.                                                 *)

\* The terms, as functions of the recordings and of the records.
Consumed == [i \in DOMAIN history |-> history[i].given.context + history[i].given.input
                                          + history[i].given.output]
Tools    == [i \in DOMAIN history |-> history[i].given.tools]
Blocked  == [i \in DOMAIN history |-> history[i].given.blocked]

StoredTotal   == [id \in OfKind("token_metric") |-> store[id].total]
StoredTools   == [id \in OfKind("token_metric") |-> store[id].tools]
StoredBlocked == [id \in OfKind("token_metric") |-> store[id].blocked]

\* What MapThenSumSet unfolds into is the sum of these terms.
LEMMA StoredSums ==
    ASSUME NEW S, S \subseteq OfKind("token_metric"), IsFiniteSet(S)
    PROVE  /\ MapThenSumSet(LAMBDA i : store[i].total, S) = SumOver(StoredTotal, S)
           /\ MapThenSumSet(LAMBDA i : store[i].tools, S) = SumOver(StoredTools, S)
           /\ MapThenSumSet(LAMBDA i : store[i].blocked, S) = SumOver(StoredBlocked, S)
<1>1. MapThenSumSet(LAMBDA i : store[i].total, S) = SumOver(StoredTotal, S)
  <2> DEFINE Round(it) == [T \in SUBSET S |->
                 IF T = {} THEN 0
                 ELSE store[(CHOOSE x \in T : TRUE)].total
                          + it[T \ {CHOOSE x \in T : TRUE}]]
             sum == CHOOSE it : it = Round(it)
  <2>1. MapThenSumSet(LAMBDA i : store[i].total, S) = sum[S]
    BY DEF MapThenSumSet, MapThenFoldSet
  <2>2. ASSUME NEW it PROVE Round(it) = [T \in SUBSET S |-> SumStep(it, StoredTotal, T)]
    <3>1. \A T \in SUBSET S : T # {} => First(T) \in S
      BY FirstIn
    <3>2. \A i \in S : StoredTotal[i] = store[i].total
      BY DEF StoredTotal
    <3> QED BY <3>1, <3>2 DEF SumStep, First
  <2> HIDE DEF Round
  <2>3. (\E it : IsSum(it, StoredTotal, S)) => IsSum(sum, StoredTotal, S)
    BY <2>2 DEF IsSum
  <2> HIDE DEF sum
  <2> QED BY <2>1, <2>3, SumOfChosen
<1>2. MapThenSumSet(LAMBDA i : store[i].tools, S) = SumOver(StoredTools, S)
  <2> DEFINE Round(it) == [T \in SUBSET S |->
                 IF T = {} THEN 0
                 ELSE store[(CHOOSE x \in T : TRUE)].tools
                          + it[T \ {CHOOSE x \in T : TRUE}]]
             sum == CHOOSE it : it = Round(it)
  <2>1. MapThenSumSet(LAMBDA i : store[i].tools, S) = sum[S]
    BY DEF MapThenSumSet, MapThenFoldSet
  <2>2. ASSUME NEW it PROVE Round(it) = [T \in SUBSET S |-> SumStep(it, StoredTools, T)]
    <3>1. \A T \in SUBSET S : T # {} => First(T) \in S
      BY FirstIn
    <3>2. \A i \in S : StoredTools[i] = store[i].tools
      BY DEF StoredTools
    <3> QED BY <3>1, <3>2 DEF SumStep, First
  <2> HIDE DEF Round
  <2>3. (\E it : IsSum(it, StoredTools, S)) => IsSum(sum, StoredTools, S)
    BY <2>2 DEF IsSum
  <2> HIDE DEF sum
  <2> QED BY <2>1, <2>3, SumOfChosen
<1>3. MapThenSumSet(LAMBDA i : store[i].blocked, S) = SumOver(StoredBlocked, S)
  <2> DEFINE Round(it) == [T \in SUBSET S |->
                 IF T = {} THEN 0
                 ELSE store[(CHOOSE x \in T : TRUE)].blocked
                          + it[T \ {CHOOSE x \in T : TRUE}]]
             sum == CHOOSE it : it = Round(it)
  <2>1. MapThenSumSet(LAMBDA i : store[i].blocked, S) = sum[S]
    BY DEF MapThenSumSet, MapThenFoldSet
  <2>2. ASSUME NEW it PROVE Round(it) = [T \in SUBSET S |-> SumStep(it, StoredBlocked, T)]
    <3>1. \A T \in SUBSET S : T # {} => First(T) \in S
      BY FirstIn
    <3>2. \A i \in S : StoredBlocked[i] = store[i].blocked
      BY DEF StoredBlocked
    <3> QED BY <3>1, <3>2 DEF SumStep, First
  <2> HIDE DEF Round
  <2>3. (\E it : IsSum(it, StoredBlocked, S)) => IsSum(sum, StoredBlocked, S)
    BY <2>2 DEF IsSum
  <2> HIDE DEF sum
  <2> QED BY <2>1, <2>3, SumOfChosen
<1> QED BY <1>1, <1>2, <1>3

LEMMA GivenSums ==
    ASSUME NEW S, S \subseteq DOMAIN history, IsFiniteSet(S)
    PROVE  /\ MapThenSumSet(LAMBDA i : history[i].given.context + history[i].given.input + history[i].given.output, S) = SumOver(Consumed, S)
           /\ MapThenSumSet(LAMBDA i : history[i].given.tools, S) = SumOver(Tools, S)
           /\ MapThenSumSet(LAMBDA i : history[i].given.blocked, S) = SumOver(Blocked, S)
<1>1. MapThenSumSet(LAMBDA i : history[i].given.context + history[i].given.input + history[i].given.output, S) = SumOver(Consumed, S)
  <2> DEFINE Round(it) == [T \in SUBSET S |->
                 IF T = {} THEN 0
                 ELSE history[(CHOOSE x \in T : TRUE)].given.context + history[(CHOOSE x \in T : TRUE)].given.input + history[(CHOOSE x \in T : TRUE)].given.output
                          + it[T \ {CHOOSE x \in T : TRUE}]]
             sum == CHOOSE it : it = Round(it)
  <2>1. MapThenSumSet(LAMBDA i : history[i].given.context + history[i].given.input + history[i].given.output, S) = sum[S]
    BY DEF MapThenSumSet, MapThenFoldSet
  <2>2. ASSUME NEW it PROVE Round(it) = [T \in SUBSET S |-> SumStep(it, Consumed, T)]
    <3>1. \A T \in SUBSET S : T # {} => First(T) \in S
      BY FirstIn
    <3>2. \A i \in S : Consumed[i] = history[i].given.context + history[i].given.input + history[i].given.output
      BY DEF Consumed
    <3> QED BY <3>1, <3>2 DEF SumStep, First
  <2> HIDE DEF Round
  <2>3. (\E it : IsSum(it, Consumed, S)) => IsSum(sum, Consumed, S)
    BY <2>2 DEF IsSum
  <2> HIDE DEF sum
  <2> QED BY <2>1, <2>3, SumOfChosen
<1>2. MapThenSumSet(LAMBDA i : history[i].given.tools, S) = SumOver(Tools, S)
  <2> DEFINE Round(it) == [T \in SUBSET S |->
                 IF T = {} THEN 0
                 ELSE history[(CHOOSE x \in T : TRUE)].given.tools
                          + it[T \ {CHOOSE x \in T : TRUE}]]
             sum == CHOOSE it : it = Round(it)
  <2>1. MapThenSumSet(LAMBDA i : history[i].given.tools, S) = sum[S]
    BY DEF MapThenSumSet, MapThenFoldSet
  <2>2. ASSUME NEW it PROVE Round(it) = [T \in SUBSET S |-> SumStep(it, Tools, T)]
    <3>1. \A T \in SUBSET S : T # {} => First(T) \in S
      BY FirstIn
    <3>2. \A i \in S : Tools[i] = history[i].given.tools
      BY DEF Tools
    <3> QED BY <3>1, <3>2 DEF SumStep, First
  <2> HIDE DEF Round
  <2>3. (\E it : IsSum(it, Tools, S)) => IsSum(sum, Tools, S)
    BY <2>2 DEF IsSum
  <2> HIDE DEF sum
  <2> QED BY <2>1, <2>3, SumOfChosen
<1>3. MapThenSumSet(LAMBDA i : history[i].given.blocked, S) = SumOver(Blocked, S)
  <2> DEFINE Round(it) == [T \in SUBSET S |->
                 IF T = {} THEN 0
                 ELSE history[(CHOOSE x \in T : TRUE)].given.blocked
                          + it[T \ {CHOOSE x \in T : TRUE}]]
             sum == CHOOSE it : it = Round(it)
  <2>1. MapThenSumSet(LAMBDA i : history[i].given.blocked, S) = sum[S]
    BY DEF MapThenSumSet, MapThenFoldSet
  <2>2. ASSUME NEW it PROVE Round(it) = [T \in SUBSET S |-> SumStep(it, Blocked, T)]
    <3>1. \A T \in SUBSET S : T # {} => First(T) \in S
      BY FirstIn
    <3>2. \A i \in S : Blocked[i] = history[i].given.blocked
      BY DEF Blocked
    <3> QED BY <3>1, <3>2 DEF SumStep, First
  <2> HIDE DEF Round
  <2>3. (\E it : IsSum(it, Blocked, S)) => IsSum(sum, Blocked, S)
    BY <2>2 DEF IsSum
  <2> HIDE DEF sum
  <2> QED BY <2>1, <2>3, SumOfChosen
<1> QED BY <1>1, <1>2, <1>3


\* The recordings of all tasks, when no two met in one id: their records, and
\* the records of those that succeeded.
LEMMA AllMetrics ==
    ASSUME KeptInv, Distinct(RecordedOf("token_metric", Names))
    PROVE  LET all == RecordedOf("token_metric", Names)
               records == OfKind("token_metric")
           IN  /\ \A i, j \in all : IdOf(history[i]) = IdOf(history[j]) => i = j
               /\ records = {IdOf(history[i]) : i \in all}
               /\ \A i \in all : /\ IdOf(history[i]) \in records
                                 /\ store[IdOf(history[i])] = history[i].record
                                 /\ history[i].given \in Measurement
                                 /\ Says(history[i].record, history[i].given)
                                 /\ history[i].record.kind = "token_metric"
<1> DEFINE all == RecordedOf("token_metric", Names)
           records == OfKind("token_metric")
<1>0. \A i \in all : /\ i \in DOMAIN history
                     /\ history[i].record.kind = "token_metric"
                     /\ history[i].given \in Measurement
                     /\ Says(history[i].record, history[i].given)
  BY MetricsAssumption DEF KeptInv, Recording, RecordedOf
<1>1. /\ \A i, j \in all : IdOf(history[i]) = IdOf(history[j]) => i = j
      /\ \A i \in all : /\ IdOf(history[i]) \in DOMAIN store
                        /\ store[IdOf(history[i])] = history[i].record
      /\ \A id \in DOMAIN store : store[id].kind = "token_metric" /\ store[id].of \in Names =>
            \E i \in all : IdOf(history[i]) = id
  BY OwnRecord
<1>2. \A id \in records : /\ id \in DOMAIN store /\ store[id].kind = "token_metric"
                          /\ store[id].of \in Names
  BY DEF OfKind, KeptInv, Recording
<1>3. \A i \in all : IdOf(history[i]) \in records
  BY <1>0, <1>1 DEF OfKind
<1> HIDE DEF all, records
<1>4. records = {IdOf(history[i]) : i \in all}
  BY <1>1, <1>2, <1>3
<1> QED BY <1>0, <1>1, <1>3, <1>4 DEF all, records

\* token_efficiency_report: the means computed from the records are those of
\* what the tasks consumed.
THEOREM ReportAlwaysAddsUp == XSpec => []ReportAddsUp
<1>1. ASSUME KeptInv, Distinct(RecordedOf("token_metric", Names))
      PROVE  LET all == RecordedOf("token_metric", Names)
                 records == OfKind("token_metric")
                 good == {i \in all : history[i].given.success}
                 successes == {id \in records : store[id].success}
             IN  /\ SumOver(Consumed, good) = SumOver(StoredTotal, successes)
                 /\ SumOver(Tools, all) = SumOver(StoredTools, records)
                 /\ SumOver(Blocked, all) = SumOver(StoredBlocked, records)
                 /\ Cardinality(good) = Cardinality(successes)
                 /\ Cardinality(all) = Cardinality(records)
                 /\ IsFiniteSet(all) /\ IsFiniteSet(good)
                 /\ IsFiniteSet(records) /\ IsFiniteSet(successes)
  <2> DEFINE all == RecordedOf("token_metric", Names)
             records == OfKind("token_metric")
             good == {i \in all : history[i].given.success}
             successes == {id \in records : store[id].success}
             h == [i \in all |-> IdOf(history[i])]
  <2>1. /\ \A i, j \in all : h[i] = h[j] => i = j
        /\ records = {h[i] : i \in all}
        /\ \A i \in all : /\ h[i] = IdOf(history[i]) /\ h[i] \in records
                          /\ store[h[i]] = history[i].record
                          /\ history[i].given \in Measurement
                          /\ Says(history[i].record, history[i].given)
                          /\ history[i].record.kind = "token_metric"
    BY <1>1, AllMetrics
  <2>2. all \subseteq DOMAIN history /\ records \subseteq DOMAIN store /\ good \subseteq all
        /\ successes \subseteq records
    BY DEF RecordedOf, OfKind
  <2>3. \A i \in all : /\ Consumed[i] \in Nat /\ Tools[i] \in Nat /\ Blocked[i] \in Nat
                       /\ StoredTotal[h[i]] = Consumed[i] /\ StoredTools[h[i]] = Tools[i]
                       /\ StoredBlocked[h[i]] = Blocked[i]
                       /\ store[h[i]].success = history[i].given.success
    BY <2>1, <2>2 DEF Consumed, Tools, Blocked, StoredTotal, StoredTools, StoredBlocked, Says,
                      Measurement
  <2>4. IsFiniteSet(all) /\ IsFiniteSet(good)
    BY <1>1, <2>2, HistoryIsFinite
  <2> HIDE DEF all, records, h
  <2>5. successes = {h[i] : i \in good}
    BY <2>1, <2>3
  <2> HIDE DEF good, successes
  <2>6. SumOver(Consumed, good) = SumOver(StoredTotal, {h[i] : i \in good})
    BY <2>1, <2>2, <2>3, <2>4, SumOverMap
  <2>7. SumOver(Tools, all) = SumOver(StoredTools, {h[i] : i \in all})
    BY <2>1, <2>3, <2>4, SumOverMap
  <2>8. SumOver(Blocked, all) = SumOver(StoredBlocked, {h[i] : i \in all})
    BY <2>1, <2>3, <2>4, SumOverMap
  <2>9. ASSUME NEW S, S \subseteq all, NEW T, T = {h[i] : i \in S}
        PROVE  Cardinality(S) = Cardinality(T) /\ IsFiniteSet(T)
    <3> DEFINE k == [i \in S |-> h[i]]
    <3>1. k \in Bijection(S, T)
      BY <2>1, <2>9 DEF Bijection, Injection, Surjection, IsInjective
    <3>2. IsFiniteSet(S)
      BY <2>4, <2>9, FS_Subset
    <3> QED BY <3>1, <3>2, FS_Bijection DEF ExistsBijection
  <2>10. Cardinality(good) = Cardinality(successes) /\ IsFiniteSet(successes)
    BY <2>2, <2>5, <2>9
  <2>11. Cardinality(all) = Cardinality(records) /\ IsFiniteSet(records)
    BY <2>1, <2>9
  <2> QED BY <2>1, <2>4, <2>5, <2>6, <2>7, <2>8, <2>10, <2>11 DEF all, records, good, successes
<1>2. KeptInv => ReportAddsUp
  <2> DEFINE all == RecordedOf("token_metric", Names)
             records == OfKind("token_metric")
             good == {i \in all : history[i].given.success}
             successes == {id \in records : store[id].success}
  <2>1. UNION {Recorded("token_metric", name) : name \in Names} = all
    BY DEF Recorded, RecordedOf
  <2> SUFFICES ASSUME KeptInv, Distinct(all) PROVE ReportAddsUp
    BY <2>1 DEF ReportAddsUp
  <2>2. /\ SumOver(Consumed, good) = SumOver(StoredTotal, successes)
        /\ SumOver(Tools, all) = SumOver(StoredTools, records)
        /\ SumOver(Blocked, all) = SumOver(StoredBlocked, records)
        /\ Cardinality(good) = Cardinality(successes)
        /\ Cardinality(all) = Cardinality(records)
        /\ IsFiniteSet(all) /\ IsFiniteSet(good)
        /\ IsFiniteSet(records) /\ IsFiniteSet(successes)
    BY <1>1
  <2>3. good \subseteq DOMAIN history /\ all \subseteq DOMAIN history /\ successes \subseteq records
    BY DEF RecordedOf
  <2> QED BY <2>1, <2>2, <2>3, StoredSums, GivenSums DEF ReportAddsUp, TokenEfficiencyReport
<1> QED BY <1>2, KeptInit, KeptStep, PTL DEF XSpec
====
