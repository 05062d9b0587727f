---- MODULE Metrics ----
(***************************************************************************)
(* Token metrics and skill runs (src/src/chronomemory/metrics.py): each    *)
(* recording is an upsert under an id made of its task or skill and the    *)
(* wall clock in milliseconds, and the report is computed from the records *)
(* that are there.  Two recordings can meet in one id: the clock may stand *)
(* still between them, or be set back.  Means are kept as pairs of a sum   *)
(* and a number.  No action uses the definitions named Bug..., the seeded  *)
(* faults of the runs that show a property can fail.                       *)
(***************************************************************************)
EXTENDS Naturals, Sequences, FiniteSetsExt

CONSTANTS
    Names,          \* task ids and skill ids
    Measurements,   \* the arguments of record_token_metric
    MaxClock,       \* bound: milliseconds
    MaxRecordings   \* bound: recordings in a behaviour

Measurement == [context : Nat, input : Nat, output : Nat, tools : Nat, blocked : Nat,
                success : BOOLEAN]

ASSUME MetricsAssumption ==
    /\ Measurements \subseteq Measurement
    /\ MaxClock \in Nat /\ MaxRecordings \in Nat

VARIABLES
    clock,      \* int(time.time() * 1000)
    store,      \* the records, by id
    history     \* bookkeeping: every recording, with the clock at the time

xvars == <<clock, store, history>>

BugStamp(kind, name) == [kind |-> kind, name |-> "", ms |-> clock]

\* METRIC-{task_id}-{ms} and SKILLRUN-{skill_id}-{ms}.  The milliseconds have
\* no hyphen, so different triples give different ids.
Stamp(kind, name) == [kind |-> kind, name |-> name, ms |-> clock]

XInit ==
    /\ clock \in 0..MaxClock
    /\ store = <<>>
    /\ history = <<>>

\* Time passes, or the clock is set.
ClockChanges ==
    /\ clock' \in 0..MaxClock \ {clock}
    /\ UNCHANGED <<store, history>>

Upsert(id, record, m) ==
    /\ Len(history) < MaxRecordings
    /\ store' = [i \in DOMAIN store \cup {id} |-> IF i = id THEN record ELSE store[i]]
    /\ history' = Append(history, [kind |-> record.kind, name |-> record.of, ms |-> clock,
                                   record |-> record, given |-> m])
    /\ UNCHANGED clock

RecordTokenMetric(task, m) ==
    Upsert(Stamp("token_metric", task),
           [kind |-> "token_metric", of |-> task, success |-> m.success,
            total |-> m.context + m.input + m.output, tools |-> m.tools,
            blocked |-> m.blocked, confidence |-> 10],
           m)

RecordSkillRun(skill, m) ==
    Upsert(Stamp("skill_run", skill),
           [kind |-> "skill_run", of |-> skill, success |-> m.success,
            total |-> m.output, confidence |-> IF m.success THEN 10 ELSE 5],
           m)

XNext ==
    \/ ClockChanges
    \/ \E name \in Names, m \in Measurements :
          RecordTokenMetric(name, m) \/ RecordSkillRun(name, m)

XSpec == XInit /\ [][XNext]_xvars

-----------------------------------------------------------------------------
OfKind(kind) == {i \in DOMAIN store : store[i].kind = kind}

\* get_token_metrics
GetTokenMetrics(task) == {i \in OfKind("token_metric") : store[i].of = task}

\* store.query(kind="skill_run", rag_filter=True): the runs fit for retrieval.
TrustedRuns(skill) ==
    {i \in OfKind("skill_run") : store[i].of = skill /\ store[i].confidence >= 6}

Mean(sum, number) == IF number = 0 THEN <<0, 1>> ELSE <<sum, number>>

BugMeanOverAll ==
    LET all == OfKind("token_metric")
        total(i) == IF store[i].success THEN store[i].total ELSE 0
        tools(i) == store[i].tools
        blocked(i) == store[i].blocked
    IN  [tokens_per_success |-> Mean(MapThenSumSet(total, all), Cardinality(all)),
         avg_tool_calls |-> Mean(MapThenSumSet(tools, all), Cardinality(all)),
         duplicate_block_rate |-> Mean(MapThenSumSet(blocked, all), Cardinality(all))]

\* token_efficiency_report
TokenEfficiencyReport ==
    LET all == OfKind("token_metric")
        successes == {i \in all : store[i].success}
        total(i) == store[i].total
        tools(i) == store[i].tools
        blocked(i) == store[i].blocked
    IN  [tokens_per_success |-> Mean(MapThenSumSet(total, successes), Cardinality(successes)),
         avg_tool_calls |-> Mean(MapThenSumSet(tools, all), Cardinality(all)),
         duplicate_block_rate |-> Mean(MapThenSumSet(blocked, all), Cardinality(all))]

-----------------------------------------------------------------------------
(* Properties.                                                             *)

\* The recordings of one kind under one name.
Recorded(kind, name) ==
    {i \in DOMAIN history : history[i].kind = kind /\ history[i].name = name}

\* No two recordings of S fell in one millisecond under one name.
Distinct(S) == \A i, j \in S :
    (history[i].name = history[j].name /\ history[i].ms = history[j].ms) => i = j

\* A task or a skill loses a recording only to a later one of its own in the
\* same millisecond: whatever other tasks and skills record, at the same time
\* or after the clock was set back, all of its own are found, and a failed
\* run of a skill is never among the trusted ones.
RecordingsAreKept ==
    \A name \in Names :
        LET metrics == Recorded("token_metric", name)
            runs == Recorded("skill_run", name)
        IN  /\ Distinct(metrics) =>
                   {store[i] : i \in GetTokenMetrics(name)} = {history[i].record : i \in metrics}
            /\ Distinct(metrics) => Cardinality(GetTokenMetrics(name)) = Cardinality(metrics)
            /\ Distinct(runs) =>
                   Cardinality(TrustedRuns(name)) =
                       Cardinality({i \in runs : history[i].record.success})

\* The report adds up: computed from the records it is the mean of what the
\* tasks consumed, unless two recordings of one task met in one id.
ReportAddsUp ==
    LET all == UNION {Recorded("token_metric", name) : name \in Names}
        successes == {i \in all : history[i].given.success}
        consumed(i) == LET m == history[i].given IN m.context + m.input + m.output
        tools(i) == history[i].given.tools
        blocked(i) == history[i].given.blocked
        report == TokenEfficiencyReport
    IN  Distinct(all) =>
          /\ report.tokens_per_success =
                 Mean(MapThenSumSet(consumed, successes), Cardinality(successes))
          /\ report.avg_tool_calls = Mean(MapThenSumSet(tools, all), Cardinality(all))
          /\ report.duplicate_block_rate = Mean(MapThenSumSet(blocked, all), Cardinality(all))
====
