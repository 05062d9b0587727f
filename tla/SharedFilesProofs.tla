---- MODULE SharedFilesProofs ----
(***************************************************************************)
(* Proofs about SharedFiles, for every number of instances and of ids, and *)
(* without the bound that TLC needs.                                       *)
(***************************************************************************)
EXTENDS SharedFiles, FiniteLemmas

-----------------------------------------------------------------------------
(* What replay makes of a log.                                             *)

LEMMA EventType ==
    ASSUME NEW log \in Seq(Event), NEW i \in DOMAIN log
    PROVE  /\ log[i].seq \in Nat
           /\ log[i].op \in {"upsert", "delete", "compact"}
           /\ log[i].op # "compact" => log[i].id \in Ids
           /\ log[i].value \in Cell
<1>1. log[i] \in Event
  OBVIOUS
<1>2. \A e \in Event : /\ e.seq \in Nat /\ e.op \in {"upsert", "delete", "compact"}
                       /\ e.op # "compact" => e.id \in Ids
                       /\ e.value \in Cell
  BY DEF Event, Cell
<1> QED BY <1>1, <1>2

LEMMA ReplayType ==
    ASSUME NEW log \in Seq(Event), NEW m \in [Ids -> Cell], NEW n \in Nat
    PROVE  ReplayedAll(log, m, n) \in [Ids -> Cell]
<1>1. ASSUME NEW id \in Ids PROVE Replayed(log, m, n, id) \in Cell
  <2> DEFINE ups == OfId(log, n, "upsert", id)
  <2>1. Latest(ups) \subseteq DOMAIN log
    BY DEF Latest, OfId, Heeded
  <2>2. Latest(ups) # {} => (CHOOSE i \in Latest(ups) : TRUE) \in DOMAIN log
    BY <2>1
  <2>3. Latest(ups) # {} => log[CHOOSE i \in Latest(ups) : TRUE].value \in Cell
    BY <2>2, EventType
  <2>4. "tombstone" \in Cell /\ m[id] \in Cell
    BY DEF Cell
  <2> QED BY <2>3, <2>4 DEF Replayed
<1> QED BY <1>1 DEF ReplayedAll

\* A log with no number above n changes nothing.
NoneAbove(log, n) == \A i \in DOMAIN log : log[i].seq <= n

LEMMA NothingToReplay ==
    ASSUME NEW log \in Seq(Event), NEW m \in [Ids -> Cell], NEW n \in Nat, NoneAbove(log, n)
    PROVE  ReplayedAll(log, m, n) = m
<1>1. Heeded(log, n) = {}
  BY EventType DEF Heeded, NoneAbove
<1>2. ASSUME NEW id \in Ids PROVE Replayed(log, m, n, id) = m[id]
  <2>1. \A op : OfId(log, n, op, id) = {}
    BY <1>1 DEF OfId
  <2>2. Latest(OfId(log, n, "upsert", id)) = {}
    BY <2>1 DEF Latest
  <2> QED BY <2>1, <2>2 DEF Replayed
<1> QED BY <1>2 DEF ReplayedAll

\* An event numbered past the log and past n is replayed last.
LEMMA HeededAppend ==
    ASSUME NEW log \in Seq(Event), NEW e \in Event, NEW n \in Nat, n < e.seq,
           \A i \in DOMAIN log : log[i].seq < e.seq
    PROVE  Heeded(Append(log, e), n) = Heeded(log, n) \cup {Len(log) + 1}
<1> DEFINE l == Append(log, e)
<1>1. /\ Len(log) \in Nat /\ DOMAIN log = 1..Len(log)
      /\ DOMAIN l = 1..(Len(log) + 1)
      /\ l[Len(log) + 1] = e
      /\ \A i \in DOMAIN log : l[i] = log[i]
  OBVIOUS
<1> HIDE DEF l
<1>2. \A i \in DOMAIN log : i \in Heeded(l, n) <=> i \in Heeded(log, n)
  <2> TAKE i \in DOMAIN log
  <2>1. \A j \in 1..(i - 1) : j \in DOMAIN log /\ l[j] = log[j]
    BY <1>1
  <2> QED BY <1>1, <2>1 DEF Heeded
<1>3. Len(log) + 1 \in Heeded(l, n)
  <2>1. \A j \in 1..((Len(log) + 1) - 1) : j \in DOMAIN log /\ l[j].seq < e.seq
    BY <1>1
  <2> QED BY <1>1, <2>1 DEF Heeded
<1>4. Heeded(l, n) \subseteq DOMAIN l /\ Heeded(log, n) \subseteq DOMAIN log
  BY DEF Heeded
<1>5. DOMAIN l = DOMAIN log \cup {Len(log) + 1}
  BY <1>1
<1>6. Heeded(l, n) = Heeded(log, n) \cup {Len(log) + 1}
  BY <1>2, <1>3, <1>4, <1>5
<1> QED BY <1>6 DEF l

LEMMA ReplayAppend ==
    ASSUME NEW log \in Seq(Event), NEW e \in Event, NEW m \in [Ids -> Cell], NEW n \in Nat,
           n < e.seq, \A i \in DOMAIN log : log[i].seq < e.seq
    PROVE  ReplayedAll(Append(log, e), m, n) = Applied(ReplayedAll(log, m, n), e)
<1> DEFINE l == Append(log, e)
           last == Len(log) + 1
<1>1. /\ Len(log) \in Nat /\ DOMAIN log = 1..Len(log)
      /\ l[last] = e /\ last \notin DOMAIN log
      /\ \A i \in DOMAIN log : l[i] = log[i] /\ i < last
  OBVIOUS
<1>2. Heeded(l, n) = Heeded(log, n) \cup {last}
  BY HeededAppend
<1>3. Heeded(log, n) \subseteq DOMAIN log
  BY DEF Heeded
<1>e. e.op \in {"upsert", "delete", "compact"} /\ (e.op # "compact" => e.id \in Ids)
  BY DEF Event
<1> HIDE DEF l, last
<1>4. \A op, id : OfId(l, n, op, id) = OfId(log, n, op, id) \cup
                     (IF e.op = op /\ e.id = id THEN {last} ELSE {})
  BY <1>1, <1>2, <1>3 DEF OfId
<1>5. ASSUME NEW id \in Ids
      PROVE  Replayed(l, m, n, id) = Applied(ReplayedAll(log, m, n), e)[id]
  <2> DEFINE ups == OfId(log, n, "upsert", id)
             dels == OfId(log, n, "delete", id)
             value == IF Latest(ups) = {} THEN m[id] ELSE log[CHOOSE i \in Latest(ups) : TRUE].value
             is(op) == e.op = op /\ e.id = id
  <2>1. ups \subseteq DOMAIN log /\ dels \subseteq DOMAIN log
    BY <1>3 DEF OfId
  <2>2. Replayed(log, m, n, id) = IF value # "absent" /\ \E d \in dels : \A u \in ups : u < d
                                  THEN "tombstone" ELSE value
    BY DEF Replayed
  <2>3. ReplayedAll(log, m, n) \in [Ids -> Cell]
        /\ ReplayedAll(log, m, n)[id] = Replayed(log, m, n, id)
    BY ReplayType DEF ReplayedAll
  <2>4. OfId(l, n, "upsert", id) = ups \cup (IF is("upsert") THEN {last} ELSE {})
        /\ OfId(l, n, "delete", id) = dels \cup (IF is("delete") THEN {last} ELSE {})
    BY <1>4
  <2> HIDE DEF ups, dels
  <2>5. CASE is("upsert")
    <3>1. OfId(l, n, "upsert", id) = ups \cup {last} /\ OfId(l, n, "delete", id) = dels
      BY <2>4, <2>5
    <3>t. last \in Nat /\ \A i \in ups \cup dels : i \in Nat /\ i < last
      BY <1>1, <2>1 DEF last
    <3>2. Latest(ups \cup {last}) = {last}
      <4>1. last \in Latest(ups \cup {last})
        BY <3>t DEF Latest
      <4>2. \A i \in Latest(ups \cup {last}) : last <= i
        BY DEF Latest
      <4>3. \A i \in Latest(ups \cup {last}) : i = last
        BY <3>t, <4>2 DEF Latest
      <4> QED BY <4>1, <4>3
    <3>3. (CHOOSE i \in {last} : TRUE) = last
      OBVIOUS
    <3>4. ~ \E d \in dels : \A u \in ups \cup {last} : u < d
      <4> SUFFICES ASSUME NEW d \in dels, last < d PROVE FALSE
        OBVIOUS
      <4> QED BY <3>t
    <3>5. Replayed(l, m, n, id) = e.value
      BY <1>1, <3>1, <3>2, <3>3, <3>4 DEF Replayed
    <3> QED BY <2>3, <2>5, <3>5 DEF Applied
  <2>6. ASSUME ~is("upsert") PROVE /\ OfId(l, n, "upsert", id) = ups
                                   /\ Latest(ups) # {} =>
                                        l[CHOOSE i \in Latest(ups) : TRUE] =
                                        log[CHOOSE i \in Latest(ups) : TRUE]
    <3>1. Latest(ups) \subseteq DOMAIN log
      BY <2>1 DEF Latest
    <3>2. Latest(ups) # {} => (CHOOSE i \in Latest(ups) : TRUE) \in DOMAIN log
      BY <3>1
    <3> QED BY <1>1, <2>4, <2>6, <3>2
  <2>7. CASE is("delete")
    <3>1. OfId(l, n, "delete", id) = dels \cup {last}
      BY <2>4, <2>7
    <3>2. \A u \in ups : u < last
      BY <1>1, <2>1
    <3>3. Replayed(l, m, n, id) = IF value # "absent" THEN "tombstone" ELSE value
      BY <2>6, <2>7, <3>1, <3>2 DEF Replayed
    <3>4. Applied(ReplayedAll(log, m, n), e)[id] =
            IF Replayed(log, m, n, id) # "absent" THEN "tombstone" ELSE Replayed(log, m, n, id)
      BY <2>3, <2>7 DEF Applied
    <3> QED BY <2>2, <3>3, <3>4
  <2>8. CASE ~is("upsert") /\ ~is("delete")
    <3>1. OfId(l, n, "delete", id) = dels
      BY <2>4, <2>8
    <3>2. Replayed(l, m, n, id) = Replayed(log, m, n, id)
      BY <2>2, <2>6, <2>8, <3>1 DEF Replayed
    <3>3. Applied(ReplayedAll(log, m, n), e)[id] = ReplayedAll(log, m, n)[id]
      BY <1>e, <2>3, <2>8 DEF Applied
    <3> QED BY <2>3, <3>2, <3>3
  <2> QED BY <2>5, <2>7, <2>8
<1>6. DOMAIN Applied(ReplayedAll(log, m, n), e) = Ids
      /\ Applied(ReplayedAll(log, m, n), e) = [id \in Ids |-> Applied(ReplayedAll(log, m, n), e)[id]]
  BY ReplayType DEF Applied
<1>7. ReplayedAll(l, m, n) = [id \in Ids |-> Replayed(l, m, n, id)]
  BY DEF ReplayedAll
<1> QED BY <1>5, <1>6, <1>7 DEF l

\* Where a replay makes something of nothing, what it started from does not
\* matter.
LEMMA ReplayMerged ==
    ASSUME NEW log, NEW m, NEW old, NEW n, NEW id,
           old[id] = m[id] \/ (m[id] = "absent" /\ Replayed(log, m, n, id) # "absent")
    PROVE  Replayed(log, old, n, id) = Replayed(log, m, n, id)
BY DEF Replayed

\* self._seq after a replay: a number of the log that none exceeds, or n.
LEMMA LastSeqIsGreatest ==
    ASSUME NEW log \in Seq(Event), NEW n \in Nat
    PROVE  /\ LastSeq(log, n) \in Nat
           /\ n <= LastSeq(log, n)
           /\ NoneAbove(log, LastSeq(log, n))
           /\ LastSeq(log, n) = n \/ \E i \in DOMAIN log : LastSeq(log, n) = log[i].seq
<1> DEFINE Tops(k) == {x \in {n} \cup {log[i].seq : i \in 1..k} :
                          x >= n /\ \A i \in 1..k : x >= log[i].seq}
           T == {k \in 0..Len(log) : Tops(k) = {}}
<1>1. Len(log) \in Nat /\ DOMAIN log = 1..Len(log) /\ \A i \in 1..Len(log) : log[i].seq \in Nat
  BY EventType
<1>2. T = {}
  <2> SUFFICES ASSUME T # {} PROVE FALSE
    OBVIOUS
  <2>1. T \subseteq Nat
    BY <1>1
  <2> HIDE DEF T
  <2>2. PICK k \in T : \A j \in T : k <= j
    BY <2>1, LeastOf
  <2>r. k \in Nat /\ k - 1 \notin T
    BY <2>1, <2>2
  <2> USE DEF T
  <2>3. k \in 0..Len(log) /\ Tops(k) = {}
    BY <2>2
  <2>4. n \in Tops(0)
    OBVIOUS
  <2>5. k # 0
    BY <2>3, <2>4
  <2>6. k - 1 \in 0..Len(log) /\ k - 1 \notin T
    BY <1>1, <2>r, <2>3, <2>5
  <2>7. PICK x : x \in Tops(k - 1)
    BY <2>6
  <2>8. k \in 1..Len(log) /\ log[k].seq \in Nat /\ 1..k = 1..(k - 1) \cup {k}
    BY <1>1, <2>3, <2>5
  <2>9. x \in Nat
    BY <1>1, <2>3, <2>7
  <2>10. CASE x >= log[k].seq
    <3>1. x \in Tops(k)
      BY <2>7, <2>8, <2>10
    <3> QED BY <2>3, <3>1
  <2>11. CASE x < log[k].seq
    <3>1. \A i \in 1..(k - 1) : log[i].seq \in Nat /\ log[i].seq <= x
      BY <1>1, <2>3, <2>7
    <3>2. log[k].seq \in Tops(k)
      BY <2>7, <2>8, <2>9, <2>11, <3>1
    <3> QED BY <2>3, <3>2
  <2> QED BY <2>8, <2>9, <2>10, <2>11
<1>3. Tops(Len(log)) # {}
  BY <1>1, <1>2
<1>4. \E k \in {n} \cup {log[i].seq : i \in DOMAIN log} :
        k >= n /\ \A i \in DOMAIN log : k >= log[i].seq
  BY <1>1, <1>3
<1>5. /\ LastSeq(log, n) \in {n} \cup {log[i].seq : i \in DOMAIN log}
      /\ LastSeq(log, n) >= n
      /\ \A i \in DOMAIN log : LastSeq(log, n) >= log[i].seq
  BY <1>4 DEF LastSeq
<1> QED BY <1>1, <1>5 DEF NoneAbove

-----------------------------------------------------------------------------
(* Types.                                                                  *)

LEMMA LineType ==
    ASSUME NEW n \in Nat, NEW c \in WriteCalls
    PROVE  Line(n, c) \in Event
BY DEF Line, WriteCalls, Upserts, Deletes, CompactCall, Event, Cell

LEMMA AppliedType ==
    ASSUME NEW m \in [Ids -> Cell], NEW n \in Nat, NEW c \in WriteCalls
    PROVE  Applied(m, Line(n, c)) \in [Ids -> Cell]
<1>1. "tombstone" \in Cell
  BY DEF Cell
<1>2. c.op = "upsert" => c.value \in Cell
  BY DEF WriteCalls, Upserts, Deletes, CompactCall, Cell
<1> QED BY <1>1, <1>2 DEF Applied, Line

LEMMA SharedTypeInit == SInit => STypeOK
<1> SUFFICES ASSUME SInit PROVE STypeOK
  OBVIOUS
<1>1. Empty \in [Ids -> Cell]
  BY DEF Empty, Cell
<1>2. writes \in 0..MaxWrites
  BY SharedAssumption DEF SInit
<1>3. snap \in [there : BOOLEAN, seq : Nat, records : [Ids -> Cell]]
  BY <1>1 DEF SInit, NoSnapshot
<1>4. /\ pc = [p \in Instances |-> "idle"] /\ existing = [p \in Instances |-> <<>>]
      /\ state \in [Instances -> [Ids -> Cell]]
  BY <1>1 DEF SInit
<1>5. req \in [Instances -> WriteCalls \cup {OpenCall}]
  BY DEF SInit
<1>6. \A p \in Instances : pc[p] \notin {"append", "rename", "snapshot"}
  BY <1>4
<1>7. /\ pc \in [Instances -> {"idle", "load", "read", "append", "rename", "snapshot", "close",
                                "compact", "truncate", "sentinel"}]
      /\ existing \in [Instances -> Seq(Event)] /\ wal \in Seq(Event)
  BY <1>4 DEF SInit
<1>8. /\ opened \in [Instances -> BOOLEAN] /\ stale \in [Instances -> BOOLEAN]
      /\ blind \in [Instances -> BOOLEAN] /\ raced \in BOOLEAN
      /\ seq \in [Instances -> Nat] /\ since \in [Instances -> Nat]
      /\ truth \in [Ids -> Cell]
  BY <1>1 DEF SInit
<1> QED BY <1>2, <1>3, <1>4, <1>5, <1>6, <1>7, <1>8 DEF STypeOK

Pcs == {"idle", "load", "read", "append", "rename", "snapshot", "close",
        "compact", "truncate", "sentinel"}

\* A call begins with its own first step or with the opening.
LEMMA BeginType ==
    ASSUME STypeOK, NEW p \in Instances, NEW c \in WriteCalls \cup {OpenCall}, Begin(p, c)
    PROVE  /\ req' \in [Instances -> WriteCalls \cup {OpenCall}]
           /\ pc' \in [Instances -> Pcs]
           /\ \A q \in Instances : pc'[q] \in {"append", "rename", "snapshot"} =>
                                      req'[q] \in Upserts \cup Deletes
<1>1. FirstStep(c) \in Pcs \ {"rename", "snapshot"}
      /\ (FirstStep(c) = "append" => c \in Upserts \cup Deletes)
  BY DEF FirstStep, Pcs, WriteCalls, CompactCall, OpenCall
<1> QED BY <1>1 DEF STypeOK, Begin, Goto, Pcs

LEMMA SharedTypeStep == STypeOK /\ [SNext]_svars => STypeOK'
<1> SUFFICES ASSUME STypeOK, [SNext]_svars PROVE STypeOK'
  OBVIOUS
<1>c. ASSUME NEW c \in Upserts \cup Deletes PROVE c \in WriteCalls
  BY <1>c DEF WriteCalls
<1>r. ASSUME NEW p \in Instances, Races(p) PROVE raced' \in BOOLEAN
  BY <1>r DEF Races, STypeOK
<1>s. ASSUME NEW p \in Instances, STypeOK
      PROVE  [there |-> TRUE, seq |-> seq[p], records |-> state[p]]
                 \in [there : BOOLEAN, seq : Nat, records : [Ids -> Cell]]
  BY <1>s DEF STypeOK
<1>1. ASSUME NEW p \in Instances, Open(p) PROVE STypeOK'
  BY <1>1, BeginType DEF Open, Begin, Pcs, STypeOK, memory
<1>2. ASSUME NEW p \in Instances, Write(p) PROVE STypeOK'
  <2>1. PICK c \in WriteCalls : Begin(p, c)
    BY <1>2 DEF Write
  <2>2. writes' \in 0..MaxWrites
    BY <1>2, SharedAssumption DEF Write, STypeOK
  <2> QED BY <2>1, <2>2, BeginType DEF Begin, Pcs, STypeOK, memory
<1>3. ASSUME NEW p \in Instances, LoadSnapshot(p) PROVE STypeOK'
  <2>1. seq' \in [Instances -> Nat] /\ state' \in [Instances -> [Ids -> Cell]]
    <3>1. CASE ~snap.there
      BY <1>3, <3>1 DEF LoadSnapshot, STypeOK
    <3>2. CASE snap.there
      <4>1. [id \in Ids |-> IF snap.records[id] # "absent" THEN snap.records[id]
                            ELSE state[p][id]] \in [Ids -> Cell]
        BY DEF STypeOK
      <4>2. snap.seq \in Nat
        BY DEF STypeOK
      <4> QED BY <1>3, <3>2, <4>1, <4>2 DEF LoadSnapshot, STypeOK
    <3> QED BY <3>1, <3>2
  <2> QED BY <1>3, <2>1 DEF LoadSnapshot, Goto, STypeOK
<1>4. ASSUME NEW p \in Instances, ReplayWal(p) PROVE STypeOK'
  <2>1. ReplayedAll(wal, state[p], seq[p]) \in [Ids -> Cell]
    BY ReplayType DEF STypeOK
  <2>2. LastSeq(wal, seq[p]) \in Nat
    BY LastSeqIsGreatest DEF STypeOK
  <2>3. /\ FirstStep(req[p]) \in Pcs \ {"rename", "snapshot"}
        /\ FirstStep(req[p]) = "append" => req[p] \in Upserts \cup Deletes
    <3>1. req[p] \in WriteCalls \cup {OpenCall}
      BY DEF STypeOK
    <3> QED BY <3>1 DEF FirstStep, Pcs, WriteCalls, CompactCall, OpenCall
  <2> QED BY <1>4, <2>1, <2>2, <2>3 DEF ReplayWal, Goto, Pcs, STypeOK
<1>5. ASSUME NEW p \in Instances, ReadExisting(p) PROVE STypeOK'
  BY <1>5 DEF ReadExisting, Goto, STypeOK
<1>6. ASSUME NEW p \in Instances, Rename(p) PROVE STypeOK'
  <2>1. req[p] \in WriteCalls /\ seq[p] \in Nat
    BY <1>6, <1>c DEF Rename, STypeOK
  <2>2. wal' \in Seq(Event)
    BY <1>6, <2>1, LineType DEF Rename, STypeOK
  <2>3. truth' \in [Ids -> Cell] /\ state' \in [Instances -> [Ids -> Cell]]
    BY <1>6, <2>1, AppliedType DEF Rename, STypeOK
  <2>4. stale' \in [Instances -> BOOLEAN]
    BY <1>6 DEF Rename, Overtakes, STypeOK
  <2> QED BY <1>6, <1>r, <2>2, <2>3, <2>4 DEF Rename, Goto, STypeOK
<1>7. ASSUME NEW p \in Instances, UpsertSnapshot(p) \/ CloseSnapshot(p) \/ CompactSnapshot(p)
      PROVE  STypeOK'
  <2>1. snap' \in [there : BOOLEAN, seq : Nat, records : [Ids -> Cell]] /\ raced' \in BOOLEAN
    BY <1>7, <1>r, <1>s DEF UpsertSnapshot, CloseSnapshot, CompactSnapshot, WriteSnapshot
  <2>2. CASE UpsertSnapshot(p)
    BY <2>1, <2>2 DEF UpsertSnapshot, Goto, STypeOK
  <2>3. CASE CloseSnapshot(p)
    BY <2>1, <2>3 DEF CloseSnapshot, Goto, STypeOK
  <2>4. CASE CompactSnapshot(p)
    BY <2>1, <2>4 DEF CompactSnapshot, Goto, memory, STypeOK
  <2> QED BY <1>7, <2>2, <2>3, <2>4
<1>8. ASSUME NEW p \in Instances, Close(p) PROVE STypeOK'
  BY <1>8 DEF Close, Goto, STypeOK
<1>9. ASSUME NEW p \in Instances, Truncate(p) PROVE STypeOK'
  <2>1. raced' \in BOOLEAN /\ wal' \in Seq(Event) /\ seq' \in [Instances -> Nat]
    BY <1>9, <1>r DEF Truncate, STypeOK
  <2>2. blind' \in [Instances -> BOOLEAN] /\ stale' \in [Instances -> BOOLEAN]
    BY <1>9 DEF Truncate, Overtakes, STypeOK
  <2>3. /\ pc' \in [Instances -> Pcs]
        /\ \A q \in Instances : pc'[q] \in {"append", "rename", "snapshot"} =>
                                   req'[q] \in Upserts \cup Deletes
    BY <1>9 DEF Truncate, Goto, Pcs, STypeOK
  <2> QED BY <1>9, <2>1, <2>2, <2>3 DEF Truncate, Pcs, STypeOK
<1>10. ASSUME NEW p \in Instances, WriteSentinel(p) PROVE STypeOK'
  <2>1. <<Line(seq[p], CompactCall)>> \in Seq(Event)
    BY LineType DEF STypeOK, WriteCalls
  <2> QED BY <1>10, <1>r, <2>1 DEF WriteSentinel, Overtakes, Goto, STypeOK
<1>11. ASSUME NEW p \in Instances, Crash(p) PROVE STypeOK'
  <2>1. Empty \in [Ids -> Cell]
    BY DEF Empty, Cell
  <2> QED BY <1>11, <2>1 DEF Crash, Goto, STypeOK
<1>12. CASE UNCHANGED svars
  BY <1>12 DEF svars, memory, STypeOK
<1> QED BY <1>1, <1>2, <1>3, <1>4, <1>5, <1>6, <1>7, <1>8, <1>9, <1>10, <1>11, <1>12
        DEF SNext, SStep

\* Every variable of the shared files and of the instances keeps its type.
THEOREM SharedTypeCorrect == SSpec => []STypeOK
BY SharedTypeInit, SharedTypeStep, PTL DEF SSpec

-----------------------------------------------------------------------------
(* The invariant.                                                          *)

\* n is the number of something on disk, or less.
Accounted(n) == n <= snap.seq \/ \E i \in DOMAIN wal : n <= wal[i].seq

\* What p's memory becomes if it replays the log as it is.
Rebuilt(p) == ReplayedAll(wal, state[p], seq[p])

\* An instance that is open, or inside a write, and that nobody has overtaken.
AtWork(p) ==
    /\ ~stale[p]
    /\ (opened[p] /\ pc[p] = "idle") \/ pc[p] \in {"append", "snapshot", "close", "compact"}

WorkInv(p) ==
    /\ AtWork(p) => state[p] = truth /\ NoneAbove(wal, seq[p]) /\ snap.seq <= seq[p]
    /\ (pc[p] = "rename" /\ ~stale[p]) =>
           /\ state[p] = truth /\ existing[p] = wal
           /\ \A i \in DOMAIN wal : wal[i].seq < seq[p]
           /\ snap.seq < seq[p]
    /\ (pc[p] = "truncate" /\ ~stale[p]) =>
           state[p] = truth /\ NoneAbove(wal, seq[p]) /\ snap.seq = seq[p]
    /\ (pc[p] = "sentinel" /\ ~stale[p]) =>
           state[p] = truth /\ wal = <<>> /\ snap.seq < seq[p]

OpenInv(p) ==
    /\ (pc[p] = "read" /\ ~blind[p]) => Rebuilt(p) = truth
    /\ (pc[p] = "read" /\ ~stale[p]) =>
           snap.seq <= seq[p] \/ \E i \in DOMAIN wal : snap.seq <= wal[i].seq
    /\ (~snap.there /\ pc[p] \notin {"read", "rename"}) => Rebuilt(p) = truth
    /\ pc[p] \notin {"rename", "sentinel"} => Accounted(seq[p])

Known(m) == \A id \in Ids : m[id] # "absent" => truth[id] # "absent"

KnownInv ==
    /\ Known(snap.records)
    /\ \A p \in Instances : Known(state[p])
    /\ \A i \in DOMAIN wal : wal[i].op = "upsert" => truth[wal[i].id] # "absent"

WalIncreases == \A i, j \in DOMAIN wal : i < j => wal[i].seq < wal[j].seq

Shape ==
    /\ ~snap.there => snap = NoSnapshot
    /\ \A p \in Instances :
         /\ blind[p] => stale[p] /\ snap.there
         /\ pc[p] \in {"truncate", "sentinel"} => snap.there

TurnsInv ==
    /\ OnDisk = truth
    /\ WalIncreases
    /\ KnownInv
    /\ \A p \in Instances : WorkInv(p) /\ OpenInv(p)

SharedInv == Shape /\ (~raced => TurnsInv)

LEMMA SharedInvInit == SInit => SharedInv
<1> SUFFICES ASSUME SInit PROVE SharedInv
  OBVIOUS
<1>1. STypeOK
  BY SharedTypeInit
<1>2. NoneAbove(wal, 0) /\ OnDisk = truth /\ truth = Empty
  <2>1. NoneAbove(wal, 0)
    BY DEF SInit, NoneAbove
  <2>2. OnDisk = snap.records
    BY <1>1, <2>1, NothingToReplay DEF OnDisk, SInit, NoSnapshot, STypeOK
  <2> QED BY <2>1, <2>2 DEF SInit, NoSnapshot
<1>3. KnownInv /\ WalIncreases
  BY DEF KnownInv, Known, WalIncreases, SInit, NoSnapshot, Empty
<1>4. ASSUME NEW p \in Instances PROVE WorkInv(p) /\ OpenInv(p)
  <2>1. pc[p] = "idle" /\ ~opened[p] /\ seq[p] = 0 /\ state[p] = Empty /\ snap.seq = 0
    BY <1>4 DEF SInit, NoSnapshot
  <2>2. Rebuilt(p) = truth
    BY <1>1, <1>2, <2>1, NothingToReplay DEF Rebuilt, STypeOK
  <2> QED BY <2>1, <2>2 DEF WorkInv, AtWork, OpenInv, Accounted
<1>5. Shape
  BY DEF Shape, SInit, NoSnapshot
<1> QED BY <1>2, <1>3, <1>4, <1>5 DEF SharedInv, TurnsInv

\* A step of p that touches no file and no bookkeeping of the log concerns p
\* alone.
LEMMA PrivateStep ==
    ASSUME SharedInv, NEW p \in Instances,
           UNCHANGED <<wal, snap, truth, raced>>,
           \A q \in Instances \ {p} :
               /\ opened'[q] = opened[q] /\ state'[q] = state[q] /\ seq'[q] = seq[q]
               /\ pc'[q] = pc[q] /\ existing'[q] = existing[q]
               /\ stale'[q] = stale[q] /\ blind'[q] = blind[q],
           blind'[p] => stale'[p] /\ snap.there,
           pc'[p] \in {"truncate", "sentinel"} => snap.there,
           TurnsInv => Known(state'[p]) /\ WorkInv(p)' /\ OpenInv(p)'
    PROVE  SharedInv'
<1>1. Shape'
  BY DEF SharedInv, Shape
<1>2. ASSUME ~raced' PROVE TurnsInv'
  <2>1. TurnsInv
    BY <1>2 DEF SharedInv
  <2>2. OnDisk' = truth' /\ WalIncreases'
    BY <2>1 DEF TurnsInv, OnDisk, WalIncreases
  <2>3. KnownInv'
    BY <2>1 DEF TurnsInv, KnownInv, Known
  <2>4. ASSUME NEW q \in Instances \ {p} PROVE WorkInv(q)' /\ OpenInv(q)'
    <3>1. WorkInv(q) /\ OpenInv(q)
      BY <2>1, <2>4 DEF TurnsInv
    <3> QED BY <3>1 DEF WorkInv, AtWork, OpenInv, Rebuilt, Accounted, NoneAbove
  <2> QED BY <2>1, <2>2, <2>3, <2>4 DEF TurnsInv
<1> QED BY <1>1, <1>2 DEF SharedInv

LEMMA BeginStep ==
    ASSUME STypeOK, SharedInv, NEW p \in Instances, NEW c \in WriteCalls \cup {OpenCall}, Begin(p, c)
    PROVE  SharedInv'
<1>1. c.op # "open" => FirstStep(c) \in {"append", "compact"}
  BY DEF FirstStep
<1>2. /\ pc[p] = "idle" /\ UNCHANGED <<wal, snap, truth, raced, opened, state, seq, existing, stale, blind>>
      /\ pc'[p] = "load" \/ (opened[p] /\ pc'[p] \in {"append", "compact"})
      /\ \A q \in Instances \ {p} : pc'[q] = pc[q]
  BY <1>1 DEF Begin, Goto, memory, STypeOK
<1>3. ASSUME TurnsInv PROVE Known(state'[p]) /\ WorkInv(p)' /\ OpenInv(p)'
  <2>1. WorkInv(p) /\ OpenInv(p) /\ Known(state[p])
    BY <1>3 DEF TurnsInv, KnownInv
  <2>2. OpenInv(p)'
    BY <1>2, <2>1 DEF OpenInv, Rebuilt, Accounted
  <2>3. WorkInv(p)'
    BY <1>2, <2>1 DEF WorkInv, AtWork, NoneAbove
  <2> QED BY <1>2, <2>1, <2>2, <2>3 DEF Known
<1> QED BY <1>2, <1>3, PrivateStep DEF SharedInv, Shape

LEMMA CloseStep ==
    ASSUME STypeOK, SharedInv, NEW p \in Instances, Close(p)
    PROVE  SharedInv'
<1>1. /\ pc[p] = "idle" /\ opened[p]
      /\ UNCHANGED <<wal, snap, truth, raced, state, seq, existing, stale, blind>>
      /\ \/ pc'[p] = "close" /\ opened'[p]
         \/ pc'[p] = "idle" /\ ~opened'[p]
      /\ \A q \in Instances \ {p} : pc'[q] = pc[q] /\ opened'[q] = opened[q]
  BY DEF Close, Goto, STypeOK
<1>2. ASSUME TurnsInv PROVE Known(state'[p]) /\ WorkInv(p)' /\ OpenInv(p)'
  <2>1. WorkInv(p) /\ OpenInv(p) /\ Known(state[p])
    BY <1>2 DEF TurnsInv, KnownInv
  <2>2. OpenInv(p)'
    BY <1>1, <2>1 DEF OpenInv, Rebuilt, Accounted
  <2>3. WorkInv(p)'
    BY <1>1, <2>1 DEF WorkInv, AtWork, NoneAbove
  <2> QED BY <1>1, <2>1, <2>2, <2>3 DEF Known
<1> QED BY <1>1, <1>2, PrivateStep DEF SharedInv, Shape

\* The snapshot is laid over what the object remembers.  That the two agree
\* is because whatever it remembers has reached the log.
LEMMA LoadStep ==
    ASSUME STypeOK, STypeOK', SharedInv, NEW p \in Instances, LoadSnapshot(p)
    PROVE  SharedInv'
<1>1. /\ pc[p] = "load" /\ pc'[p] = "read" /\ ~blind'[p] /\ ~stale'[p]
      /\ UNCHANGED <<wal, snap, truth, raced, opened, existing>>
      /\ \A q \in Instances \ {p} :
            /\ pc'[q] = pc[q] /\ state'[q] = state[q] /\ seq'[q] = seq[q]
            /\ stale'[q] = stale[q] /\ blind'[q] = blind[q]
  BY DEF LoadSnapshot, Goto, STypeOK
<1>2. ASSUME TurnsInv PROVE Known(state'[p]) /\ WorkInv(p)' /\ OpenInv(p)'
  <2>1. WorkInv(p) /\ OpenInv(p) /\ Known(state[p]) /\ Known(snap.records) /\ OnDisk = truth
    BY <1>2 DEF TurnsInv, KnownInv
  <2>2. WorkInv(p)'
    BY <1>1 DEF WorkInv, AtWork
  <2>3. CASE ~snap.there
    <3>1. state'[p] = state[p] /\ seq'[p] = seq[p]
      BY <2>3 DEF LoadSnapshot
    <3>2. Rebuilt(p)' = truth'
      BY <1>1, <2>1, <2>3, <3>1 DEF OpenInv, Rebuilt
    <3>3. Accounted(seq[p])' /\ snap'.seq <= seq'[p]
      <4>1. snap.seq = 0
        BY <2>3 DEF SharedInv, Shape, NoSnapshot
      <4> QED BY <1>1, <2>1, <3>1, <4>1 DEF OpenInv, Accounted, STypeOK
    <3> QED BY <1>1, <2>1, <2>2, <3>1, <3>2, <3>3 DEF OpenInv, Known
  <2>4. CASE snap.there
    <3>1. /\ seq'[p] = snap.seq
          /\ state'[p] = [id \in Ids |-> IF snap.records[id] # "absent" THEN snap.records[id]
                                         ELSE state[p][id]]
      BY <2>4 DEF LoadSnapshot, STypeOK
    <3>2. Known(state'[p])
      BY <1>1, <2>1, <3>1 DEF Known
    <3>3. ASSUME NEW id \in Ids
          PROVE  Replayed(wal, state'[p], snap.seq, id) = Replayed(wal, snap.records, snap.seq, id)
      <4>1. OnDisk[id] = Replayed(wal, snap.records, snap.seq, id)
        BY DEF OnDisk, ReplayedAll
      <4>2. state'[p][id] = snap.records[id] \/
              (snap.records[id] = "absent" /\ Replayed(wal, snap.records, snap.seq, id) # "absent")
        BY <2>1, <3>1, <4>1 DEF Known
      <4> QED BY <4>2, ReplayMerged
    <3>4. Rebuilt(p)' = truth'
      BY <1>1, <2>1, <3>1, <3>3 DEF Rebuilt, ReplayedAll, OnDisk
    <3>5. Accounted(seq[p])' /\ snap'.seq <= seq'[p]
      BY <1>1, <3>1 DEF Accounted, STypeOK
    <3> QED BY <1>1, <2>2, <3>2, <3>4, <3>5 DEF OpenInv, Known
  <2> QED BY <2>3, <2>4
<1> QED BY <1>1, <1>2, PrivateStep DEF SharedInv, Shape

LEMMA ReplayStep ==
    ASSUME STypeOK, STypeOK', SharedInv, NEW p \in Instances, ReplayWal(p)
    PROVE  SharedInv'
<1>1. /\ pc[p] = "read" /\ pc'[p] = FirstStep(req[p]) /\ opened'[p]
      /\ UNCHANGED <<wal, snap, truth, raced, existing, stale, blind>>
      /\ state'[p] = Rebuilt(p) /\ seq'[p] = LastSeq(wal, seq[p])
      /\ \A q \in Instances \ {p} :
            pc'[q] = pc[q] /\ state'[q] = state[q] /\ seq'[q] = seq[q] /\ opened'[q] = opened[q]
  BY DEF ReplayWal, Goto, STypeOK, Rebuilt
<1>2. FirstStep(req[p]) \in {"idle", "append", "compact"}
  BY DEF FirstStep
<1>3. /\ seq[p] \in Nat /\ seq'[p] \in Nat /\ seq[p] <= seq'[p] /\ NoneAbove(wal, seq'[p])
      /\ seq'[p] = seq[p] \/ \E i \in DOMAIN wal : seq'[p] = wal[i].seq
  <2>1. wal \in Seq(Event) /\ seq[p] \in Nat
    BY DEF STypeOK
  <2> QED BY <1>1, <2>1, LastSeqIsGreatest
<1>4. ASSUME TurnsInv PROVE Known(state'[p]) /\ WorkInv(p)' /\ OpenInv(p)'
  <2>1. WorkInv(p) /\ OpenInv(p) /\ KnownInv
    BY <1>4 DEF TurnsInv
  <2>2. Known(state'[p])
    <3> SUFFICES ASSUME NEW id \in Ids, state'[p][id] # "absent" PROVE truth[id] # "absent"
      BY DEF Known
    <3>1. Replayed(wal, state[p], seq[p], id) # "absent"
      BY <1>1 DEF Rebuilt, ReplayedAll
    <3>2. CASE OfId(wal, seq[p], "upsert", id) = {}
      <4>1. state[p][id] # "absent"
        BY <3>1, <3>2 DEF Replayed, Latest
      <4> QED BY <2>1, <4>1 DEF KnownInv, Known
    <3>3. CASE OfId(wal, seq[p], "upsert", id) # {}
      BY <2>1, <3>3 DEF OfId, Heeded, KnownInv
    <3> QED BY <3>2, <3>3
  <2>3. \A i \in DOMAIN wal : wal[i].seq \in Nat
    BY EventType DEF STypeOK
  <2>4. ~blind[p] => state'[p] = truth
    BY <1>1, <2>1 DEF OpenInv
  <2>5. ASSUME ~stale[p] PROVE snap.seq <= seq'[p] /\ state'[p] = truth
    BY <1>1, <1>3, <2>1, <2>3, <2>4, <2>5 DEF OpenInv, NoneAbove, SharedInv, Shape, STypeOK
  <2>6. WorkInv(p)'
    BY <1>1, <1>2, <1>3, <2>5 DEF WorkInv, AtWork, NoneAbove
  <2>7. ~snap.there => Rebuilt(p)' = truth'
    <3> SUFFICES ASSUME ~snap.there PROVE Rebuilt(p)' = truth'
      OBVIOUS
    <3>1. state'[p] = truth
      BY <2>4 DEF SharedInv, Shape
    <3>2. ReplayedAll(wal, state'[p], seq'[p]) = state'[p]
      BY <1>3, NothingToReplay DEF STypeOK
    <3> QED BY <1>1, <3>1, <3>2 DEF Rebuilt
  <2>8. Accounted(seq[p])'
    <3>1. Accounted(seq[p])
      BY <1>1, <2>1 DEF OpenInv
    <3> QED BY <1>1, <1>3, <2>3, <3>1 DEF Accounted
  <2> QED BY <1>1, <1>2, <2>2, <2>6, <2>7, <2>8 DEF OpenInv
<1> QED BY <1>1, <1>2, <1>4, PrivateStep DEF SharedInv, Shape

LEMMA ReadStep ==
    ASSUME STypeOK, SharedInv, NEW p \in Instances, ReadExisting(p)
    PROVE  SharedInv'
<1>1. /\ pc[p] = "append" /\ pc'[p] = "rename" /\ seq'[p] = seq[p] + 1 /\ existing'[p] = wal
      /\ UNCHANGED <<wal, snap, truth, raced, opened, state, stale, blind>>
      /\ \A q \in Instances \ {p} :
            pc'[q] = pc[q] /\ seq'[q] = seq[q] /\ existing'[q] = existing[q]
  BY DEF ReadExisting, Goto, STypeOK
<1>2. ASSUME TurnsInv PROVE Known(state'[p]) /\ WorkInv(p)' /\ OpenInv(p)'
  <2>1. WorkInv(p) /\ Known(state[p])
    BY <1>2 DEF TurnsInv, KnownInv
  <2>2. seq[p] \in Nat /\ snap.seq \in Nat /\ \A i \in DOMAIN wal : wal[i].seq \in Nat
    BY EventType DEF STypeOK
  <2>3. WorkInv(p)'
    BY <1>1, <2>1, <2>2 DEF WorkInv, AtWork, NoneAbove
  <2>4. OpenInv(p)'
    BY <1>1 DEF OpenInv
  <2> QED BY <1>1, <2>1, <2>3, <2>4 DEF Known
<1> QED BY <1>1, <1>2, PrivateStep DEF SharedInv, Shape

LEMMA CrashStep ==
    ASSUME STypeOK, SharedInv, NEW p \in Instances, Crash(p)
    PROVE  SharedInv'
<1>1. /\ pc'[p] = "idle" /\ ~opened'[p] /\ state'[p] = Empty /\ seq'[p] = 0
      /\ ~blind'[p]
      /\ UNCHANGED <<wal, snap, truth, raced>>
      /\ \A q \in Instances \ {p} :
            /\ pc'[q] = pc[q] /\ state'[q] = state[q] /\ seq'[q] = seq[q]
            /\ opened'[q] = opened[q] /\ existing'[q] = existing[q]
            /\ stale'[q] = stale[q] /\ blind'[q] = blind[q]
  BY DEF Crash, Goto, STypeOK
<1>2. ASSUME TurnsInv PROVE Known(state'[p]) /\ WorkInv(p)' /\ OpenInv(p)'
  <2>1. Known(Empty)
    BY DEF Known, Empty
  <2>2. WorkInv(p)'
    BY <1>1 DEF WorkInv, AtWork
  <2>3. ~snap.there => Rebuilt(p)' = truth'
    BY <1>1, <1>2 DEF SharedInv, Shape, TurnsInv, OnDisk, Rebuilt, NoSnapshot
  <2>4. Accounted(seq[p])'
    BY <1>1 DEF Accounted, STypeOK
  <2> QED BY <1>1, <2>1, <2>2, <2>3, <2>4 DEF OpenInv
<1> QED BY <1>1, <1>2, PrivateStep DEF SharedInv, Shape

-----------------------------------------------------------------------------
(* Steps that write a file.                                                *)

\* Whoever writes in turn is not overtaken, and everybody else is at rest or
\* opening.
LEMMA InTurn ==
    ASSUME STypeOK, SharedInv, NEW p \in Instances, Races(p), ~raced'
    PROVE  /\ TurnsInv /\ ~stale[p]
           /\ \A q \in Instances \ {p} : pc[q] \in {"idle", "load", "read"}
<1>1. ~raced /\ ~stale[p] /\ \A q \in Instances \ {p} : ~Writing(q)
  BY DEF Races
<1>2. \A q \in Instances : pc[q] \in {"idle", "load", "read"} \/ Writing(q)
  BY DEF STypeOK, Writing
<1> QED BY <1>1, <1>2 DEF SharedInv

\* An event that becomes the last line of the log.
LEMMA AppendStep ==
    ASSUME STypeOK, STypeOK', SharedInv, NEW p \in Instances, Races(p), ~raced',
           NEW e \in Event, e.op = "upsert" => e.value # "absent",
           wal' = Append(wal, e), truth' = Applied(truth, e),
           e.seq = seq[p], snap.seq < seq[p], \A i \in DOMAIN wal : wal[i].seq < seq[p],
           state[p] = truth, state'[p] = truth', pc'[p] \in {"idle", "snapshot"},
           stale' = [q \in Instances |-> IF q = p THEN stale[q] ELSE TRUE],
           UNCHANGED <<snap, opened, seq, blind>>,
           \A q \in Instances \ {p} : pc'[q] = pc[q] /\ state'[q] = state[q]
    PROVE  TurnsInv'
<1>1. TurnsInv /\ ~stale[p] /\ \A q \in Instances \ {p} : pc[q] \in {"idle", "load", "read"}
  BY InTurn
<1>2. /\ Len(wal) \in Nat /\ DOMAIN wal = 1..Len(wal) /\ DOMAIN wal' = 1..(Len(wal) + 1)
      /\ wal'[Len(wal) + 1] = e /\ \A i \in DOMAIN wal : wal'[i] = wal[i]
      /\ wal \in Seq(Event) /\ wal' \in Seq(Event)
  BY DEF STypeOK
<1>3. seq[p] \in Nat /\ snap.seq \in Nat /\ \A i \in DOMAIN wal : wal[i].seq \in Nat
  BY <1>2, EventType DEF STypeOK
<1>4. ASSUME NEW m \in [Ids -> Cell], NEW n \in Nat, n < e.seq, ReplayedAll(wal, m, n) = truth
      PROVE  ReplayedAll(wal', m, n) = truth'
  BY <1>2, <1>4, ReplayAppend
<1>5. OnDisk' = truth'
  <2>1. snap.records \in [Ids -> Cell] /\ ReplayedAll(wal, snap.records, snap.seq) = truth
    BY <1>1 DEF STypeOK, TurnsInv, OnDisk
  <2> QED BY <1>3, <1>4, <2>1 DEF OnDisk
<1>6. WalIncreases'
  <2> SUFFICES ASSUME NEW i \in 1..(Len(wal) + 1), NEW j \in 1..(Len(wal) + 1), i < j
               PROVE  wal'[i].seq < wal'[j].seq
    BY <1>2 DEF WalIncreases
  <2>1. i \in DOMAIN wal
    BY <1>2
  <2>2. CASE j \in DOMAIN wal
    BY <1>1, <1>2, <2>1, <2>2 DEF TurnsInv, WalIncreases
  <2>3. CASE j = Len(wal) + 1
    BY <1>2, <2>1, <2>3
  <2> QED BY <1>2, <2>2, <2>3
<1>7. truth \in [Ids -> Cell] /\ \A id \in Ids : truth[id] # "absent" => truth'[id] # "absent"
  BY DEF STypeOK, Applied
<1>8. KnownInv'
  <2>1. \A i \in DOMAIN wal : wal[i].op = "upsert" => wal[i].id \in Ids
    BY <1>2, EventType
  <2>2. e.op = "upsert" => e.id \in Ids /\ truth'[e.id] # "absent"
    BY <1>7 DEF Event, Applied
  <2>3. \A i \in DOMAIN wal' : wal'[i].op = "upsert" => truth'[wal'[i].id] # "absent"
    <3> SUFFICES ASSUME NEW i \in 1..(Len(wal) + 1), wal'[i].op = "upsert"
                 PROVE  truth'[wal'[i].id] # "absent"
      BY <1>2
    <3>1. CASE i \in DOMAIN wal
      BY <1>1, <1>2, <1>7, <2>1, <3>1 DEF TurnsInv, KnownInv
    <3>2. CASE i = Len(wal) + 1
      BY <1>2, <2>2, <3>2
    <3> QED BY <1>2, <3>1, <3>2
  <2>4. Known(snap.records)' /\ \A q \in Instances : Known(state[q])'
    BY <1>1, <1>7 DEF TurnsInv, KnownInv, Known
  <2> QED BY <2>3, <2>4 DEF KnownInv
<1>9. NoneAbove(wal', seq[p]) /\ \E i \in DOMAIN wal' : seq[p] <= wal'[i].seq
  BY <1>2, <1>3 DEF NoneAbove
<1>10. WorkInv(p)' /\ OpenInv(p)'
  <2>1. ReplayedAll(wal', state'[p], seq'[p]) = state'[p]
    <3>1. state'[p] \in [Ids -> Cell]
      BY DEF STypeOK
    <3> QED BY <1>2, <1>3, <1>9, <3>1, NothingToReplay
  <2>2. Rebuilt(p)' = truth' /\ Accounted(seq[p])'
    BY <1>9, <2>1 DEF Rebuilt, Accounted
  <2>3. OpenInv(p)'
    BY <2>2 DEF OpenInv
  <2>4. WorkInv(p)'
    BY <1>3, <1>9 DEF WorkInv
  <2> QED BY <2>3, <2>4
<1>11. ASSUME NEW q \in Instances \ {p} PROVE WorkInv(q)' /\ OpenInv(q)'
  <2>1. OpenInv(q) /\ pc[q] \in {"idle", "load", "read"} /\ stale'[q]
    BY <1>1, <1>11 DEF TurnsInv
  <2>2. WorkInv(q)'
    BY <1>11, <2>1 DEF WorkInv, AtWork
  <2>3. seq[q] \in Nat /\ state[q] \in [Ids -> Cell]
    BY <1>11 DEF STypeOK
  <2>4. Accounted(seq[q])
    BY <2>1 DEF OpenInv
  <2>5. seq[q] < e.seq
    BY <1>3, <2>3, <2>4 DEF Accounted
  <2>6. Rebuilt(q) = truth => Rebuilt(q)' = truth'
    BY <1>4, <1>11, <2>3, <2>5 DEF Rebuilt
  <2>7. Accounted(seq[q])'
    BY <1>2, <2>4 DEF Accounted
  <2>8. OpenInv(q)'
    BY <1>11, <2>1, <2>6, <2>7 DEF OpenInv
  <2> QED BY <2>2, <2>8
<1> QED BY <1>5, <1>6, <1>8, <1>10, <1>11 DEF TurnsInv

LEMMA RenameStep ==
    ASSUME STypeOK, STypeOK', SharedInv, NEW p \in Instances, Rename(p)
    PROVE  SharedInv'
<1> DEFINE e == Line(seq[p], req[p])
<1>1. /\ pc[p] = "rename" /\ pc'[p] \in {"idle", "snapshot"}
      /\ wal' = Append(existing[p], e) /\ truth' = Applied(truth, e)
      /\ state'[p] = Applied(state[p], e)
      /\ UNCHANGED <<snap, opened, seq, blind>>
      /\ Overtakes(p) /\ Races(p)
      /\ \A q \in Instances \ {p} : pc'[q] = pc[q] /\ state'[q] = state[q]
  BY DEF Rename, Goto, STypeOK
<1>2. Shape'
  <2>1. \A q \in Instances : blind[q] => stale'[q]
    BY <1>1 DEF Overtakes, SharedInv, Shape, STypeOK
  <2> QED BY <1>1, <2>1 DEF SharedInv, Shape
<1>3. ASSUME ~raced' PROVE TurnsInv'
  <2>1. TurnsInv /\ ~stale[p]
    BY <1>1, <1>3, InTurn
  <2>2. WorkInv(p)
    BY <2>1 DEF TurnsInv
  <2>3. req[p] \in Upserts \cup Deletes /\ req[p] \in WriteCalls
    BY <1>1 DEF STypeOK, WriteCalls
  <2>4. e \in Event
    BY <2>3, LineType DEF STypeOK
  <2>5. e.seq = seq[p] /\ (e.op = "upsert" => e.value # "absent")
    BY <2>3, SharedAssumption DEF Line, Upserts, Deletes
  <2>6. /\ state[p] = truth /\ existing[p] = wal /\ snap.seq < seq[p]
        /\ \A i \in DOMAIN wal : wal[i].seq < seq[p]
    BY <1>1, <2>1, <2>2 DEF WorkInv
  <2>7. wal' = Append(wal, e) /\ state'[p] = truth'
    BY <1>1, <2>6
  <2> HIDE DEF e
  <2> QED BY <1>1, <1>3, <2>4, <2>5, <2>6, <2>7, AppendStep DEF Overtakes
<1> QED BY <1>2, <1>3 DEF SharedInv

LEMMA SentinelStep ==
    ASSUME STypeOK, STypeOK', SharedInv, NEW p \in Instances, WriteSentinel(p)
    PROVE  SharedInv'
<1> DEFINE e == Line(seq[p], CompactCall)
<1>1. /\ pc[p] = "sentinel" /\ pc'[p] = "idle" /\ wal' = <<e>>
      /\ UNCHANGED <<snap, opened, state, seq, truth, blind>>
      /\ Overtakes(p) /\ Races(p)
      /\ \A q \in Instances \ {p} : pc'[q] = pc[q]
  BY DEF WriteSentinel, Goto, STypeOK
<1>2. Shape'
  <2>1. \A q \in Instances : blind[q] => stale'[q]
    BY <1>1 DEF Overtakes, SharedInv, Shape, STypeOK
  <2> QED BY <1>1, <2>1 DEF SharedInv, Shape
<1>3. ASSUME ~raced' PROVE TurnsInv'
  <2>1. TurnsInv /\ ~stale[p]
    BY <1>1, <1>3, InTurn
  <2>2. state[p] = truth /\ wal = <<>> /\ snap.seq < seq[p]
    BY <1>1, <2>1 DEF TurnsInv, WorkInv
  <2>3. e \in Event
    BY LineType DEF STypeOK, WriteCalls
  <2>4. e.op = "compact" /\ e.seq = seq[p]
    BY DEF Line, CompactCall
  <2>5. wal' = Append(wal, e) /\ truth' = Applied(truth, e)
    BY <1>1, <2>2, <2>4 DEF Applied
  <2>6. (\A i \in DOMAIN wal : wal[i].seq < seq[p]) /\ state'[p] = truth'
    BY <1>1, <2>2
  <2> HIDE DEF e
  <2> QED BY <1>1, <1>3, <2>2, <2>3, <2>4, <2>5, <2>6, AppendStep DEF Overtakes
<1> QED BY <1>2, <1>3 DEF SharedInv

\* A snapshot by an instance that is at work holds what the log says.
LEMMA SnapshotStep ==
    ASSUME STypeOK, STypeOK', SharedInv, NEW p \in Instances,
           pc[p] \in {"snapshot", "close", "compact"}, WriteSnapshot(p),
           pc'[p] = "truncate" \/ (pc'[p] = "idle" /\ opened'[p] \in BOOLEAN),
           UNCHANGED <<wal, state, seq, existing, truth, stale, blind>>,
           \A q \in Instances \ {p} : pc'[q] = pc[q] /\ opened'[q] = opened[q]
    PROVE  SharedInv'
<1>1. /\ snap'.there /\ snap'.seq = seq[p] /\ snap'.records = state[p] /\ Races(p)
  BY DEF WriteSnapshot
<1>2. Shape'
  BY <1>1 DEF SharedInv, Shape
<1>3. ASSUME ~raced' PROVE TurnsInv'
  <2>1. TurnsInv /\ ~stale[p] /\ \A q \in Instances \ {p} : pc[q] \in {"idle", "load", "read"}
    BY <1>1, <1>3, InTurn
  <2>2. /\ state[p] = truth /\ NoneAbove(wal, seq[p]) /\ snap.seq <= seq[p]
        /\ Accounted(seq[p])
    BY <2>1 DEF TurnsInv, WorkInv, AtWork, OpenInv
  <2>3. /\ snap.seq \in Nat /\ \A q \in Instances : seq[q] \in Nat
        /\ \A i \in DOMAIN wal : wal[i].seq \in Nat
    BY EventType DEF STypeOK
  <2>4. OnDisk' = truth'
    <3>1. ReplayedAll(wal, truth, seq[p]) = truth
      BY <2>2, NothingToReplay DEF STypeOK
    <3> QED BY <1>1, <2>2, <3>1 DEF OnDisk
  <2>5. KnownInv' /\ WalIncreases'
    BY <1>1, <2>1, <2>2 DEF TurnsInv, KnownInv, Known, WalIncreases
  <2>6. ASSUME NEW q \in Instances PROVE Accounted(seq[q]) => Accounted(seq[q])'
    BY <1>1, <2>2, <2>3 DEF Accounted
  <2>7. WorkInv(p)' /\ OpenInv(p)'
    BY <1>1, <2>2, <2>3, <2>6 DEF WorkInv, AtWork, OpenInv, NoneAbove
  <2>8. ASSUME NEW q \in Instances \ {p} PROVE WorkInv(q)' /\ OpenInv(q)'
    <3>1. WorkInv(q) /\ OpenInv(q) /\ pc[q] \in {"idle", "load", "read"}
      BY <2>1, <2>8 DEF TurnsInv
    <3>2. snap'.seq <= snap.seq \/ \E i \in DOMAIN wal : snap'.seq <= wal[i].seq
      BY <1>1, <2>2 DEF Accounted
    <3>3. WorkInv(q)'
      <4>1. AtWork(q) => snap'.seq <= seq[q]
        BY <1>1, <2>3, <2>8, <3>1, <3>2 DEF WorkInv, NoneAbove, STypeOK
      <4>2. AtWork(q)' => AtWork(q)
        BY <2>8 DEF AtWork
      <4> QED BY <2>8, <3>1, <4>1, <4>2 DEF WorkInv, NoneAbove
    <3>4. (pc[q] = "read" /\ ~stale[q]) =>
              snap'.seq <= seq[q] \/ \E i \in DOMAIN wal : snap'.seq <= wal[i].seq
      BY <1>1, <2>3, <2>8, <3>1, <3>2 DEF OpenInv
    <3>5. OpenInv(q)'
      BY <1>1, <2>6, <2>8, <3>1, <3>4 DEF OpenInv, Rebuilt
    <3> QED BY <3>3, <3>5
  <2> QED BY <2>4, <2>5, <2>7, <2>8 DEF TurnsInv
<1> QED BY <1>2, <1>3 DEF SharedInv

\* Emptying the log loses nothing, as the snapshot has all of it; an instance
\* between its two reads is left with what the old snapshot had.
LEMMA TruncateStep ==
    ASSUME STypeOK, STypeOK', SharedInv, NEW p \in Instances, Truncate(p)
    PROVE  SharedInv'
<1>1. /\ pc[p] = "truncate" /\ pc'[p] = "sentinel" /\ wal' = <<>> /\ seq'[p] = seq[p] + 1
      /\ UNCHANGED <<snap, opened, state, truth>>
      /\ Overtakes(p) /\ Races(p) /\ snap.there
      /\ blind' = [q \in Instances |-> blind[q] \/ (q # p /\ pc[q] = "read")]
      /\ \A q \in Instances \ {p} : pc'[q] = pc[q] /\ seq'[q] = seq[q]
  BY DEF Truncate, Goto, STypeOK, SharedInv, Shape
<1>2. Shape'
  <2>1. \A q \in Instances : blind'[q] => stale'[q]
    BY <1>1 DEF Overtakes, SharedInv, Shape
  <2> QED BY <1>1, <2>1 DEF SharedInv, Shape
<1>3. ASSUME ~raced' PROVE TurnsInv'
  <2>1. TurnsInv /\ ~stale[p] /\ \A q \in Instances \ {p} : pc[q] \in {"idle", "load", "read"}
    BY <1>1, <1>3, InTurn
  <2>2. state[p] = truth /\ NoneAbove(wal, seq[p]) /\ snap.seq = seq[p]
    BY <1>1, <2>1 DEF TurnsInv, WorkInv
  <2>3. /\ \A q \in Instances : seq[q] \in Nat
        /\ \A i \in DOMAIN wal : wal[i].seq \in Nat
    BY EventType DEF STypeOK
  <2>4. snap.records = truth
    <3>1. ReplayedAll(wal, snap.records, snap.seq) = snap.records
      BY <2>2, NothingToReplay DEF STypeOK
    <3> QED BY <2>1, <3>1 DEF TurnsInv, OnDisk
  <2>5. OnDisk' = truth'
    <3>1. ReplayedAll(<<>>, truth, snap.seq) = truth
      <4>1. <<>> \in Seq(Event) /\ NoneAbove(<<>>, snap.seq)
        BY DEF NoneAbove
      <4> QED BY <4>1, NothingToReplay DEF STypeOK
    <3> QED BY <1>1, <2>4, <3>1 DEF OnDisk
  <2>6. KnownInv' /\ WalIncreases'
    BY <1>1, <2>1 DEF TurnsInv, KnownInv, Known, WalIncreases
  <2>7. WorkInv(p)' /\ OpenInv(p)'
    BY <1>1, <2>2, <2>3 DEF WorkInv, AtWork, OpenInv
  <2>8. ASSUME NEW q \in Instances \ {p} PROVE WorkInv(q)' /\ OpenInv(q)'
    <3>1. OpenInv(q) /\ pc'[q] \in {"idle", "load", "read"} /\ stale'[q]
      BY <1>1, <2>1, <2>8 DEF TurnsInv, Overtakes
    <3>2. pc'[q] = "read" => blind'[q]
      BY <1>1, <2>8
    <3>3. Accounted(seq[q])
      BY <1>1, <2>1, <2>8, <3>1 DEF OpenInv
    <3>4. Accounted(seq[q])'
      BY <1>1, <2>2, <2>3, <2>8, <3>3 DEF Accounted, NoneAbove
    <3> QED BY <1>1, <3>1, <3>2, <3>4 DEF WorkInv, AtWork, OpenInv
  <2> QED BY <2>5, <2>6, <2>7, <2>8 DEF TurnsInv
<1> QED BY <1>2, <1>3 DEF SharedInv

LEMMA SharedInvStep == STypeOK /\ STypeOK' /\ SharedInv /\ [SNext]_svars => SharedInv'
<1> SUFFICES ASSUME STypeOK, STypeOK', SharedInv, [SNext]_svars PROVE SharedInv'
  OBVIOUS
<1>1. ASSUME NEW p \in Instances, Open(p) \/ Write(p) PROVE SharedInv'
  BY <1>1, BeginStep DEF Open, Write
<1>2. ASSUME NEW p \in Instances, UpsertSnapshot(p) \/ CloseSnapshot(p) \/ CompactSnapshot(p)
      PROVE  SharedInv'
  <2>1. /\ pc[p] \in {"snapshot", "close", "compact"} /\ WriteSnapshot(p)
        /\ UNCHANGED <<wal, state, seq, existing, truth, stale, blind>>
    BY <1>2 DEF UpsertSnapshot, CloseSnapshot, CompactSnapshot, memory
  <2>2. /\ pc'[p] = "truncate" \/ (pc'[p] = "idle" /\ opened'[p] \in BOOLEAN)
        /\ \A q \in Instances \ {p} : pc'[q] = pc[q] /\ opened'[q] = opened[q]
    BY <1>2 DEF UpsertSnapshot, CloseSnapshot, CompactSnapshot, Goto, memory, STypeOK
  <2> QED BY <2>1, <2>2, SnapshotStep
<1>3. CASE UNCHANGED svars
  <2>1. Shape'
    BY <1>3 DEF svars, memory, SharedInv, Shape
  <2>2. ASSUME TurnsInv PROVE TurnsInv'
    <3>1. \A p \in Instances : WorkInv(p)' /\ OpenInv(p)'
      BY <1>3, <2>2 DEF svars, memory, TurnsInv, WorkInv, AtWork, OpenInv, Rebuilt, Accounted,
                        NoneAbove
    <3> QED BY <1>3, <2>2, <3>1 DEF svars, memory, TurnsInv, OnDisk, KnownInv, Known, WalIncreases
  <2> QED BY <1>3, <2>1, <2>2 DEF svars, SharedInv
<1> QED BY <1>1, <1>2, <1>3, CloseStep, LoadStep, ReplayStep, ReadStep, RenameStep, TruncateStep,
           SentinelStep, CrashStep DEF SNext, SStep

LEMMA SharedInvariant == SSpec => [](STypeOK /\ SharedInv)
<1>1. SInit => STypeOK /\ SharedInv
  BY SharedTypeInit, SharedInvInit
<1>2. STypeOK /\ SharedInv /\ [SNext]_svars => (STypeOK /\ SharedInv)'
  BY SharedTypeStep, SharedInvStep
<1> QED BY <1>1, <1>2, PTL DEF SSpec

-----------------------------------------------------------------------------
(* The theorems.                                                           *)

\* Writers that take turns lose nothing, whatever readers do meanwhile and
\* wherever a process dies (upsert, delete, compact, close in store.py).
THEOREM TurnsLoseNothing == SSpec => []WritesSurvive
<1>1. SharedInv => WritesSurvive
  BY DEF SharedInv, TurnsInv, WritesSurvive
<1> QED BY <1>1, SharedInvariant, PTL

\* Until another instance writes, an open store answers with what is on disk,
\* and its next event is numbered past all of it.
THEOREM OpenStoresAreCurrent == SSpec => []CurrentUntilOvertaken
<1>1. SharedInv => CurrentUntilOvertaken
  BY DEF SharedInv, TurnsInv, WorkInv, AtWork, NoneAbove, CurrentUntilOvertaken
<1> QED BY <1>1, SharedInvariant, PTL

\* open() between the steps of a writer gives the records of the moment at
\* which the log is read, unless a compaction empties it in between.
THEOREM OpeningSeesNow == SSpec => OpenSeesNow
<1> DEFINE Sees(p) == (pc[p] = "read" /\ opened'[p] /\ pc'[p] # "read" /\ ~raced /\ ~blind[p])
                          => state'[p] = truth
<1>1. ASSUME STypeOK, SharedInv, [SNext]_svars PROVE [\A p \in Instances : Sees(p)]_svars
  <2> SUFFICES ASSUME NEW p \in Instances, SNext, pc[p] = "read", opened'[p], pc'[p] # "read",
                      ~raced, ~blind[p]
               PROVE  state'[p] = truth
    BY <1>1
  <2>1. PICK q \in Instances : SStep(q)
    BY DEF SNext
  <2>2. CASE q # p
    <3>1. pc'[p] = pc[p]
      BY <1>1, <2>1, <2>2 DEF STypeOK, SStep, Open, Write, Begin, Close, LoadSnapshot, ReplayWal,
           ReadExisting, Rename, UpsertSnapshot, CloseSnapshot, CompactSnapshot, Truncate,
           WriteSentinel, Crash, Goto
    <3> QED BY <3>1
  <2>3. CASE q = p /\ ReplayWal(p)
    <3>1. state'[p] = Rebuilt(p)
      BY <1>1, <2>3 DEF ReplayWal, Rebuilt, STypeOK
    <3> QED BY <1>1, <3>1 DEF SharedInv, TurnsInv, OpenInv
  <2>4. CASE q = p /\ Crash(p)
    BY <1>1, <2>4 DEF Crash, STypeOK
  <2> QED BY <2>1, <2>2, <2>3, <2>4 DEF SStep, Open, Write, Begin, Close, LoadSnapshot,
           ReadExisting, Rename, UpsertSnapshot, CloseSnapshot, CompactSnapshot, Truncate,
           WriteSentinel
<1> QED BY <1>1, SharedInvariant, PTL DEF SSpec, OpenSeesNow

-----------------------------------------------------------------------------
(* Readers.  store.py:158 promises concurrent readers a consistent         *)
(* snapshot, and a compaction between the two reads of an opening breaks   *)
(* that (ReadersAreConsistent).  Nothing else does.                        *)

\* Something on disk has a greater number than n.
Passed(n) == n < snap.seq \/ \E i \in DOMAIN wal : n < wal[i].seq

\* A reader that has missed no compaction has the records of now, or a number
\* that shows that it has not.
ReaderInv(p) ==
    (opened[p] /\ pc[p] = "idle" /\ ~blind[p]) => state[p] = truth \/ Passed(seq[p])

\* A log that is not empty is as new as the snapshot.
SnapshotIsCovered == wal # <<>> => snap.seq <= wal[Len(wal)].seq

ReadersInv == ~raced => SnapshotIsCovered /\ \A p \in Instances : ReaderInv(p)

LEMMA ReadersInit == SInit => ReadersInv
BY DEF SInit, ReadersInv, ReaderInv, SnapshotIsCovered

\* A line that p appends: whoever had all of the log has now been passed.
LEMMA ReadersAppend ==
    ASSUME STypeOK, STypeOK', TurnsInv, TurnsInv', \A q \in Instances : ReaderInv(q),
           NEW p \in Instances, pc[p] \in {"rename", "sentinel"}, ~stale[p], ~stale'[p],
           pc'[p] \in {"idle", "snapshot"},
           NEW e \in Event, e.seq = seq[p], wal' = Append(wal, e),
           snap.seq < seq[p], \A i \in DOMAIN wal : wal[i].seq < seq[p],
           UNCHANGED <<snap, opened, seq, blind>>,
           \A q \in Instances \ {p} : pc'[q] = pc[q] /\ state'[q] = state[q]
    PROVE  SnapshotIsCovered' /\ \A q \in Instances : ReaderInv(q)'
<1>1. /\ Len(wal) \in Nat /\ DOMAIN wal' = 1..(Len(wal) + 1) /\ Len(wal') = Len(wal) + 1
      /\ wal'[Len(wal) + 1] = e
  BY DEF STypeOK
<1>2. /\ snap.seq \in Nat /\ \A q \in Instances : seq[q] \in Nat
      /\ \A i \in DOMAIN wal : wal[i].seq \in Nat
  BY EventType DEF STypeOK
<1>3. SnapshotIsCovered'
  BY <1>1, <1>2 DEF SnapshotIsCovered
<1>4. ReaderInv(p)'
  BY DEF TurnsInv, WorkInv, AtWork, ReaderInv
<1>5. ASSUME NEW q \in Instances \ {p}, (opened[q] /\ pc[q] = "idle" /\ ~blind[q])' PROVE Passed(seq[q])'
  <2>1. Accounted(seq[q])
    BY <1>5 DEF TurnsInv, OpenInv
  <2>2. seq[q] < e.seq
    BY <1>2, <1>5, <2>1 DEF Accounted
  <2> QED BY <1>1, <1>5, <2>2 DEF Passed
<1> QED BY <1>3, <1>4, <1>5 DEF ReaderInv

\* A snapshot by p: no number goes back, and nobody's records change.
LEMMA ReadersSnapshot ==
    ASSUME STypeOK, STypeOK', TurnsInv, ReadersInv, ~raced, NEW p \in Instances, ~stale[p],
           pc[p] \in {"snapshot", "close", "compact"}, WriteSnapshot(p),
           UNCHANGED <<wal, state, seq, truth, blind>>,
           pc'[p] = "truncate" \/ (pc'[p] = "idle" /\ opened'[p] \in BOOLEAN),
           \A q \in Instances \ {p} : pc'[q] = pc[q] /\ opened'[q] = opened[q]
    PROVE  SnapshotIsCovered' /\ \A q \in Instances : ReaderInv(q)'
<1>1. snap'.seq = seq[p] /\ state[p] = truth /\ snap.seq <= seq[p] /\ Accounted(seq[p])
  BY DEF WriteSnapshot, TurnsInv, WorkInv, AtWork, OpenInv
<1>2. /\ snap.seq \in Nat /\ \A q \in Instances : seq[q] \in Nat
      /\ \A i \in DOMAIN wal : wal[i].seq \in Nat
      /\ Len(wal) \in Nat /\ DOMAIN wal = 1..Len(wal) /\ (wal # <<>> => Len(wal) \in DOMAIN wal)
  BY EventType DEF STypeOK
<1>3. \A i \in DOMAIN wal : wal[i].seq <= wal[Len(wal)].seq
  BY <1>2 DEF TurnsInv, WalIncreases
<1>4. SnapshotIsCovered'
  <2> SUFFICES ASSUME wal # <<>> PROVE seq[p] <= wal[Len(wal)].seq
    BY <1>1 DEF SnapshotIsCovered
  <2>1. snap.seq <= wal[Len(wal)].seq
    BY DEF ReadersInv, SnapshotIsCovered
  <2>2. wal[Len(wal)].seq \in Nat
    BY <1>2
  <2> QED BY <1>1, <1>2, <1>3, <2>1, <2>2 DEF Accounted
<1>5. ASSUME NEW q \in Instances, Passed(seq[q]) PROVE Passed(seq[q])'
  BY <1>1, <1>2, <1>5 DEF Passed
<1>6. ReaderInv(p)'
  BY <1>1 DEF ReaderInv
<1>7. ASSUME NEW q \in Instances \ {p} PROVE ReaderInv(q)'
  <2>1. ReaderInv(q)
    BY DEF ReadersInv
  <2> QED BY <1>5, <1>7, <2>1 DEF ReaderInv
<1> QED BY <1>4, <1>6, <1>7

LEMMA ReadersStep ==
    STypeOK /\ STypeOK' /\ SharedInv /\ SharedInv' /\ ReadersInv /\ [SNext]_svars => ReadersInv'
<1> SUFFICES ASSUME STypeOK, STypeOK', SharedInv, SharedInv', ReadersInv, [SNext]_svars, ~raced'
             PROVE  SnapshotIsCovered' /\ \A p \in Instances : ReaderInv(p)'
  BY DEF ReadersInv
<1>1. ASSUME NEW p \in Instances, SStep(p) PROVE ~raced
  BY <1>1 DEF SStep, Open, Write, Begin, Close, LoadSnapshot, ReplayWal, ReadExisting, Rename,
     UpsertSnapshot, CloseSnapshot, CompactSnapshot, WriteSnapshot, Truncate, WriteSentinel,
     Crash, Races
<1>2. ~raced /\ TurnsInv /\ TurnsInv' /\ SnapshotIsCovered /\ \A p \in Instances : ReaderInv(p)
  BY <1>1 DEF SNext, SharedInv, ReadersInv, svars
<1>3. ASSUME NEW p \in Instances, UNCHANGED <<wal, snap, truth>>,
             \A q \in Instances \ {p} :
                /\ opened'[q] = opened[q] /\ state'[q] = state[q] /\ seq'[q] = seq[q]
                /\ pc'[q] = pc[q] /\ blind'[q] = blind[q],
             ReaderInv(p)'
      PROVE  SnapshotIsCovered' /\ \A q \in Instances : ReaderInv(q)'
  BY <1>2, <1>3 DEF SnapshotIsCovered, ReaderInv, Passed
<1>4. ASSUME NEW p \in Instances,
             Open(p) \/ Write(p) \/ Close(p) \/ LoadSnapshot(p) \/ ReadExisting(p) \/ Crash(p)
      PROVE  SnapshotIsCovered' /\ \A q \in Instances : ReaderInv(q)'
  <2>1. \A c : FirstStep(c) = "idle" => c.op = "open"
    BY DEF FirstStep
  <2>2. ~(opened'[p] /\ pc'[p] = "idle")
    BY <1>4, <2>1 DEF STypeOK, Open, Write, Begin, Close, LoadSnapshot, ReadExisting, Crash, Goto
  <2>3. UNCHANGED <<wal, snap, truth>>
    BY <1>4 DEF Open, Write, Begin, Close, LoadSnapshot, ReadExisting, Crash
  <2>4. ASSUME NEW q \in Instances \ {p}
        PROVE  /\ opened'[q] = opened[q] /\ state'[q] = state[q] /\ seq'[q] = seq[q]
               /\ pc'[q] = pc[q] /\ blind'[q] = blind[q]
    BY <1>4, <2>4 DEF STypeOK, Open, Write, Begin, Close, LoadSnapshot, ReadExisting, Crash, Goto,
       memory
  <2> QED BY <1>3, <2>2, <2>3, <2>4 DEF ReaderInv
<1>5. ASSUME NEW p \in Instances, ReplayWal(p)
      PROVE  SnapshotIsCovered' /\ \A q \in Instances : ReaderInv(q)'
  <2>1. /\ pc[p] = "read" /\ state'[p] = Rebuilt(p) /\ UNCHANGED <<wal, snap, truth, blind>>
        /\ \A q \in Instances \ {p} :
              opened'[q] = opened[q] /\ state'[q] = state[q] /\ seq'[q] = seq[q] /\ pc'[q] = pc[q]
    BY <1>5 DEF ReplayWal, Rebuilt, Goto, STypeOK
  <2>2. ~blind[p] => state'[p] = truth
    BY <1>2, <2>1 DEF TurnsInv, OpenInv
  <2> QED BY <1>3, <2>1, <2>2 DEF ReaderInv
<1>6. ASSUME NEW p \in Instances, Rename(p)
      PROVE  SnapshotIsCovered' /\ \A q \in Instances : ReaderInv(q)'
  <2> DEFINE e == Line(seq[p], req[p])
  <2>1. /\ pc[p] = "rename" /\ pc'[p] \in {"idle", "snapshot"} /\ wal' = Append(existing[p], e)
        /\ UNCHANGED <<snap, opened, seq, blind>> /\ Races(p) /\ stale'[p] = stale[p]
        /\ \A q \in Instances \ {p} : pc'[q] = pc[q] /\ state'[q] = state[q]
    BY <1>6 DEF Rename, Overtakes, Goto, STypeOK
  <2>2. ~stale[p]
    BY <2>1, InTurn
  <2>3. existing[p] = wal /\ snap.seq < seq[p] /\ \A i \in DOMAIN wal : wal[i].seq < seq[p]
    BY <1>2, <2>1, <2>2 DEF TurnsInv, WorkInv
  <2>4. e \in Event /\ e.seq = seq[p]
    <3>1. req[p] \in WriteCalls /\ seq[p] \in Nat
      BY <2>1 DEF STypeOK, WriteCalls
    <3> QED BY <3>1, LineType DEF Line
  <2> HIDE DEF e
  <2> QED BY <1>2, <2>1, <2>2, <2>3, <2>4, ReadersAppend
<1>7. ASSUME NEW p \in Instances, WriteSentinel(p)
      PROVE  SnapshotIsCovered' /\ \A q \in Instances : ReaderInv(q)'
  <2> DEFINE e == Line(seq[p], CompactCall)
  <2>1. /\ pc[p] = "sentinel" /\ pc'[p] = "idle" /\ wal' = <<e>>
        /\ UNCHANGED <<snap, opened, state, seq, blind>> /\ Races(p) /\ stale'[p] = stale[p]
        /\ \A q \in Instances \ {p} : pc'[q] = pc[q]
    BY <1>7 DEF WriteSentinel, Overtakes, Goto, STypeOK
  <2>2. ~stale[p]
    BY <2>1, InTurn
  <2>3. wal = <<>> /\ snap.seq < seq[p]
    BY <1>2, <2>1, <2>2 DEF TurnsInv, WorkInv
  <2>4. e \in Event /\ e.seq = seq[p]
    BY LineType DEF STypeOK, WriteCalls, Line
  <2>5. wal' = Append(wal, e) /\ \A i \in DOMAIN wal : wal[i].seq < seq[p]
    BY <2>1, <2>3
  <2> HIDE DEF e
  <2> QED BY <1>2, <2>1, <2>2, <2>3, <2>4, <2>5, ReadersAppend
<1>8. ASSUME NEW p \in Instances, UpsertSnapshot(p) \/ CloseSnapshot(p) \/ CompactSnapshot(p)
      PROVE  SnapshotIsCovered' /\ \A q \in Instances : ReaderInv(q)'
  <2>1. /\ pc[p] \in {"snapshot", "close", "compact"} /\ WriteSnapshot(p)
        /\ UNCHANGED <<wal, state, seq, truth, blind>>
    BY <1>8 DEF UpsertSnapshot, CloseSnapshot, CompactSnapshot, memory
  <2>2. /\ pc'[p] = "truncate" \/ (pc'[p] = "idle" /\ opened'[p] \in BOOLEAN)
        /\ \A q \in Instances \ {p} : pc'[q] = pc[q] /\ opened'[q] = opened[q]
    BY <1>8 DEF UpsertSnapshot, CloseSnapshot, CompactSnapshot, Goto, memory, STypeOK
  <2>3. ~stale[p]
    BY <2>1, InTurn DEF WriteSnapshot
  <2> QED BY <1>2, <2>1, <2>2, <2>3, ReadersSnapshot
<1>9. ASSUME NEW p \in Instances, Truncate(p)
      PROVE  SnapshotIsCovered' /\ \A q \in Instances : ReaderInv(q)'
  <2>1. /\ pc[p] = "truncate" /\ pc'[p] = "sentinel" /\ wal' = <<>>
        /\ UNCHANGED <<snap, opened, state, truth>> /\ Races(p)
        /\ \A q \in Instances : blind[q] => blind'[q]
        /\ \A q \in Instances \ {p} : pc'[q] = pc[q] /\ seq'[q] = seq[q]
    BY <1>9 DEF Truncate, Goto, STypeOK
  <2>2. ~stale[p]
    BY <2>1, InTurn
  <2>3. NoneAbove(wal, seq[p]) /\ snap.seq = seq[p]
    BY <1>2, <2>1, <2>2 DEF TurnsInv, WorkInv
  <2>4. /\ \A q \in Instances : seq[q] \in Nat
        /\ \A i \in DOMAIN wal : wal[i].seq \in Nat
    BY EventType DEF STypeOK
  <2>5. ASSUME NEW q \in Instances \ {p} PROVE ReaderInv(q)'
    <3>1. Passed(seq[q]) => Passed(seq[q])'
      BY <2>1, <2>3, <2>4, <2>5 DEF Passed, NoneAbove
    <3> QED BY <1>2, <2>1, <2>5, <3>1 DEF ReaderInv
  <2> QED BY <2>1, <2>5 DEF ReaderInv, SnapshotIsCovered
<1>10. CASE UNCHANGED svars
  BY <1>2, <1>10 DEF svars, memory, SnapshotIsCovered, ReaderInv, Passed
<1> QED BY <1>4, <1>5, <1>6, <1>7, <1>8, <1>9, <1>10 DEF SNext, SStep

\* ReadersAreConsistent where it holds: for readers of which no compaction has
\* emptied the log between the two reads of their opening.
ReadersKeepUp ==
    ~raced => \A p \in Instances :
        (opened[p] /\ pc[p] = "idle" /\ ~blind[p] /\ wal # <<>> /\ seq[p] = wal[Len(wal)].seq)
            => state[p] = truth

\* An instance whose wal_seq() is the last number in the log has the records as
\* that event left them (store.py:158), however long ago it opened and
\* whatever was written, snapshotted and compacted since: only a compaction
\* between the two reads of its opening deceives it.
THEOREM ReadersAlwaysKeepUp == SSpec => []ReadersKeepUp
<1>1. STypeOK /\ SharedInv /\ ReadersInv => ReadersKeepUp
  <2> SUFFICES ASSUME STypeOK, SharedInv, ReadersInv, ~raced, NEW p \in Instances,
                      opened[p], pc[p] = "idle", ~blind[p], wal # <<>>,
                      seq[p] = wal[Len(wal)].seq
               PROVE  state[p] = truth
    BY DEF ReadersKeepUp
  <2>1. TurnsInv /\ SnapshotIsCovered /\ ReaderInv(p)
    BY DEF SharedInv, ReadersInv
  <2>2. /\ \A i \in DOMAIN wal : wal[i].seq \in Nat
        /\ snap.seq \in Nat /\ Len(wal) \in Nat /\ DOMAIN wal = 1..Len(wal)
        /\ Len(wal) \in DOMAIN wal
    BY EventType DEF STypeOK
  <2>3. \A i \in DOMAIN wal : wal[i].seq <= wal[Len(wal)].seq
    BY <2>1, <2>2 DEF TurnsInv, WalIncreases
  <2>4. ~Passed(seq[p])
    BY <2>1, <2>2, <2>3 DEF Passed, SnapshotIsCovered
  <2> QED BY <2>1, <2>4 DEF ReaderInv
<1>2. SInit => ReadersInv
  BY ReadersInit
<1> QED BY <1>1, <1>2, ReadersStep, SharedInvariant, PTL DEF SSpec

-----------------------------------------------------------------------------
(* Several instances are one durable map.                                  *)

\* What the two files give changes by one event at a time, when the instance
\* that has it in hand renames the log.
RenamesAreAtomic ==
    [][~raced' =>
         \/ OnDisk' = OnDisk
         \/ \E p \in Instances : /\ pc[p] = "rename"
                                 /\ OnDisk' = Applied(OnDisk, Line(seq[p], req[p]))]_svars

\* Of all the file accesses of any number of instances that write in turn
\* (store.py:590-602, 342-356), the rename in _append_wal is the only one
\* that changes what a new process would read, and it changes that by exactly
\* the call it belongs to: reads, snapshots, the truncation and the sentinel of
\* a compaction, closings and crashes leave it as it is.
THEOREM SharedWritesAreAtomic == SSpec => RenamesAreAtomic
<1>1. ASSUME STypeOK, STypeOK', SharedInv, SharedInv', [SNext]_svars, ~raced'
      PROVE  \/ OnDisk' = OnDisk
             \/ \E p \in Instances : /\ pc[p] = "rename"
                                     /\ OnDisk' = Applied(OnDisk, Line(seq[p], req[p]))
  <2>1. \/ truth' = truth
        \/ \E p \in Instances : pc[p] = "rename" /\ truth' = Applied(truth, Line(seq[p], req[p]))
    BY <1>1 DEF SNext, SStep, Open, Write, Begin, Close, LoadSnapshot, ReplayWal, ReadExisting,
                Rename, UpsertSnapshot, CloseSnapshot, CompactSnapshot, Truncate, WriteSentinel,
                Crash, svars
  <2>2. ~raced
    BY <1>1 DEF SNext, SStep, Open, Write, Begin, Close, LoadSnapshot, ReplayWal, ReadExisting,
                Rename, UpsertSnapshot, CloseSnapshot, CompactSnapshot, Truncate, WriteSentinel,
                Crash, svars, WriteSnapshot, Races
  <2>3. OnDisk = truth /\ OnDisk' = truth'
    BY <1>1, <2>2 DEF SharedInv, TurnsInv
  <2> QED BY <2>1, <2>3
<1> QED BY <1>1, SharedInvariant, PTL DEF SSpec, RenamesAreAtomic
====
