---- MODULE StoreQueries ----
(***************************************************************************)
(* The reads of ChronoStore that go back to events.wal instead of the      *)
(* dictionary: ChronoStore.replay and query.what_changed_since on it.      *)
(***************************************************************************)
EXTENDS ChronoStore, FiniteSets

BugReplayAfterNext(n) == {i \in DOMAIN wal : wal[i].op # "garbage" /\ wal[i].seq > n + 1}

\* replay(from_seq=n): the lines it returns.
ReplayFrom(n) == {i \in DOMAIN wal : wal[i].op # "garbage" /\ wal[i].seq >= n}

\* what_changed_since: the ids upserted by those events that the dictionary
\* still has; deletes are not looked at.
WhatChangedSince(n) ==
    {id \in Ids : /\ state[id] # NoRec
                  /\ \E i \in ReplayFrom(n) : wal[i].op = "upsert" /\ wal[i].id = id}

\* The number in the WalEvent that the i-th write on file returned; 0 asks
\* for everything.
NumberOf(i) == IF i = 0 THEN 0 ELSE wal[i].seq

LogFromTheStart == wal # <<>> /\ wal[1].seq = 1

\* A caller that asks with the number of an event that an earlier write
\* returned learns of every record that differs from what it was right after
\* that write, through restarts and failed writes, except one that has become
\* a tombstone, as long as no compaction has started the log afresh.  The
\* answer also has the record of that write itself, although query.py:82 says
\* "after"; and one who asks with the present wal_seq() is told of the last
\* write at most.
ChangesAreReported ==
    (Settled /\ LogFromTheStart /\ Clean) =>
        /\ \A i \in 0..Len(wal) : \A id \in Ids :
             (/\ state[id] # RecordAt(wal, Empty, 0, i, id)
              /\ state[id].status # "tombstone") => id \in WhatChangedSince(NumberOf(i))
        /\ \A i \in DOMAIN wal : wal[i].op = "upsert" => wal[i].id \in WhatChangedSince(NumberOf(i))
        /\ \A id1, id2 \in WhatChangedSince(seq) : id1 = id2
====
