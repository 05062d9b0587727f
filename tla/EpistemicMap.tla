---- MODULE EpistemicMap ----
(***************************************************************************)
(* What a ChronoStore promises its single writer, with neither files nor   *)
(* memory: one map from record ids to records that survives every crash.   *)
(* A write takes effect in one indivisible step between its invocation and *)
(* its return; a call that is cut short (exception or crash) has taken     *)
(* effect entirely or not at all; nothing else ever changes the map, and a *)
(* delete marks the record instead of removing it.                         *)
(***************************************************************************)
CONSTANTS
    Ids,        \* record ids
    Contents,   \* everything a record holds besides its status
    Statuses    \* the values of ChronoRecord.status

Blank == ""     \* the content of a record made of the dataclass defaults

Rec == [content : Contents \cup {Blank}, status : Statuses]

\* The value of an id that the dictionary of records has no entry for.
NoRec == [content |-> Blank, status |-> "absent"]

Cell == Rec \cup {NoRec}

Tombstone == [content |-> Blank, status |-> "tombstone"]

Empty == [id \in Ids |-> NoRec]

WriteCalls ==
    [op : {"upsert"}, id : Ids, rec : [content : Contents, status : Statuses]]
        \cup [op : {"delete"}, id : Ids, rec : {Tombstone}]

\* The map after one write: an upsert replaces the record; a delete changes
\* the status of a record that exists and nothing else.
Written(m, op, id, rec) ==
    IF op = "upsert" THEN [m EXCEPT ![id] = rec]
    ELSE IF op = "delete" /\ m[id] # NoRec THEN [m EXCEPT ![id].status = "tombstone"]
    ELSE m

VARIABLES
    db,         \* the map
    calls,      \* the write in progress: {} or {w}
    taken       \* whether that write has taken effect

avars == <<db, calls, taken>>

AInit ==
    /\ db = Empty
    /\ calls = {}
    /\ taken = FALSE

Invoke(w) ==
    /\ calls = {}
    /\ calls' = {w}
    /\ taken' = FALSE
    /\ UNCHANGED db

TakeEffect(w) ==
    /\ calls = {w}
    /\ ~taken
    /\ db' = Written(db, w.op, w.id, w.rec)
    /\ taken' = TRUE
    /\ UNCHANGED calls

Return ==
    /\ calls # {}
    /\ taken
    /\ calls' = {}
    /\ taken' = FALSE
    /\ UNCHANGED db

\* The call raises, or the process dies: the caller has no answer.
CutShort ==
    /\ calls # {}
    /\ calls' = {}
    /\ taken' = FALSE
    /\ UNCHANGED db

ANext ==
    \/ \E w \in WriteCalls : Invoke(w) \/ TakeEffect(w)
    \/ Return
    \/ CutShort

ASpec == AInit /\ [][ANext]_avars
====
