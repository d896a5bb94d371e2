---------------------------- MODULE AggregateStore ----------------------------
(***************************************************************************)
(* The event store with one file per aggregate and its snapshots           *)
(* (engine/multi_file_store.rs, engine/snapshot.rs), as one aggregate sees *)
(* them: an application appends events, applies those that were appended   *)
(* to its state, saves snapshots of that state, and recovers from the      *)
(* snapshot and the events after it.                                       *)
(*                                                                         *)
(* The state of the application is the set of events in it.  An aggregate  *)
(* store flushes every event as it is appended; its batch and its buffer   *)
(* are those of ModelStore, here without torn lines and rotation.          *)
(***************************************************************************)
EXTENDS Integers, Sequences

CONSTANTS
    MaxAppends,         \* bound: events
    MaxSnapshots,       \* bound: snapshots
    MaxAppendErrors,    \* bound: appends that fail
    MaxReopens          \* bound: crashes

ASSUME AggregateAssumption ==
    /\ MaxAppends \in Nat /\ MaxSnapshots \in Nat
    /\ MaxAppendErrors \in Nat /\ MaxReopens \in Nat

EventNo == 1..MaxAppends

\* No file yet; a file that a crash left half written; or the number of events a
\* snapshot is labelled with and the state it holds.
NoSnapshot == [kind |-> "none"]
TornSnapshot == [kind |-> "torn"]
Snapshots == [kind : {"whole"}, count : 0..MaxAppends, state : SUBSET EventNo]

VARIABLES
    appended, opened,           \* events so far; the aggregate is in `stores`
    eventCount,                 \* event_counts of the aggregate
    file, unsent, unflushed, \* readable lines; rest of the BufWriter; event_batch
    snapshot, saved,            \* snapshot.raftsnap; snapshots so far
    inState,                    \* the application's state
    appendErrors, reopens

aggregateVars == <<appended, opened, eventCount, file, unsent, unflushed, snapshot, saved,
                   inState, appendErrors, reopens>>

AggregateInit ==
    /\ appended = 0 /\ opened = FALSE /\ eventCount = 0
    /\ file = <<>> /\ unsent = <<>> /\ unflushed = <<>>
    /\ snapshot = NoSnapshot /\ saved = 0
    /\ inState = {}
    /\ appendErrors = 0 /\ reopens = 0

In(s) == {s[i] : i \in DOMAIN s}

\* append_envelope: the store is opened on demand; the event goes into the batch
\* and the batch into the file, behind what an earlier flush left in the buffer.
AppendEvent ==
    LET all == Append(unflushed, appended + 1) IN
    /\ appended < MaxAppends
    /\ appended' = appended + 1 /\ opened' = TRUE
    /\ file' = file \o unsent \o all
    /\ unsent' = <<>> /\ unflushed' = <<>>
    /\ eventCount' = eventCount + 1
    /\ inState' = inState \cup {appended + 1}
    /\ UNCHANGED <<snapshot, saved, appendErrors, reopens>>

\* As a bug would have it: counted before it is flushed.
AppendFailsCounted ==
    LET all == unsent \o Append(unflushed, appended + 1) IN
    /\ appended < MaxAppends /\ appendErrors < MaxAppendErrors
    /\ appendErrors' = appendErrors + 1
    /\ appended' = appended + 1 /\ opened' = TRUE
    /\ eventCount' = eventCount + 1
    /\ \E n \in 0..Len(all) :
         /\ file' = file \o SubSeq(all, 1, n)
         /\ unsent' = SubSeq(all, n + 1, Len(all))
    /\ unflushed' = Append(unflushed, appended + 1)
    /\ UNCHANGED <<snapshot, saved, inState, reopens>>

\* The flush fails behind n lines: the caller gets an error, the count stays as it
\* is, but the event stays in the batch.
AppendFails ==
    LET all == unsent \o Append(unflushed, appended + 1) IN
    /\ appended < MaxAppends /\ appendErrors < MaxAppendErrors
    /\ appendErrors' = appendErrors + 1
    /\ appended' = appended + 1 /\ opened' = TRUE
    /\ \E n \in 0..Len(all) :
         /\ file' = file \o SubSeq(all, 1, n)
         /\ unsent' = SubSeq(all, n + 1, Len(all))
    /\ unflushed' = Append(unflushed, appended + 1)
    /\ UNCHANGED <<eventCount, snapshot, saved, inState, reopens>>

\* save_snapshot labels the state with the events counted since the store was
\* created in this process.
SaveSnapshot ==
    /\ saved < MaxSnapshots
    /\ saved' = saved + 1
    /\ snapshot' = [kind |-> "whole", count |-> eventCount, state |-> inState]
    /\ UNCHANGED <<appended, opened, eventCount, file, unsent, unflushed, inState,
                   appendErrors, reopens>>

\* load_snapshot fails for a file that does not validate.
CanRecover == snapshot.kind # "torn"

\* The snapshot's state and read_events_after_snapshot: the events behind the
\* first `count` lines, none if the aggregate was not opened in this process.
Recovered(open) ==
    LET skip == IF snapshot.kind = "whole" THEN snapshot.count ELSE 0
        base == IF snapshot.kind = "whole" THEN snapshot.state ELSE {}
    IN base \cup (IF open THEN In(SubSeq(file, skip + 1, Len(file))) ELSE {})

\* The process dies, perhaps while it writes a snapshot over the old one, and
\* comes back: the counts are 0 and no store is open.  An application that cannot
\* load its snapshot deletes it (delete_snapshot).
Reopen ==
    /\ reopens < MaxReopens
    /\ reopens' = reopens + 1
    /\ opened' = FALSE /\ eventCount' = 0 /\ unsent' = <<>> /\ unflushed' = <<>>
    /\ \/ snapshot' = snapshot /\ saved' = saved
       \/ saved < MaxSnapshots /\ saved' = saved + 1 /\ snapshot' = TornSnapshot
    /\ inState' = IF snapshot'.kind = "torn" THEN {} ELSE Recovered(FALSE)
    /\ UNCHANGED <<appended, file, appendErrors>>

DeleteSnapshot ==
    /\ snapshot.kind = "torn"
    /\ snapshot' = NoSnapshot
    /\ UNCHANGED <<appended, opened, eventCount, file, unsent, unflushed, saved, inState,
                   appendErrors, reopens>>

AggregateNext ==
    AppendEvent \/ AppendFails \/ SaveSnapshot \/ Reopen \/ DeleteSnapshot

AggregateSpec == AggregateInit /\ [][AggregateNext]_aggregateVars

----------------------------------------------------------------------------
(* Properties. *)

AggregateTypeOK ==
    /\ appended \in 0..MaxAppends /\ opened \in BOOLEAN
    /\ eventCount \in 0..appended
    /\ file \in Seq(EventNo) /\ unsent \in Seq(EventNo) /\ unflushed \in Seq(EventNo)
    /\ snapshot \in Snapshots \cup {NoSnapshot, TornSnapshot} /\ saved \in 0..MaxSnapshots
    /\ inState \subseteq 1..appended
    /\ appendErrors \in 0..MaxAppendErrors /\ reopens \in 0..MaxReopens

\* What the application has in its state it finds again: once the aggregate is
\* open, the lines that recovery skips are all in the snapshot, also when failed
\* appends were written twice or not at all, when the counts began at 0 again in
\* the middle of a file, and when there is an older snapshot.  (Before the first
\* append after a restart the aggregate is not open and its events are not read
\* at all; they are not in the application's state either.)
RecoverySkipsNothing ==
    (opened /\ CanRecover) => inState \subseteq Recovered(TRUE)
=============================================================================
