------------------------------ MODULE ModelStore ------------------------------
(***************************************************************************)
(* The items of a declarative model on one node, and their event log: the  *)
(* HTTP and replication handlers of http/declarative.rs, which change the  *)
(* items in memory and then append an event, EventStore (engine/events.rs) *)
(* with its hash chain, the batch and the files of FileStorage             *)
(* (engine/persistence.rs), and the replay at the next start.              *)
(*                                                                         *)
(* An item's value is the number of the operation that wrote it.  JSON     *)
(* lines, one EventStore per model, as DeclarativeHttpHandler::new sets    *)
(* them up: an event is flushed as it is appended, without fsync.  A crash *)
(* is one of the process; what a power failure takes from the page cache   *)
(* is not modelled.                                                        *)
(***************************************************************************)
EXTENDS Integers, Sequences, FiniteSets

CONSTANTS
    ItemKey,            \* primary keys
    MaxOps,             \* bound: operations
    MaxWriteErrors,     \* bound: flushes that fail
    MaxCrashes,         \* bound: crashes
    SegmentLines        \* max_log_file_size, in lines; 0: no rotation (default)

ASSUME StoreAssumption ==
    MaxOps \in Nat /\ MaxWriteErrors \in Nat /\ MaxCrashes \in Nat /\ SegmentLines \in Nat

OpId == 1..MaxOps
Absent == 0     \* value of an item that is not there; hash before the first event

\* An operation between its change in memory and its event.  "found": the item
\* was looked up, and will be overwritten.
Op == [id : OpId, kind : {"Created", "Updated", "Deleted"}, key : ItemKey, val : OpId,
       stage : {"found", "stored"}]

\* A line of the log.  Its hash is the number of the operation; the payload of a
\* deletion is the removed item.
LogEvent == [id : OpId, prev : 0..MaxOps, kind : {"Created", "Updated", "Deleted"},
             key : ItemKey, val : OpId]

VARIABLES
    storage, opCount, handling,     \* items in memory; operations under way
    lastHash, batch,                \* last_event_hash, event_batch
    buffered, half,                 \* lines left in the BufWriter, the first of them half written
    lines, oldLines, torn,          \* readable lines of events.raftlog and .1; the file ends in half a line
    answered,                       \* history: operations confirmed to a client
    gone,                           \* history: events written and no longer readable
    apart,                          \* history: items whose memory and log went separate ways
    writeErrors, crashes

memoryVars == <<storage, opCount, handling>>
logVars == <<lastHash, batch, buffered, half, lines, oldLines, torn>>
storeVars == <<memoryVars, logVars, answered, gone, apart, writeErrors, crashes>>

StoreInit ==
    /\ storage = [k \in ItemKey |-> Absent] /\ opCount = 0 /\ handling = {}
    /\ lastHash = Absent /\ batch = <<>> /\ buffered = <<>> /\ half = FALSE
    /\ lines = <<>> /\ oldLines = <<>> /\ torn = FALSE
    /\ answered = {} /\ gone = {} /\ apart = {}
    /\ writeErrors = 0 /\ crashes = 0

Ids(events) == {events[i].id : i \in DOMAIN events}

----------------------------------------------------------------------------
(* Changes in memory, each under the lock of the items.                      *)

\* An operation that changes an item in memory while another one's event is
\* still to come may be logged in the other order.
Overlaps(k) == \E op \in handling : op.key = k /\ op.stage = "stored"

Change(op, v) ==
    /\ storage' = [storage EXCEPT ![op.key] = v]
    /\ apart' = IF Overlaps(op.key) THEN apart \cup {op.key} ELSE apart

NewOp(kind, k, v, stage) ==
    [id |-> opCount + 1, kind |-> kind, key |-> k, val |-> v, stage |-> stage]

Begin(op) ==
    /\ opCount < MaxOps
    /\ opCount' = opCount + 1
    /\ handling' = handling \cup {op}
    /\ UNCHANGED <<logVars, answered, gone, writeErrors, crashes>>

\* handle_create, one item of handle_bulk_create, apply_replicated_item: an item
\* with this key is overwritten.
CreateItem(k) ==
    LET op == NewOp("Created", k, opCount + 1, "stored") IN
    Begin(op) /\ Change(op, op.id)

\* handle_update: 404 if there is no such item.
UpdateItem(k) ==
    LET op == NewOp("Updated", k, opCount + 1, "stored") IN
    storage[k] # Absent /\ Begin(op) /\ Change(op, op.id)

\* As a bug would have it: no 404.
DeleteAnyItem(k) ==
    LET op == NewOp("Deleted", k, storage[k], "stored") IN
    Begin(op) /\ Change(op, Absent)

\* handle_delete, apply_replicated_delete: the removed item goes into the event.
DeleteItem(k) ==
    LET op == NewOp("Deleted", k, storage[k], "stored") IN
    storage[k] # Absent /\ Begin(op) /\ Change(op, Absent)

\* submit_admin_edit and apply_replicated_update look the item up, let the lock
\* go, and overwrite whatever is there by then.
FindItem(k) ==
    LET op == NewOp("Updated", k, opCount + 1, "found") IN
    storage[k] # Absent /\ Begin(op) /\ UNCHANGED <<storage, apart>>

OverwriteItem(op) ==
    /\ op \in handling /\ op.stage = "found"
    /\ handling' = (handling \ {op}) \cup {[op EXCEPT !.stage = "stored"]}
    /\ Change(op, op.id)
    /\ UNCHANGED <<opCount, logVars, answered, gone, writeErrors, crashes>>

\* The client goes away while its handler waits for the event store: the future
\* is dropped, the item stays changed.
Abandon(op) ==
    /\ op \in handling
    /\ handling' = handling \ {op}
    /\ apart' = IF op.stage = "stored" THEN apart \cup {op.key} ELSE apart
    /\ UNCHANGED <<storage, opCount, logVars, answered, gone, writeErrors, crashes>>

----------------------------------------------------------------------------
(* Appending events, under the lock of the event store.                      *)

\* n of the pending lines reach the file.  A first line glued to a torn one fails
\* its CRC.
Reaches(pending, n) == IF torn /\ n > 0 THEN SubSeq(pending, 2, n) ELSE SubSeq(pending, 1, n)
Glued(pending, n) == IF torn /\ n > 0 THEN {pending[1].id} ELSE {}

\* maybe_rotate: the segment before this one is removed.
Rotates(file) == SegmentLines > 0 /\ Len(file) >= SegmentLines

\* flush_batch: what is left in the BufWriter, then the batch.
FlushWorks(newBatch) ==
    LET pending == buffered \o newBatch
        file == lines \o Reaches(pending, Len(pending))
        removed == IF Rotates(file) THEN Ids(oldLines) ELSE {}
    IN
    /\ batch' = <<>> /\ buffered' = <<>> /\ half' = FALSE
    /\ torn' = (torn /\ pending = <<>>)
    /\ lines' = IF Rotates(file) THEN <<>> ELSE file
    /\ oldLines' = IF Rotates(file) THEN file ELSE oldLines
    /\ gone' = (gone \cup removed \cup Glued(pending, Len(pending))) \
                    (Ids(lines') \cup Ids(oldLines'))
    /\ apart' = apart \cup {k \in ItemKey : \E i \in DOMAIN pending :
                                pending[i].key = k /\ pending[i].id \in gone'}
                      \cup {k \in ItemKey : \E i \in DOMAIN oldLines :
                                oldLines[i].key = k /\ oldLines[i].id \in gone'}
    /\ UNCHANGED writeErrors

\* As a bug would have it: the batch and the buffer are dropped.
FlushFailsEmptied(newBatch) ==
    LET pending == buffered \o newBatch IN
    /\ writeErrors < MaxWriteErrors
    /\ writeErrors' = writeErrors + 1
    /\ batch' = <<>> /\ buffered' = <<>> /\ half' = FALSE
    /\ \E n \in 0..Len(pending) :
         /\ lines' = lines \o Reaches(pending, n)
         /\ gone' = (gone \cup Glued(pending, n)) \ Ids(lines')
         /\ torn' = (torn /\ n = 0)
    /\ UNCHANGED <<oldLines, apart>>

\* A disk error: some of the lines reach the file, perhaps half of the next one;
\* the rest stays in the BufWriter and all of the batch in event_batch.
FlushFails(newBatch) ==
    LET pending == buffered \o newBatch IN
    /\ writeErrors < MaxWriteErrors
    /\ writeErrors' = writeErrors + 1
    /\ batch' = newBatch
    /\ \E n \in 0..Len(pending) :
         /\ lines' = lines \o Reaches(pending, n)
         /\ gone' = (gone \cup Glued(pending, n)) \ Ids(lines')
         /\ buffered' = SubSeq(pending, n + 1, Len(pending))
         /\ torn' = (torn /\ n = 0)
         /\ half' \in {h \in BOOLEAN : /\ h => n < Len(pending)
                                       /\ half /\ n = 0 => h}
    /\ UNCHANGED <<oldLines, apart>>

\* As a bug would have it: a failed flush is answered with success, too.
PersistAnyway(op) ==
    LET e == [id |-> op.id, prev |-> lastHash, kind |-> op.kind, key |-> op.key, val |-> op.val]
    IN
    /\ op \in handling /\ op.stage = "stored"
    /\ handling' = handling \ {op}
    /\ lastHash' = e.id
    /\ FlushWorks(Append(batch, e)) \/ FlushFails(Append(batch, e))
    /\ answered' = answered \cup {op.id}
    /\ UNCHANGED <<storage, opCount, crashes>>

\* persist_to_event_store: append_envelope takes the hash of the event before,
\* puts the event into the batch and flushes.  The handler answers 500 if that
\* fails; apply_replicated_* log a warning.
PersistEvent(op) ==
    LET e == [id |-> op.id, prev |-> lastHash, kind |-> op.kind, key |-> op.key, val |-> op.val]
    IN
    /\ op \in handling /\ op.stage = "stored"
    /\ handling' = handling \ {op}
    /\ lastHash' = e.id
    /\ \/ FlushWorks(Append(batch, e)) /\ answered' = answered \cup {op.id}
       \/ FlushFails(Append(batch, e)) /\ UNCHANGED answered
    /\ UNCHANGED <<storage, opCount, crashes>>

\* The background flusher, every 100 ms; it ignores errors.
FlushTick ==
    /\ batch # <<>>
    /\ FlushWorks(batch) \/ FlushFails(batch)
    /\ UNCHANGED <<memoryVars, lastHash, answered, crashes>>

----------------------------------------------------------------------------
(* Restart. *)

\* read_all_events: the old segment first.
ReadAll == oldLines \o lines

\* replay_events: the item of every event is inserted, those of deletions too.
LastOf(k, events) == {i \in DOMAIN events : /\ events[i].key = k
                                            /\ \A j \in DOMAIN events :
                                                  events[j].key = k => j <= i}
Replayed(k, events) ==
    IF LastOf(k, events) = {} THEN Absent
    ELSE events[CHOOSE i \in LastOf(k, events) : TRUE].val

\* As a bug would have it: the chain starts anew.
ReplayUnchained ==
    /\ crashes < MaxCrashes
    /\ crashes' = crashes + 1
    /\ storage' = [k \in ItemKey |-> Replayed(k, ReadAll)]
    /\ handling' = {} /\ batch' = <<>> /\ buffered' = <<>> /\ half' = FALSE
    /\ torn' = (torn \/ half)
    /\ lastHash' = Absent
    /\ apart' = {}
    /\ UNCHANGED <<opCount, lines, oldLines, answered, gone, writeErrors>>

\* The process dies and starts again.
CrashAndReplay ==
    /\ crashes < MaxCrashes
    /\ crashes' = crashes + 1
    /\ storage' = [k \in ItemKey |-> Replayed(k, ReadAll)]
    /\ handling' = {} /\ batch' = <<>> /\ buffered' = <<>> /\ half' = FALSE
    /\ torn' = (torn \/ half)
    /\ lastHash' = IF ReadAll = <<>> THEN Absent ELSE ReadAll[Len(ReadAll)].id
    /\ apart' = {}
    /\ UNCHANGED <<opCount, lines, oldLines, answered, gone, writeErrors>>

StoreNext ==
    \/ \E k \in ItemKey : CreateItem(k) \/ UpdateItem(k) \/ DeleteItem(k) \/ FindItem(k)
    \/ \E op \in handling : OverwriteItem(op) \/ Abandon(op) \/ PersistEvent(op)
    \/ FlushTick
    \/ CrashAndReplay

StoreSpec == StoreInit /\ [][StoreNext]_storeVars

----------------------------------------------------------------------------
(* Properties. *)

StoreTypeOK ==
    /\ storage \in [ItemKey -> 0..opCount] /\ opCount \in 0..MaxOps
    /\ handling \in SUBSET Op
    /\ lastHash \in 0..opCount
    /\ batch \in Seq(LogEvent) /\ buffered \in Seq(LogEvent)
    /\ lines \in Seq(LogEvent) /\ oldLines \in Seq(LogEvent)
    /\ half \in BOOLEAN /\ torn \in BOOLEAN
    /\ answered \in SUBSET OpId /\ gone \in SUBSET OpId /\ apart \in SUBSET ItemKey
    /\ writeErrors \in 0..MaxWriteErrors /\ crashes \in 0..MaxCrashes

\* A client whose operation was answered with success can rely on its event:
\* whatever other handlers, the flusher, failed flushes and crashes do, it is
\* read at the next start, unless it was written behind a torn line or rotated
\* away twice.
ConfirmedIsLogged == answered \subseteq Ids(ReadAll) \cup gone

\* The log tells the same story as the memory: with no operation on an item
\* under way and nothing waiting to be flushed, its last event is the one of the
\* last change to it.  Failed flushes, whose lines are written twice, and crashes
\* do not disturb that; operations that overlap, and handlers dropped halfway,
\* do.  (A deletion is in the log, but the item is back after a restart.)
LogFollowsMemory ==
    \A k \in ItemKey :
        (batch = <<>> /\ k \notin apart /\ ~Overlaps(k)) =>
            IF LastOf(k, ReadAll) = {} THEN storage[k] = Absent
            ELSE \A i \in LastOf(k, ReadAll) :
                   \/ storage[k] = ReadAll[i].val
                   \/ ReadAll[i].kind = "Deleted" /\ storage[k] = Absent

\* verify_chain finds every event linked to the one before, across handlers,
\* restarts and rotations, as long as no flush failed (it writes lines twice).
ChainHolds ==
    writeErrors = 0 =>
        \A i \in 2..Len(ReadAll) : ReadAll[i].prev = ReadAll[i - 1].id
=============================================================================
