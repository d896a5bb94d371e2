--------------------------- MODULE WriteAheadLog ---------------------------
(***************************************************************************)
(* The write-ahead log of one node (cluster/wal.rs): group commit by the   *)
(* background flush task, the direct appends of the migration handler, and *)
(* a process that may crash and open the same file again.                  *)
(*                                                                         *)
(* The file is the sequence of its frames after the header.  A whole frame *)
(* is the entry it holds (length, checksum and data agree); a frame that   *)
(* was cut by a crash or by a write error is Torn.  Frames up to synced    *)
(* have been fsynced; the others are in the page cache.                    *)
(***************************************************************************)
EXTENDS Integers, Sequences

CONSTANTS
    Buffered,       \* entries of the write handlers: append_buffered
    Direct,         \* entries of the migration handler: append
    Torn,           \* a frame that is not whole
    MaxCrashes,     \* bound: crashes of the process
    MaxErrors       \* bound: failed writes or fsyncs

Entry == Buffered \cup Direct
Flusher == "flusher"
Free == "free"

ASSUME EntryAssumption == Buffered \cap Direct = {} /\ Torn \notin Entry
ASSUME LockAssumption == Flusher \notin Entry /\ Free \notin Entry
ASSUME CountAssumption == MaxCrashes \in Nat /\ MaxErrors \in Nat

VARIABLES
    file,       \* the frames of the file, page cache included
    synced,     \* how many of them are on disk
    buffer,     \* pending_buffer
    work,       \* entries_to_flush of the flush task, from take to notify
    flusher,    \* where the flush task stands
    lock,       \* the holder of write_lock
    written,    \* frames the holder has written since it got the lock
    pc,         \* where the caller of each entry stands
    crashes, errors

vars == <<file, synced, buffer, work, flusher, lock, written, pc, crashes, errors>>

\* The frames the holder of the lock has to write.
Job(h) == IF h = Flusher THEN work ELSE <<h>>

OnDisk(e) == \E i \in 1..synced : file[i] = e

Init ==
    /\ file = <<>> /\ synced = 0
    /\ buffer = <<>> /\ work = <<>>
    /\ flusher = "idle" /\ lock = Free /\ written = 0
    /\ pc = [e \in Entry |-> "new"]
    /\ crashes = 0 /\ errors = 0

\* append_buffered: push under the buffer's lock, then wait for the flush.  A
\* full buffer only wakes the flush task earlier than its timer.
AppendBuffered(e) ==
    /\ pc[e] = "new"
    /\ buffer' = Append(buffer, e)
    /\ pc' = [pc EXCEPT ![e] = "waiting"]
    /\ UNCHANGED <<file, synced, work, flusher, lock, written, crashes, errors>>

TakeBatchWhenFull ==
    /\ flusher = "idle" /\ Len(buffer) >= 2
    /\ work' = buffer
    /\ buffer' = <<>>
    /\ flusher' = "taken"
    /\ UNCHANGED <<file, synced, lock, written, pc, crashes, errors>>

TakeBatchCopied ==
    /\ flusher = "idle" /\ buffer # <<>>
    /\ work' = buffer
    /\ flusher' = "taken"
    /\ UNCHANGED <<buffer, file, synced, lock, written, pc, crashes, errors>>

\* flush, up to the write lock: the whole buffer is taken.
TakeBatch ==
    /\ flusher = "idle" /\ buffer # <<>>
    /\ work' = buffer
    /\ buffer' = <<>>
    /\ flusher' = "taken"
    /\ UNCHANGED <<file, synced, lock, written, pc, crashes, errors>>

\* append_batch gets the write lock.
LockBatch ==
    /\ flusher = "taken" /\ lock = Free
    /\ lock' = Flusher /\ written' = 0
    /\ flusher' = "writing"
    /\ UNCHANGED <<file, synced, buffer, work, pc, crashes, errors>>

\* append gets the write lock.
LockDirect(d) ==
    /\ pc[d] = "new" /\ lock = Free
    /\ lock' = d /\ written' = 0
    /\ pc' = [pc EXCEPT ![d] = "waiting"]
    /\ UNCHANGED <<file, synced, buffer, work, flusher, crashes, errors>>

\* One frame goes to the end of the file, which is open in append mode.
WriteFrame ==
    /\ lock # Free /\ written < Len(Job(lock))
    /\ file' = Append(file, Job(lock)[written + 1])
    /\ written' = written + 1
    /\ UNCHANGED <<synced, buffer, work, flusher, lock, pc, crashes, errors>>

NothingLeft == written = Len(Job(lock))

\* sync_all, and the lock is released; append returns to its caller.
Sync ==
    /\ lock # Free /\ NothingLeft
    /\ synced' = Len(file)
    /\ lock' = Free
    /\ IF lock = Flusher
       THEN flusher' = "synced" /\ UNCHANGED pc
       ELSE pc' = [pc EXCEPT ![lock] = "acked"] /\ UNCHANGED flusher
    /\ UNCHANGED <<file, buffer, work, written, crashes, errors>>

NotifyFirst ==
    /\ flusher = "synced"
    /\ pc' = [pc EXCEPT ![work[1]] = "acked"]
    /\ work' = <<>> /\ flusher' = "idle"
    /\ UNCHANGED <<file, synced, buffer, lock, written, crashes, errors>>

\* As a bug would have it: everyone who waits is woken, later entries included.
NotifyAll ==
    /\ flusher = "synced"
    /\ pc' = [e \in Entry |-> IF e \in Buffered /\ pc[e] = "waiting" THEN "acked" ELSE pc[e]]
    /\ work' = <<>> /\ flusher' = "idle"
    /\ UNCHANGED <<file, synced, buffer, lock, written, crashes, errors>>

\* The rest of flush: every waiter of the batch is told its entry is durable.
Notify ==
    /\ flusher = "synced"
    /\ pc' = [e \in Entry |-> IF \E i \in 1..Len(work) : work[i] = e THEN "acked" ELSE pc[e]]
    /\ work' = <<>> /\ flusher' = "idle"
    /\ UNCHANGED <<file, synced, buffer, lock, written, crashes, errors>>

Recreated == {<<>>}

\* What an interrupted writer leaves in the file: the frames it has written, and
\* perhaps a part of the next one.
LeftBehind ==
    IF lock # Free /\ written < Len(Job(lock)) THEN {file, Append(file, Torn)} ELSE {file}

\* A write or the fsync fails and the `?` leaves.  The direct append returns the
\* error.  The flush drops its batch without notifying: those callers wait for
\* ever.
IoFails ==
    /\ errors < MaxErrors
    /\ lock # Free
    /\ file' \in LeftBehind
    /\ IF lock = Flusher
       THEN /\ pc' = [e \in Entry |->
                        IF \E i \in 1..Len(work) : work[i] = e THEN "hung" ELSE pc[e]]
            /\ work' = <<>> /\ flusher' = "idle"
       ELSE pc' = [pc EXCEPT ![lock] = "failed"] /\ UNCHANGED <<work, flusher>>
    /\ lock' = Free
    /\ errors' = errors + 1
    /\ UNCHANGED <<synced, buffer, written, crashes>>

\* The process dies and opens its file again (with_config): what was synced is
\* still there, of the rest any part may be, the last frame cut, and on disk or
\* still in the page cache.  Opening only measures the file; new frames go after
\* whatever it ends with.
Crash ==
    /\ crashes < MaxCrashes
    /\ \/ file' \in LeftBehind
       \/ \E k \in synced..(Len(file) - 1) :
            file' \in {SubSeq(file, 1, k), Append(SubSeq(file, 1, k), Torn)}
    /\ synced' \in synced..Len(file')
    /\ buffer' = <<>> /\ work' = <<>> /\ flusher' = "idle" /\ lock' = Free
    /\ pc' = [e \in Entry |-> IF pc[e] \in {"waiting", "hung"} THEN "lost" ELSE pc[e]]
    /\ crashes' = crashes + 1
    /\ UNCHANGED <<written, errors>>

Writing == TakeBatch \/ LockBatch \/ WriteFrame \/ Sync \/ Notify

Next ==
    \/ \E e \in Buffered : AppendBuffered(e)
    \/ \E d \in Direct : LockDirect(d)
    \/ Writing
    \/ IoFails
    \/ Crash

Spec == Init /\ [][Next]_vars

\* The flush task wakes at least every flush_interval_ms, and who holds the lock
\* goes on; tokio hands the lock over in the order of the requests.
FairSpec == Spec /\ WF_vars(Writing)

----------------------------------------------------------------------------
(* Properties. *)

TypeOK ==
    /\ file \in Seq(Entry \cup {Torn}) /\ synced \in 0..Len(file)
    /\ buffer \in Seq(Buffered) /\ work \in Seq(Buffered)
    /\ flusher \in {"idle", "taken", "writing", "synced"}
    /\ lock \in Direct \cup {Free, Flusher}
    /\ written \in Nat
    /\ pc \in [Entry -> {"new", "waiting", "acked", "failed", "hung", "lost"}]
    /\ crashes \in 0..MaxCrashes /\ errors \in 0..MaxErrors

\* "Returns when the entry has been durably written to disk": the frame of an
\* entry whose append returned Ok is whole and synced, through later crashes,
\* failed flushes and appends of other callers.
AckedIsOnDisk == \A e \in Entry : pc[e] = "acked" => OnDisk(e)

\* An entry has at most one frame: no batch is taken twice, and a flush that
\* failed half way is not repeated.
OneFrameEach ==
    \A i, j \in 1..Len(file) : file[i] = file[j] /\ file[i] # Torn => i = j

\* A caller that waits is in the buffer or in the batch under way, so that the
\* flush that will notify it is still to come.
NoLostWaiter ==
    \A e \in Buffered : pc[e] = "waiting" =>
        \/ \E i \in 1..Len(buffer) : buffer[i] = e
        \/ \E i \in 1..Len(work) : work[i] = e

\* The refinement mapping: the log is what is on disk, and a caller that got an
\* error, or waits for ever, has given up.
DiskLog == SubSeq(file, 1, synced)

Told == [e \in Entry |-> CASE pc[e] = "acked" -> "ok"
                           [] pc[e] \in {"failed", "hung", "lost"} -> "gone"
                           [] OTHER -> pc[e]]

Disk == INSTANCE DurableLog WITH Junk <- Torn, log <- DiskLog, status <- Told

\* The write-ahead log implements DurableLog: group commits, direct appends,
\* failed flushes and crashes only ever extend what is on disk, and answer after.
RefinesDurableLog == Disk!Spec

\* As long as no write fails and the process does not crash, every append
\* returns.
EveryAppendReturns ==
    \A e \in Entry : pc[e] = "waiting" ~> pc[e] = "acked" \/ errors + crashes > 0

\* What read_all can return: the entries before the first torn frame.  A frame
\* cut behind its length, if it ends the file, even makes read_all fail.
Readable == {file[i] : i \in {j \in 1..Len(file) : \A k \in 1..j : file[k] # Torn}}

\* What durability is for: "Read all entries from the WAL (for recovery)" gives
\* back every entry whose append returned.
AckedIsReadable == \A e \in Entry : pc[e] = "acked" => e \in Readable
=============================================================================
