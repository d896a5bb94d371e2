------------------------------ MODULE StateEngine ------------------------------
(***************************************************************************)
(* The in-memory state of an Engine (engine/mod.rs) with its default       *)
(* backend Scc2Engine (engine/scc2_engine.rs): events applied by several   *)
(* threads to a map of entries, a uniqueness check through secondary       *)
(* indexes, and the AsyncWriter (engine/async_writer.rs) that takes the    *)
(* events from a channel to the log; replay_events at the start.           *)
(*                                                                         *)
(* A state is reduced to its one unique field, an event to the value it    *)
(* sets there, with the key of its entry as aggregate_id (an event without *)
(* one is replayed into the entry "global").  The files are coarse,        *)
(* ModelStore has their detail.  Snapshots are left out: Engine never      *)
(* loads one.                                                              *)
(*                                                                         *)
(* Both maps are read and changed through try_entry, which gives nothing   *)
(* while another thread has the entry, were it only to read it.  A unique  *)
(* field has one entry in the map of indexes, so that whoever works on the *)
(* index of the field keeps all others from it, whatever their values.     *)
(***************************************************************************)
EXTENDS Integers, Sequences, FiniteSets

CONSTANTS
    Thread,             \* callers of apply_event and flush
    StateKey,           \* keys of entries
    MaxField,           \* values of the unique field are 1..MaxField
    MaxApplies,         \* bound: events applied or refused
    BatchSize,          \* events the writer task buffers (1000)
    MaxFlushErrors,     \* bound: writes that fail
    MaxEngineCrashes    \* bound: crashes

ASSUME EngineAssumption ==
    /\ MaxField \in Nat /\ MaxApplies \in Nat /\ BatchSize \in Nat \ {0}
    /\ MaxFlushErrors \in Nat /\ MaxEngineCrashes \in Nat

NoValue == 0            \* an entry that is not there
FieldValue == 1..MaxField

\* An event in the channel, the buffers and the log; a flush request of a thread.
StateEvent == [key : StateKey, val : FieldValue]
EventMsg == [kind : {"event"}, event : StateEvent]
FlushMsg == [kind : {"flush"}, by : Thread]

\* What a thread is at, in apply_event or flush.
Idle == [stage |-> "idle"]
Applying(s) == [stage : {s}, event : StateEvent]
\* The entry is locked; the old value is to be removed from the index, the new one
\* to be added, or all is done.
LockedStage == {"toRemove", "removing", "toAdd", "adding", "done"}
Indexing ==
    [stage : {"toRemove", "removing"}, event : StateEvent, old : FieldValue]
        \cup [stage : {"toAdd", "adding", "done"}, event : StateEvent, old : 0..MaxField]
Flushing(s) == [stage : {s}, owed : Nat]

VARIABLES
    entries, index,         \* state_map; the index of the unique field
    thread,
    channel, pending,       \* the channel to the writer task, its buffer
    unwritten, eventLog,    \* lines of the batch of the file store, lines of the file
    applies, sent,          \* events applied; history: events sent
    indexed,                \* history: keys whose value went into the index since the start
    racedValues,            \* history: values whose index was not read or changed because
                            \* another thread had it, or that two threads found free at once
    racedKeys,              \* history: keys two threads were at
    flushErrors, engineCrashes

engineState == <<entries, index, indexed, racedValues>>
writerState == <<pending, unwritten, eventLog>>
engineVars == <<engineState, thread, channel, writerState, applies, sent, racedKeys,
                flushErrors, engineCrashes>>

EngineInit ==
    /\ entries = [k \in StateKey |-> NoValue]
    /\ index = [v \in FieldValue |-> {}]
    /\ thread = [t \in Thread |-> Idle]
    /\ channel = <<>> /\ pending = <<>> /\ unwritten = <<>> /\ eventLog = <<>>
    /\ applies = 0 /\ sent = 0
    /\ indexed = {} /\ racedValues = {} /\ racedKeys = {}
    /\ flushErrors = 0 /\ engineCrashes = 0

At(t, s) == thread[t].stage = s
Others(t) == Thread \ {t}

\* The thread has locked its entry.
HasEntry(t) == thread[t].stage \in LockedStage

\* Another thread has the index, or may have it: add_to_index_value asks whether
\* there is one (contains_sync) before it takes it.
IndexTaken(t) == \E u \in Others(t) : thread[u].stage \in {"checking", "removing", "adding"}
IndexTouched(t) == IndexTaken(t) \/ \E u \in Others(t) : At(u, "toAdd")

----------------------------------------------------------------------------
(* apply_event. *)

\* check_uniqueness takes the index of the field; one that another thread has
\* looks empty, and the check has passed.
BeginCheck(t, e) ==
    /\ At(t, "idle") /\ applies < MaxApplies
    /\ applies' = applies + 1
    /\ \/ /\ ~IndexTaken(t)
          /\ thread' = [thread EXCEPT ![t] = [stage |-> "checking", event |-> e]]
          /\ UNCHANGED racedValues
       \/ /\ IndexTouched(t)
          /\ thread' = [thread EXCEPT ![t] = [stage |-> "checked", event |-> e]]
          /\ racedValues' = racedValues \cup {e.val}
    /\ UNCHANGED <<entries, index, indexed, channel, writerState, sent, racedKeys,
                   flushErrors, engineCrashes>>

\* Another thread has passed the check for the value and not indexed it yet.
Rival(t, e) ==
    \E u \in Others(t) : /\ thread[u].stage \in {"checked"} \cup (LockedStage \ {"done"})
                         /\ thread[u].event.val = e.val /\ thread[u].event.key # e.key

\* As a bug would have it: nothing is refused.
PassCheck(t) ==
    LET e == thread[t].event IN
    /\ At(t, "checking")
    /\ thread' = [thread EXCEPT ![t] = [stage |-> "checked", event |-> e]]
    /\ racedValues' = IF Rival(t, e) THEN racedValues \cup {e.val} ELSE racedValues
    /\ UNCHANGED <<entries, index, indexed, channel, writerState, applies, sent, racedKeys,
                   flushErrors, engineCrashes>>

\* Refused if the index has another key with the value.
EndCheck(t) ==
    LET e == thread[t].event IN
    /\ At(t, "checking")
    /\ \/ /\ index[e.val] \subseteq {e.key}
          /\ thread' = [thread EXCEPT ![t] = [stage |-> "checked", event |-> e]]
          /\ racedValues' = IF Rival(t, e) THEN racedValues \cup {e.val} ELSE racedValues
       \/ /\ ~ index[e.val] \subseteq {e.key}
          /\ thread' = [thread EXCEPT ![t] = Idle]
          /\ UNCHANGED racedValues
    /\ UNCHANGED <<entries, index, indexed, channel, writerState, applies, sent, racedKeys,
                   flushErrors, engineCrashes>>

\* The entry is locked and the event applied.
LockAndApply(t) ==
    LET e == thread[t].event
        old == entries[e.key]
        todo == CASE old = e.val -> "done" [] old = NoValue -> "toAdd" [] OTHER -> "toRemove"
        unsent == \E u \in Others(t) : At(u, "unsent") /\ thread[u].event.key = e.key
    IN
    /\ At(t, "checked")
    /\ \A u \in Others(t) : HasEntry(u) => thread[u].event.key # e.key
    /\ entries' = [entries EXCEPT ![e.key] = e.val]
    /\ thread' = [thread EXCEPT ![t] = [stage |-> todo, event |-> e, old |-> old]]
    /\ racedKeys' = IF unsent THEN racedKeys \cup {e.key} ELSE racedKeys
    /\ UNCHANGED <<index, indexed, racedValues, channel, writerState, applies, sent,
                   flushErrors, engineCrashes>>

\* Another thread has the entry, or reads it: an error.
LockFails(t) ==
    /\ At(t, "checked") /\ Others(t) # {}
    /\ thread' = [thread EXCEPT ![t] = Idle]
    /\ UNCHANGED <<engineState, channel, writerState, applies, sent, racedKeys, flushErrors,
                   engineCrashes>>

\* update_indexes (add_to_index for a new entry), still under the lock of the
\* entry: the index is taken, or the change is left out as another thread has it.
TakeIndex(t) ==
    LET e == thread[t].event
        removes == At(t, "toRemove")
    IN
    /\ removes \/ At(t, "toAdd")
    /\ \/ /\ ~IndexTaken(t)
          /\ thread' = [thread EXCEPT ![t].stage = IF removes THEN "removing" ELSE "adding"]
          /\ UNCHANGED <<indexed, racedValues>>
       \/ /\ IndexTouched(t)
          /\ thread' = [thread EXCEPT ![t].stage = IF removes THEN "toAdd" ELSE "done"]
          /\ racedValues' = racedValues \cup {IF removes THEN thread[t].old ELSE e.val}
          /\ indexed' = IF removes THEN indexed ELSE indexed \cup {e.key}
    /\ UNCHANGED <<entries, index, channel, writerState, applies, sent, racedKeys, flushErrors,
                   engineCrashes>>

\* As a bug would have it: the old value stays in the index.
KeepOld(t) ==
    /\ At(t, "removing")
    /\ thread' = [thread EXCEPT ![t].stage = "toAdd"]
    /\ UNCHANGED <<engineState, channel, writerState, applies, sent, racedKeys, flushErrors,
                   engineCrashes>>

RemoveOld(t) ==
    /\ At(t, "removing")
    /\ index' = [index EXCEPT ![thread[t].old] = @ \ {thread[t].event.key}]
    /\ thread' = [thread EXCEPT ![t].stage = "toAdd"]
    /\ UNCHANGED <<entries, indexed, racedValues, channel, writerState, applies, sent, racedKeys,
                   flushErrors, engineCrashes>>

AddNew(t) ==
    LET e == thread[t].event IN
    /\ At(t, "adding")
    /\ index' = [index EXCEPT ![e.val] = @ \cup {e.key}]
    /\ indexed' = indexed \cup {e.key}
    /\ thread' = [thread EXCEPT ![t].stage = "done"]
    /\ UNCHANGED <<entries, racedValues, channel, writerState, applies, sent, racedKeys,
                   flushErrors, engineCrashes>>

Unlock(t) ==
    /\ At(t, "done")
    /\ thread' = [thread EXCEPT ![t] = [stage |-> "unsent", event |-> thread[t].event]]
    /\ UNCHANGED <<engineState, channel, writerState, applies, sent, racedKeys, flushErrors,
                   engineCrashes>>

\* The lock is gone by the time the event goes to the writer task.
SendEvent(t) ==
    /\ At(t, "unsent")
    /\ channel' = Append(channel, [kind |-> "event", event |-> thread[t].event])
    /\ sent' = sent + 1
    /\ thread' = [thread EXCEPT ![t] = Idle]
    /\ UNCHANGED <<engineState, writerState, applies, racedKeys, flushErrors, engineCrashes>>

\* flush: the request goes through the same channel; the caller waits.
RequestFlush(t) ==
    /\ At(t, "idle") /\ sent > 0
    /\ \A u \in Thread : ~At(u, "flushing")
    /\ channel' = Append(channel, [kind |-> "flush", by |-> t])
    /\ thread' = [thread EXCEPT ![t] = [stage |-> "flushing", owed |-> sent]]
    /\ UNCHANGED <<engineState, writerState, applies, sent, racedKeys, flushErrors, engineCrashes>>

FlushReturns(t) ==
    /\ At(t, "flushed")
    /\ thread' = [thread EXCEPT ![t] = Idle]
    /\ UNCHANGED <<engineState, channel, writerState, applies, sent, racedKeys, flushErrors,
                   engineCrashes>>

----------------------------------------------------------------------------
(* The writer task. *)

\* As a bug would have it: an error drops the lines.
WriteOutOnce(events) ==
    LET all == unwritten \o events IN
    /\ pending' = <<>> /\ unwritten' = <<>>
    /\ \/ eventLog' = eventLog \o all /\ UNCHANGED flushErrors
       \/ /\ flushErrors < MaxFlushErrors /\ all # <<>>
          /\ flushErrors' = flushErrors + 1
          /\ \E n \in 0..Len(all) : eventLog' = eventLog \o SubSeq(all, 1, n)

\* flush_buffer: all events go to the file store, which writes its batch.  An
\* error is logged; some of the lines may be written, all are kept.
WriteOut(events) ==
    LET all == unwritten \o events IN
    /\ pending' = <<>>
    /\ \/ /\ eventLog' = eventLog \o all
          /\ unwritten' = <<>>
          /\ UNCHANGED flushErrors
       \/ /\ flushErrors < MaxFlushErrors /\ all # <<>>
          /\ flushErrors' = flushErrors + 1
          /\ \E n \in 0..Len(all) : eventLog' = eventLog \o SubSeq(all, 1, n)
          /\ unwritten' = all

TakeEvent ==
    /\ channel # <<>> /\ Head(channel).kind = "event"
    /\ channel' = Tail(channel)
    /\ LET events == Append(pending, Head(channel).event) IN
       IF Len(events) >= BatchSize THEN WriteOut(events)
       ELSE pending' = events /\ UNCHANGED <<unwritten, eventLog, flushErrors>>
    /\ UNCHANGED <<engineState, thread, applies, sent, racedKeys, engineCrashes>>

\* As a bug would have it: acknowledged before the buffer is written.
AcknowledgeFlush ==
    /\ channel # <<>> /\ Head(channel).kind = "flush"
    /\ channel' = Tail(channel)
    /\ thread' = [thread EXCEPT ![Head(channel).by] = [@ EXCEPT !.stage = "flushed"]]
    /\ UNCHANGED <<engineState, writerState, applies, sent, racedKeys, flushErrors,
                   engineCrashes>>

\* The flush is acknowledged whether the write succeeded or not.
TakeFlush ==
    /\ channel # <<>> /\ Head(channel).kind = "flush"
    /\ channel' = Tail(channel)
    /\ WriteOut(pending)
    /\ thread' = [thread EXCEPT ![Head(channel).by] = [@ EXCEPT !.stage = "flushed"]]
    /\ UNCHANGED <<engineState, applies, sent, racedKeys, engineCrashes>>

\* The timer of 10 ms, while the channel is empty.
FlushTimer ==
    /\ channel = <<>> /\ pending # <<>>
    /\ WriteOut(pending)
    /\ UNCHANGED <<engineState, thread, channel, applies, sent, racedKeys, engineCrashes>>

----------------------------------------------------------------------------
(* Restart. *)

LastIn(k, events) == {i \in DOMAIN events : /\ events[i].key = k
                                            /\ \A j \in DOMAIN events :
                                                 events[j].key = k => j <= i}
LastValue(k, events) ==
    IF LastIn(k, events) = {} THEN NoValue
    ELSE events[CHOOSE i \in LastIn(k, events) : TRUE].val

\* Engine::new: replay_events goes through update_entry_volatile, which keeps no
\* index where there is none yet.
EngineCrash ==
    /\ engineCrashes < MaxEngineCrashes
    /\ engineCrashes' = engineCrashes + 1
    /\ entries' = [k \in StateKey |-> LastValue(k, eventLog)]
    /\ index' = [v \in FieldValue |-> {}]
    /\ indexed' = {} /\ racedValues' = {} /\ racedKeys' = {}
    /\ thread' = [t \in Thread |-> Idle]
    /\ channel' = <<>> /\ pending' = <<>> /\ unwritten' = <<>>
    /\ sent' = Len(eventLog)
    /\ UNCHANGED <<eventLog, applies, flushErrors>>

EngineNext ==
    \/ \E t \in Thread :
         \/ \E e \in StateEvent : BeginCheck(t, e)
         \/ EndCheck(t) \/ LockAndApply(t) \/ LockFails(t)
         \/ TakeIndex(t) \/ RemoveOld(t) \/ AddNew(t) \/ Unlock(t) \/ SendEvent(t)
         \/ RequestFlush(t) \/ FlushReturns(t)
    \/ TakeEvent \/ TakeFlush \/ FlushTimer
    \/ EngineCrash

EngineSpec == EngineInit /\ [][EngineNext]_engineVars

----------------------------------------------------------------------------
(* Properties. *)

EngineTypeOK ==
    /\ entries \in [StateKey -> 0..MaxField]
    /\ index \in [FieldValue -> SUBSET StateKey]
    /\ thread \in [Thread -> {Idle} \cup Applying("checking") \cup Applying("checked")
                               \cup Indexing \cup Applying("unsent")
                               \cup Flushing("flushing") \cup Flushing("flushed")]
    /\ channel \in Seq(EventMsg \cup FlushMsg)
    /\ pending \in Seq(StateEvent) /\ unwritten \in Seq(StateEvent) /\ eventLog \in Seq(StateEvent)
    /\ Len(pending) < BatchSize
    /\ applies \in 0..MaxApplies /\ sent \in Nat
    /\ indexed \in SUBSET StateKey /\ racedKeys \in SUBSET StateKey
    /\ racedValues \in SUBSET FieldValue
    /\ flushErrors \in 0..MaxFlushErrors /\ engineCrashes \in 0..MaxEngineCrashes

\* No two entries have the same value of a unique field, apart from entries that
\* were replayed (they are in no index), unless a thread that checked or indexed
\* that value was kept from the index, or two threads had both found it free.
ValuesAreUnique ==
    \A k, l \in indexed : k # l /\ entries[k] = entries[l] => entries[k] \in racedValues

\* Until something like that happens to a value, its index has just the keys with
\* that value, through any sequence of updates, refusals and skipped changes of
\* the index of other values.
IndexMatches ==
    \A v \in FieldValue \ racedValues, k \in StateKey :
        (\A t \in Thread : ~HasEntry(t)) =>
            (k \in index[v] <=> k \in indexed /\ entries[k] = v)

\* The last event of an entry: in the channel, or else in the file, the batch of
\* the file store and the buffer, in this order.
InChannel(k) == {j \in DOMAIN channel : channel[j].kind = "event" /\ channel[j].event.key = k}
LastSent(k) ==
    IF InChannel(k) = {} THEN LastValue(k, eventLog \o unwritten \o pending)
    ELSE channel[CHOOSE j \in InChannel(k) : \A i \in InChannel(k) : i <= j].event.val

\* What a crash could still take is at the end of the story: the file, the batch,
\* the buffer, the channel and the threads about to send tell the history of an
\* entry, unless two threads overlapped there.
LogTellsAll ==
    \A k \in StateKey \ racedKeys :
        \/ \E t \in Thread : /\ thread[t].stage \in LockedStage \cup {"unsent"}
                             /\ thread[t].event.key = k
        \/ entries[k] = LastSent(k)

\* flush returns when everything sent before is in the file, as long as no write
\* failed ("Flush all pending events to disk immediately and wait for completion",
\* async_writer.rs:195).
FlushIsComplete ==
    \A t \in Thread : At(t, "flushed") /\ flushErrors = 0 => Len(eventLog) >= thread[t].owed
=============================================================================
