---------------------------- MODULE MemoryProofs ----------------------------
(***************************************************************************)
(* Proofs about what a node keeps in memory.  StateEngine, for any number  *)
(* of threads, keys, values, events and crashes: the index matches the     *)
(* entries and the values of the unique field are unique, where nobody was *)
(* kept from the index and no two threads found a value free at once; the  *)
(* log tells all that is in memory, and a flush waits for all that was     *)
(* sent before it.  LruCache, for any capacity: list and map always tell   *)
(* the same, and every call is one of RecencyCache.                        *)
(***************************************************************************)
EXTENDS StateEngine, LruCache, Induction, SequenceTheorems, FiniteSetTheorems, TLAPS

----------------------------------------------------------------------------
(* StateEngine *)

(* Types. *)

ThreadState == {Idle} \cup Applying("checking") \cup Applying("checked") \cup Indexing
                 \cup Applying("unsent") \cup Flushing("flushing") \cup Flushing("flushed")

\* The request of a thread that waits for a flush is in the channel at most once,
\* and no other thread has one there.
FlushQueue ==
    /\ \A i \in DOMAIN channel :
         channel[i].kind = "flush" => At(channel[i].by, "flushing")
    /\ \A i, j \in DOMAIN channel :
         channel[i].kind = "flush" /\ channel[j].kind = "flush" => i = j

Tagged == EngineTypeOK /\ FlushQueue

\* What a thread is at, by its stage.
LEMMA Stages ==
    ASSUME NEW s \in ThreadState
    PROVE  /\ s.stage \in {"checking", "checked", "unsent"} \cup LockedStage =>
                s.event \in StateEvent
           /\ s.stage \in LockedStage => s.old \in 0..MaxField
           /\ s.stage \in {"toRemove", "removing"} => s.old \in FieldValue
           /\ s.stage = "flushing" => [s EXCEPT !.stage = "flushed"] \in Flushing("flushed")
           /\ s.stage \in {"idle", "checking", "checked", "unsent", "flushing", "flushed"}
                            \cup LockedStage
<1>1. CASE s = Idle
  BY <1>1 DEF Idle, LockedStage
<1>2. CASE s \in Applying("checking") \cup Applying("checked") \cup Applying("unsent")
  BY <1>2 DEF Applying, LockedStage
<1>3. CASE s \in Indexing
  BY <1>3, EngineAssumption DEF Indexing, LockedStage, FieldValue
<1>4. CASE s \in Flushing("flushing") \cup Flushing("flushed")
  BY <1>4 DEF Flushing, LockedStage
<1> QED BY <1>1, <1>2, <1>3, <1>4 DEF ThreadState

LEMMA MadeStages ==
    ASSUME NEW e \in StateEvent, NEW o \in 0..MaxField, NEW n \in Nat
    PROVE  /\ [stage |-> "checking", event |-> e] \in ThreadState
           /\ [stage |-> "checked", event |-> e] \in ThreadState
           /\ [stage |-> "unsent", event |-> e] \in ThreadState
           /\ \A x \in {"toAdd", "adding", "done"} :
                [stage |-> x, event |-> e, old |-> o] \in ThreadState
           /\ o # NoValue => \A x \in {"toRemove", "removing"} :
                [stage |-> x, event |-> e, old |-> o] \in ThreadState
           /\ [stage |-> "flushing", owed |-> n] \in ThreadState
           /\ Idle \in ThreadState
<1>1. \A x \in {"checking", "checked", "unsent"} : [stage |-> x, event |-> e] \in Applying(x)
  BY DEF Applying
<1>2. \A x \in {"toAdd", "adding", "done"} : [stage |-> x, event |-> e, old |-> o] \in Indexing
  BY DEF Indexing
<1>3. o # NoValue => \A x \in {"toRemove", "removing"} :
                       [stage |-> x, event |-> e, old |-> o] \in Indexing
  BY EngineAssumption DEF Indexing, FieldValue, NoValue
<1>4. [stage |-> "flushing", owed |-> n] \in Flushing("flushing")
  BY DEF Flushing
<1> QED BY <1>1, <1>2, <1>3, <1>4 DEF ThreadState

\* A thread that has its entry goes on to another stage, with the same event.
LEMMA Staged ==
    ASSUME NEW s \in ThreadState, s.stage \in LockedStage, NEW x \in LockedStage,
           x \in {"toRemove", "removing"} => s.stage \in {"toRemove", "removing"}
    PROVE  /\ [s EXCEPT !.stage = x] \in ThreadState
           /\ [s EXCEPT !.stage = x].stage = x
           /\ [s EXCEPT !.stage = x].event = s.event
           /\ [s EXCEPT !.stage = x].old = s.old
<1>1. s \in Indexing
  BY DEF ThreadState, Idle, Applying, Flushing, LockedStage
<1>2. CASE s \in [stage : {"toRemove", "removing"}, event : StateEvent, old : FieldValue]
  <2>1. s.old \in 0..MaxField
    BY <1>2, EngineAssumption DEF FieldValue
  <2> QED BY <1>2, <2>1 DEF ThreadState, Indexing, LockedStage
<1>3. CASE s \in [stage : {"toAdd", "adding", "done"}, event : StateEvent, old : 0..MaxField]
  <2>1. x \in {"toAdd", "adding", "done"}
    BY <1>3 DEF LockedStage
  <2> QED BY <1>3, <2>1 DEF ThreadState, Indexing
<1> QED BY <1>1, <1>2, <1>3 DEF Indexing

\* One thread moves on.
LEMMA Moves ==
    ASSUME thread \in [Thread -> ThreadState], NEW t \in Thread, NEW s \in ThreadState,
           thread' = [thread EXCEPT ![t] = s]
    PROVE  /\ thread' \in [Thread -> ThreadState] /\ thread'[t] = s
           /\ \A u \in Thread : u # t => thread'[u] = thread[u]
  OBVIOUS

\* Messages of the channel.
LEMMA Messages ==
    /\ \A e \in StateEvent : /\ [kind |-> "event", event |-> e] \in EventMsg \cup FlushMsg
                             /\ [kind |-> "event", event |-> e].kind = "event"
    /\ \A t \in Thread : /\ [kind |-> "flush", by |-> t] \in EventMsg \cup FlushMsg
                         /\ [kind |-> "flush", by |-> t].kind = "flush"
                         /\ [kind |-> "flush", by |-> t].by = t
    /\ \A m \in EventMsg \cup FlushMsg : /\ m.kind = "event" => m.event \in StateEvent
                                         /\ m.kind = "flush" => m.by \in Thread
                                         /\ m.kind \in {"event", "flush"}
  BY DEF EventMsg, FlushMsg

\* The head of the channel is taken.
LEMMA Taken ==
    ASSUME channel \in Seq(EventMsg \cup FlushMsg), channel # <<>>
    PROVE  /\ Head(channel) = channel[1] /\ 1 \in DOMAIN channel
           /\ Head(channel) \in EventMsg \cup FlushMsg
           /\ Tail(channel) \in Seq(EventMsg \cup FlushMsg)
           /\ \A i \in DOMAIN Tail(channel) : /\ i + 1 \in DOMAIN channel
                                              /\ Tail(channel)[i] = channel[i + 1]
                                              /\ i \in Nat
  OBVIOUS

\* A message is put into the channel.
LEMMA Put ==
    ASSUME channel \in Seq(EventMsg \cup FlushMsg), NEW m \in EventMsg \cup FlushMsg
    PROVE  LET c == Append(channel, m) IN
           /\ c \in Seq(EventMsg \cup FlushMsg)
           /\ \A i \in DOMAIN c : \/ i \in DOMAIN channel /\ c[i] = channel[i]
                                  \/ i = Len(channel) + 1 /\ c[i] = m
  OBVIOUS

\* What the writer task leaves.
LEMMA Written ==
    ASSUME EngineTypeOK, NEW events \in Seq(StateEvent), WriteOut(events)
    PROVE  /\ pending' \in Seq(StateEvent) /\ Len(pending') < BatchSize
           /\ unwritten' \in Seq(StateEvent) /\ eventLog' \in Seq(StateEvent)
           /\ flushErrors' \in 0..MaxFlushErrors
<1> DEFINE all == unwritten \o events
<1>1. all \in Seq(StateEvent) /\ eventLog \in Seq(StateEvent) /\ flushErrors \in 0..MaxFlushErrors
  BY DEF EngineTypeOK
<1>2. \A n \in 0..Len(all) : SubSeq(all, 1, n) \in Seq(StateEvent)
  BY <1>1, SubSeqProperties
<1>3. pending' \in Seq(StateEvent) /\ Len(pending') < BatchSize
  BY EngineAssumption DEF WriteOut
<1>4. \/ eventLog' = eventLog \o all /\ unwritten' = <<>> /\ UNCHANGED flushErrors
      \/ /\ flushErrors < MaxFlushErrors /\ flushErrors' = flushErrors + 1
         /\ \E n \in 0..Len(all) : eventLog' = eventLog \o SubSeq(all, 1, n)
         /\ unwritten' = all
  BY DEF WriteOut
<1> HIDE DEF all
<1>5. unwritten' \in Seq(StateEvent)
  <2>1. unwritten' = <<>> \/ unwritten' = all
    BY <1>4
  <2>2. <<>> \in Seq(StateEvent) /\ all \in Seq(StateEvent)
    BY <1>1
  <2> QED BY <2>1, <2>2
<1>6. eventLog' \in Seq(StateEvent)
  <2>1. CASE eventLog' = eventLog \o all
    BY <1>1, <2>1
  <2>2. ASSUME NEW n \in 0..Len(all), eventLog' = eventLog \o SubSeq(all, 1, n)
        PROVE  eventLog' \in Seq(StateEvent)
    <3>1. SubSeq(all, 1, n) \in Seq(StateEvent)
      BY <1>2
    <3> QED BY <1>1, <2>2, <3>1
  <2> QED BY <1>4, <2>1, <2>2
<1>7. flushErrors' \in 0..MaxFlushErrors
  BY <1>1, <1>4, EngineAssumption
<1> QED BY <1>3, <1>5, <1>6, <1>7

LEMMA LastIsTyped ==
    ASSUME NEW s \in Seq(StateEvent), NEW k \in StateKey
    PROVE  LastValue(k, s) \in 0..MaxField
<1>1. CASE LastIn(k, s) = {}
  BY <1>1, EngineAssumption DEF LastValue, NoValue
<1>2. CASE LastIn(k, s) # {}
  <2> DEFINE i == CHOOSE i \in LastIn(k, s) : TRUE
  <2>1. i \in DOMAIN s
    BY <1>2 DEF LastIn
  <2>2. s[i] \in StateEvent
    BY <2>1
  <2>3. s[i].val \in 0..MaxField
    BY <2>2, EngineAssumption DEF StateEvent, FieldValue
  <2> QED BY <1>2, <2>3 DEF LastValue
<1> QED BY <1>1, <1>2

LEMMA TaggedInit == ASSUME EngineInit PROVE Tagged
<1>1. \A S : <<>> \in Seq(S)
  OBVIOUS
<1>2. entries \in [StateKey -> 0..MaxField] /\ index \in [FieldValue -> SUBSET StateKey]
  BY EngineAssumption DEF EngineInit, NoValue
<1>3. thread \in [Thread -> ThreadState]
  BY DEF EngineInit, ThreadState
<1>4. Len(pending) < BatchSize /\ sent \in Nat
  BY EngineAssumption DEF EngineInit
<1>5. applies \in 0..MaxApplies /\ flushErrors \in 0..MaxFlushErrors
      /\ engineCrashes \in 0..MaxEngineCrashes
  BY EngineAssumption DEF EngineInit
<1>6. EngineTypeOK
  BY <1>1, <1>2, <1>3, <1>4, <1>5 DEF EngineInit, EngineTypeOK, ThreadState
<1> QED BY <1>6 DEF Tagged, FlushQueue, EngineInit

\* Threads that wait for a flush go on waiting, and the channel stays.
LEMMA QueueStays ==
    ASSUME Tagged, UNCHANGED channel, NEW t \in Thread, ~At(t, "flushing"),
           \A u \in Thread : u # t => thread'[u] = thread[u]
    PROVE  FlushQueue'
<1>1. \A i \in DOMAIN channel : channel[i] \in EventMsg \cup FlushMsg
  BY DEF Tagged, EngineTypeOK
<1>2. \A i \in DOMAIN channel : channel[i].kind = "flush" => channel[i].by \in Thread
  BY <1>1, Messages
<1> QED BY <1>2 DEF Tagged, FlushQueue, At

\* The steps of apply_event up to the release of the entry, but for the one that
\* takes it.
EngineStep(t) ==
    \/ \E e \in StateEvent : BeginCheck(t, e)
    \/ EndCheck(t) \/ LockFails(t) \/ TakeIndex(t) \/ RemoveOld(t) \/ AddNew(t) \/ Unlock(t)

\* The thread has nothing applied and not sent, or goes on with the same event.
Onward(was, is) ==
    /\ was.stage \in {"idle", "checking", "checked"} \cup LockedStage
    /\ was.stage \notin LockedStage => is.stage \in {"idle", "checking", "checked"}
    /\ was.stage \in LockedStage => is.stage \in LockedStage \cup {"unsent"} /\ is.event = was.event

LEMMA EngineStepOf ==
    ASSUME Tagged, NEW t \in Thread, EngineStep(t)
    PROVE  /\ \E s \in ThreadState : thread' = [thread EXCEPT ![t] = s] /\ Onward(thread[t], s)
           /\ index' \in [FieldValue -> SUBSET StateKey] /\ indexed' \in SUBSET StateKey
           /\ racedValues' \in SUBSET FieldValue /\ applies' \in 0..MaxApplies
           /\ UNCHANGED <<entries, channel, writerState, sent, racedKeys, flushErrors,
                          engineCrashes>>
<1>0. /\ EngineTypeOK /\ thread \in [Thread -> ThreadState]
      /\ index \in [FieldValue -> SUBSET StateKey] /\ indexed \in SUBSET StateKey
      /\ racedValues \in SUBSET FieldValue /\ applies \in 0..MaxApplies
  BY DEF Tagged, EngineTypeOK, ThreadState
<1>e. \A x \in {"checking", "checked"} \cup LockedStage :
        At(t, x) => /\ thread[t].event \in StateEvent /\ thread[t].event.val \in FieldValue
                    /\ thread[t].event.key \in StateKey
  BY <1>0, Stages DEF At, StateEvent
<1>1. ASSUME NEW e \in StateEvent, BeginCheck(t, e)
      PROVE  \E s \in ThreadState : thread' = [thread EXCEPT ![t] = s] /\ Onward(thread[t], s)
  <2>1. /\ At(t, "idle")
        /\ \E x \in {"checking", "checked"} :
             thread' = [thread EXCEPT ![t] = [stage |-> x, event |-> e]]
    BY <1>1 DEF BeginCheck
  <2>2. \A x \in {"checking", "checked"} : [stage |-> x, event |-> e] \in ThreadState
    BY DEF ThreadState, Applying
  <2> QED BY <2>1, <2>2 DEF Onward, At, LockedStage
<1>2. ASSUME EndCheck(t) \/ LockFails(t)
      PROVE  \E s \in ThreadState : thread' = [thread EXCEPT ![t] = s] /\ Onward(thread[t], s)
  <2> DEFINE e == thread[t].event
  <2>1. /\ At(t, "checking") \/ At(t, "checked")
        /\ \/ thread' = [thread EXCEPT ![t] = [stage |-> "checked", event |-> e]]
           \/ thread' = [thread EXCEPT ![t] = Idle]
    BY <1>2 DEF EndCheck, LockFails
  <2>2. [stage |-> "checked", event |-> e] \in ThreadState /\ Idle \in ThreadState
    BY <1>e, <2>1 DEF ThreadState, Applying
  <2>3. Onward(thread[t], [stage |-> "checked", event |-> e]) /\ Onward(thread[t], Idle)
    BY <2>1 DEF Onward, At, LockedStage, Idle
  <2> HIDE DEF e
  <2> QED BY <2>1, <2>2, <2>3
<1>3. ASSUME NEW x \in LockedStage, thread[t].stage \in LockedStage,
             x \in {"toRemove", "removing"} => thread[t].stage \in {"toRemove", "removing"},
             thread' = [thread EXCEPT ![t].stage = x]
      PROVE  \E s \in ThreadState : thread' = [thread EXCEPT ![t] = s] /\ Onward(thread[t], s)
  <2> DEFINE s == [thread[t] EXCEPT !.stage = x]
  <2>1. s \in ThreadState /\ s.stage = x /\ s.event = thread[t].event
    BY <1>0, <1>3, Staged
  <2>2. Onward(thread[t], s)
    BY <1>3, <2>1 DEF Onward, LockedStage
  <2>3. thread' = [thread EXCEPT ![t] = s]
    BY <1>3
  <2> QED BY <2>1, <2>2, <2>3
<1>4. CASE TakeIndex(t) \/ RemoveOld(t) \/ AddNew(t)
  <2>1. \E x \in LockedStage : /\ thread[t].stage \in LockedStage
                               /\ x \in {"toRemove", "removing"} =>
                                    thread[t].stage \in {"toRemove", "removing"}
                               /\ thread' = [thread EXCEPT ![t].stage = x]
    BY <1>4 DEF TakeIndex, RemoveOld, AddNew, At, LockedStage
  <2>2. \E s \in ThreadState : thread' = [thread EXCEPT ![t] = s] /\ Onward(thread[t], s)
    BY <1>3, <2>1
  <2>3. index' \in [FieldValue -> SUBSET StateKey] /\ indexed' \in SUBSET StateKey
    <3>1. CASE TakeIndex(t)
      BY <1>0, <1>e, <3>1 DEF TakeIndex, LockedStage
    <3>2. CASE RemoveOld(t)
      BY <1>0, <3>2 DEF RemoveOld
    <3>3. CASE AddNew(t)
      BY <1>0, <1>e, <3>3 DEF AddNew, LockedStage
    <3> QED BY <1>4, <3>1, <3>2, <3>3
  <2>4. racedValues' \in SUBSET FieldValue
    <3>1. CASE TakeIndex(t)
      <4>1. At(t, "toRemove") => thread[t].old \in FieldValue
        BY <1>0, Stages DEF At
      <4>2. At(t, "toAdd") => thread[t].event.val \in FieldValue
        BY <1>e DEF LockedStage
      <4> QED BY <1>0, <3>1, <4>1, <4>2 DEF TakeIndex
    <3> QED BY <1>0, <1>4, <3>1 DEF RemoveOld, AddNew
  <2> QED BY <1>0, <1>4, <2>2, <2>3, <2>4 DEF TakeIndex, RemoveOld, AddNew
<1>5. CASE Unlock(t)
  <2> DEFINE s == [stage |-> "unsent", event |-> thread[t].event]
  <2>1. At(t, "done") /\ thread' = [thread EXCEPT ![t] = s]
    BY <1>5 DEF Unlock
  <2>2. s \in ThreadState
    BY <1>e, <2>1 DEF ThreadState, Applying, LockedStage
  <2>3. Onward(thread[t], s)
    BY <2>1 DEF Onward, At, LockedStage
  <2> QED BY <1>0, <1>5, <2>1, <2>2, <2>3 DEF Unlock, engineState
<1>6. CASE EndCheck(t) \/ LockFails(t)
  <2>1. racedValues' \in SUBSET FieldValue
    BY <1>0, <1>e, <1>6 DEF EndCheck, LockFails, engineState
  <2> QED BY <1>0, <1>2, <1>6, <2>1 DEF EndCheck, LockFails, engineState
<1>7. ASSUME NEW e \in StateEvent, BeginCheck(t, e)
      PROVE  /\ index' \in [FieldValue -> SUBSET StateKey] /\ indexed' \in SUBSET StateKey
             /\ racedValues' \in SUBSET FieldValue /\ applies' \in 0..MaxApplies
             /\ UNCHANGED <<entries, channel, writerState, sent, racedKeys, flushErrors,
                            engineCrashes>>
  BY <1>0, <1>7, EngineAssumption DEF BeginCheck, StateEvent
<1> QED BY <1>1, <1>4, <1>5, <1>6, <1>7 DEF EngineStep

LEMMA TaggedNext == ASSUME Tagged, [EngineNext]_engineVars PROVE Tagged'
<1>0. /\ EngineTypeOK /\ thread \in [Thread -> ThreadState]
      /\ channel \in Seq(EventMsg \cup FlushMsg)
  BY DEF Tagged, EngineTypeOK, ThreadState
<1>1. ASSUME NEW t \in Thread, EngineStep(t) PROVE Tagged'
  <2>1. PICK s \in ThreadState : thread' = [thread EXCEPT ![t] = s] /\ Onward(thread[t], s)
    BY <1>1, EngineStepOf
  <2>2. /\ index' \in [FieldValue -> SUBSET StateKey] /\ indexed' \in SUBSET StateKey
        /\ racedValues' \in SUBSET FieldValue /\ applies' \in 0..MaxApplies
        /\ UNCHANGED <<entries, channel, writerState, sent, racedKeys, flushErrors,
                       engineCrashes>>
    BY <1>1, EngineStepOf
  <2>3. /\ thread' \in [Thread -> ThreadState]
        /\ \A u \in Thread : u # t => thread'[u] = thread[u]
    BY <1>0, <2>1, Moves
  <2>4. FlushQueue'
    BY <2>1, <2>2, <2>3, QueueStays DEF Onward, At, LockedStage
  <2> QED BY <1>0, <2>2, <2>3, <2>4 DEF Tagged, EngineTypeOK, ThreadState, writerState
<1>2. ASSUME NEW t \in Thread, LockAndApply(t) PROVE Tagged'
  <2>a. PICK e, old : e = thread[t].event /\ old = entries[thread[t].event.key]
    OBVIOUS
  <2>b. PICK x : x = CASE old = e.val -> "done" [] old = NoValue -> "toAdd" [] OTHER -> "toRemove"
    OBVIOUS
  <2> DEFINE s == [stage |-> x, event |-> e, old |-> old]
  <2>1. At(t, "checked") /\ UNCHANGED channel /\ thread' = [thread EXCEPT ![t] = s]
    BY <1>2, <2>a, <2>b DEF LockAndApply
  <2>2. e \in StateEvent /\ e.key \in StateKey /\ e.val \in 0..MaxField /\ e.val \in FieldValue
    <3>1. e \in StateEvent
      BY <1>0, <2>1, <2>a, Stages DEF At
    <3> QED BY <3>1, EngineAssumption DEF StateEvent, FieldValue
  <2>3. s \in ThreadState
    <3>1. old \in 0..MaxField
      BY <1>0, <2>2, <2>a DEF EngineTypeOK
    <3>2. x \in {"toAdd", "done"} \/ (x = "toRemove" /\ old # NoValue)
      BY <2>b
    <3> QED BY <2>2, <3>1, <3>2, 0 \in Nat, MadeStages
  <2>4. /\ thread' \in [Thread -> ThreadState]
        /\ \A u \in Thread : u # t => thread'[u] = thread[u]
    BY <1>0, <2>1, <2>3, Moves
  <2>5. FlushQueue'
    BY <2>1, <2>4, QueueStays DEF At
  <2>6. entries' \in [StateKey -> 0..MaxField]
    BY <1>0, <1>2, <2>2, <2>a DEF LockAndApply, EngineTypeOK
  <2>7. racedKeys' \in SUBSET StateKey
    BY <1>0, <1>2, <2>2, <2>a DEF LockAndApply, EngineTypeOK
  <2>8. UNCHANGED <<index, indexed, racedValues, channel, writerState, applies, sent,
                    flushErrors, engineCrashes>>
    BY <1>2 DEF LockAndApply
  <2> QED BY <1>0, <2>4, <2>5, <2>6, <2>7, <2>8
          DEF Tagged, EngineTypeOK, ThreadState, writerState
<1>3. ASSUME NEW t \in Thread, FlushReturns(t) PROVE Tagged'
  <2>1. ~At(t, "flushing") /\ UNCHANGED channel /\ thread' = [thread EXCEPT ![t] = Idle]
    BY <1>3 DEF FlushReturns, At
  <2>2. Idle \in ThreadState
    BY DEF ThreadState
  <2>3. /\ thread' \in [Thread -> ThreadState]
        /\ \A u \in Thread : u # t => thread'[u] = thread[u]
    BY <1>0, <2>1, <2>2, Moves
  <2>4. FlushQueue'
    BY <2>1, <2>3, QueueStays
  <2> QED BY <1>0, <1>3, <2>3, <2>4 DEF FlushReturns, Tagged, EngineTypeOK,
             ThreadState, writerState, engineState
<1>5. ASSUME NEW t \in Thread, SendEvent(t) PROVE Tagged'
  <2> DEFINE m == [kind |-> "event", event |-> thread[t].event]
  <2>1. /\ At(t, "unsent") /\ channel' = Append(channel, m)
        /\ thread' = [thread EXCEPT ![t] = Idle] /\ sent' = sent + 1
        /\ UNCHANGED <<engineState, writerState, applies, racedKeys, flushErrors, engineCrashes>>
    BY <1>5 DEF SendEvent
  <2>2. m \in EventMsg \cup FlushMsg /\ m.kind = "event"
    BY <1>0, <2>1, Stages, Messages DEF At
  <2> HIDE DEF m
  <2>3. Idle \in ThreadState
    BY DEF ThreadState
  <2>4. /\ thread' \in [Thread -> ThreadState] /\ thread'[t] = Idle
        /\ \A u \in Thread : u # t => thread'[u] = thread[u]
    BY <1>0, <2>1, <2>3, Moves
  <2>5. /\ channel' \in Seq(EventMsg \cup FlushMsg)
        /\ \A i \in DOMAIN channel' : channel'[i].kind = "flush" =>
                                        i \in DOMAIN channel /\ channel'[i] = channel[i]
    BY <1>0, <2>1, <2>2, Put
  <2>6. \A i \in DOMAIN channel : channel[i].kind = "flush" =>
          channel[i].by \in Thread /\ At(channel[i].by, "flushing") /\ channel[i].by # t
    BY <1>0, <2>1, Messages DEF Tagged, FlushQueue, At
  <2>7. FlushQueue'
    BY <2>4, <2>5, <2>6 DEF Tagged, FlushQueue, At
  <2> QED BY <1>0, <2>1, <2>4, <2>5, <2>7
          DEF Tagged, EngineTypeOK, ThreadState, engineState, writerState
<1>6. ASSUME NEW t \in Thread, RequestFlush(t) PROVE Tagged'
  <2> DEFINE m == [kind |-> "flush", by |-> t]
             s == [stage |-> "flushing", owed |-> sent]
  <2>1. /\ At(t, "idle") /\ channel' = Append(channel, m)
        /\ \A u \in Thread : ~At(u, "flushing")
        /\ thread' = [thread EXCEPT ![t] = s]
        /\ UNCHANGED <<engineState, writerState, applies, sent, racedKeys, flushErrors,
                       engineCrashes>>
    BY <1>6 DEF RequestFlush
  <2>2. m \in EventMsg \cup FlushMsg /\ m.by = t
    BY Messages
  <2> HIDE DEF m
  <2>3. s \in ThreadState /\ s.stage = "flushing"
    BY <1>0 DEF ThreadState, Flushing, EngineTypeOK
  <2> HIDE DEF s
  <2>4. /\ thread' \in [Thread -> ThreadState] /\ thread'[t] = s
    BY <1>0, <2>1, <2>3, Moves
  <2>5. /\ channel' \in Seq(EventMsg \cup FlushMsg)
        /\ \A i \in DOMAIN channel' : \/ i \in DOMAIN channel /\ channel'[i] = channel[i]
                                      \/ i = Len(channel) + 1 /\ channel'[i] = m
    BY <1>0, <2>1, <2>2, Put
  <2>6. \A i \in DOMAIN channel : channel[i].kind # "flush"
    BY <1>0, <2>1, Messages DEF Tagged, FlushQueue
  <2>7. FlushQueue'
    BY <2>2, <2>3, <2>4, <2>5, <2>6 DEF FlushQueue, At
  <2> QED BY <1>0, <2>1, <2>4, <2>5, <2>7
          DEF Tagged, EngineTypeOK, ThreadState, engineState, writerState
<1>7. CASE TakeEvent
  <2>1. /\ channel # <<>> /\ Head(channel).kind = "event" /\ channel' = Tail(channel)
        /\ UNCHANGED <<engineState, thread, applies, sent, racedKeys, engineCrashes>>
    BY <1>7 DEF TakeEvent
  <2> DEFINE events == Append(pending, Head(channel).event)
  <2>2. events \in Seq(StateEvent) /\ Len(pending) \in Nat
    BY <1>0, <2>1, Taken, Messages DEF EngineTypeOK
  <2>3. \/ WriteOut(events)
        \/ Len(events) < BatchSize /\ pending' = events /\ UNCHANGED <<unwritten, eventLog, flushErrors>>
    <3>1. Len(events) \in Nat /\ BatchSize \in Nat
      BY <2>2, EngineAssumption
    <3> QED BY <1>7, <3>1 DEF TakeEvent
  <2> HIDE DEF events
  <2>4. /\ pending' \in Seq(StateEvent) /\ Len(pending') < BatchSize
        /\ unwritten' \in Seq(StateEvent) /\ eventLog' \in Seq(StateEvent)
        /\ flushErrors' \in 0..MaxFlushErrors
    <3>1. CASE WriteOut(events)
      BY <1>0, <2>2, <3>1, Written
    <3> QED BY <1>0, <2>2, <2>3, <3>1 DEF EngineTypeOK
  <2>5. channel' \in Seq(EventMsg \cup FlushMsg)
    BY <1>0, <2>1, Taken
  <2>6. FlushQueue'
    BY <1>0, <2>1, Taken DEF Tagged, FlushQueue, At
  <2> QED BY <1>0, <2>1, <2>4, <2>5, <2>6 DEF Tagged, EngineTypeOK, ThreadState, engineState
<1>8. CASE TakeFlush
  <2> DEFINE t == Head(channel).by
             s == [thread[t] EXCEPT !.stage = "flushed"]
  <2>1. /\ channel # <<>> /\ Head(channel).kind = "flush" /\ channel' = Tail(channel)
        /\ WriteOut(pending) /\ thread' = [thread EXCEPT ![t] = s]
        /\ UNCHANGED <<engineState, applies, sent, racedKeys, engineCrashes>>
    BY <1>8 DEF TakeFlush
  <2>2. t \in Thread /\ At(t, "flushing")
    BY <1>0, <2>1, Taken, Messages DEF Tagged, FlushQueue
  <2>3. s \in ThreadState
    BY <1>0, <2>2, Stages DEF At, ThreadState
  <2>4. thread' \in [Thread -> ThreadState]
    BY <1>0, <2>1, <2>2, <2>3, Moves
  <2>5. /\ pending' \in Seq(StateEvent) /\ Len(pending') < BatchSize
        /\ unwritten' \in Seq(StateEvent) /\ eventLog' \in Seq(StateEvent)
        /\ flushErrors' \in 0..MaxFlushErrors
    <3>1. pending \in Seq(StateEvent)
      BY <1>0 DEF EngineTypeOK
    <3> QED BY <1>0, <2>1, <3>1, Written
  <2>6. channel' \in Seq(EventMsg \cup FlushMsg)
    BY <1>0, <2>1, Taken
  <2>7. \A i \in DOMAIN channel' : channel'[i].kind # "flush"
    <3>1. ASSUME NEW i \in DOMAIN channel', channel'[i].kind = "flush" PROVE FALSE
      <4>1. i + 1 \in DOMAIN channel /\ channel[i + 1].kind = "flush" /\ i + 1 # 1
        BY <1>0, <2>1, <3>1, Taken
      <4>2. 1 \in DOMAIN channel /\ channel[1].kind = "flush"
        BY <1>0, <2>1, Taken
      <4> QED BY <4>1, <4>2 DEF Tagged, FlushQueue
    <3> QED BY <3>1
  <2>8. FlushQueue'
    BY <2>7 DEF FlushQueue
  <2> QED BY <1>0, <2>1, <2>4, <2>5, <2>6, <2>8 DEF Tagged, EngineTypeOK, ThreadState, engineState
<1>9. CASE FlushTimer
  <2>1. /\ WriteOut(pending)
        /\ UNCHANGED <<engineState, thread, channel, applies, sent, racedKeys, engineCrashes>>
    BY <1>9 DEF FlushTimer
  <2>2. /\ pending' \in Seq(StateEvent) /\ Len(pending') < BatchSize
        /\ unwritten' \in Seq(StateEvent) /\ eventLog' \in Seq(StateEvent)
        /\ flushErrors' \in 0..MaxFlushErrors
    <3>1. pending \in Seq(StateEvent)
      BY <1>0 DEF EngineTypeOK
    <3> QED BY <1>0, <2>1, <3>1, Written
  <2>3. FlushQueue'
    BY <2>1 DEF Tagged, FlushQueue, At
  <2> QED BY <1>0, <2>1, <2>2, <2>3 DEF Tagged, EngineTypeOK, engineState
<1>10. CASE EngineCrash
  <2>1. /\ engineCrashes < MaxEngineCrashes /\ engineCrashes' = engineCrashes + 1
        /\ entries' = [k \in StateKey |-> LastValue(k, eventLog)]
        /\ index' = [v \in FieldValue |-> {}]
        /\ indexed' = {} /\ racedValues' = {} /\ racedKeys' = {}
        /\ thread' = [t \in Thread |-> Idle]
        /\ channel' = <<>> /\ pending' = <<>> /\ unwritten' = <<>>
        /\ sent' = Len(eventLog)
        /\ UNCHANGED <<eventLog, applies, flushErrors>>
    BY <1>10 DEF EngineCrash
  <2>2. entries' \in [StateKey -> 0..MaxField]
    BY <1>0, <2>1, LastIsTyped DEF EngineTypeOK
  <2>3. thread' \in [Thread -> ThreadState] /\ index' \in [FieldValue -> SUBSET StateKey]
    BY <2>1 DEF ThreadState
  <2>4. engineCrashes' \in 0..MaxEngineCrashes /\ Len(pending') < BatchSize /\ sent' \in Nat
    BY <1>0, <2>1, EngineAssumption DEF EngineTypeOK
  <2>5. /\ channel' \in Seq(EventMsg \cup FlushMsg) /\ pending' \in Seq(StateEvent)
        /\ unwritten' \in Seq(StateEvent)
    BY <2>1
  <2>6. FlushQueue'
    BY <2>1 DEF FlushQueue
  <2>7. EngineTypeOK'
    BY <1>0, <2>1, <2>2, <2>3, <2>4, <2>5 DEF EngineTypeOK, ThreadState
  <2> QED BY <2>6, <2>7 DEF Tagged
<1>11. CASE UNCHANGED engineVars
  BY <1>11 DEF engineVars, engineState, writerState, Tagged, EngineTypeOK, FlushQueue, At
<1> QED BY <1>1, <1>2, <1>3, <1>5, <1>6, <1>7, <1>8, <1>9, <1>10, <1>11 DEF EngineNext, EngineStep

LEMMA AlwaysTagged == EngineSpec => []Tagged
<1>1. EngineInit => Tagged
  BY TaggedInit
<1>2. Tagged /\ [EngineNext]_engineVars => Tagged'
  BY TaggedNext
<1> QED BY <1>1, <1>2, PTL DEF EngineSpec

\* Every reachable state has the types.
THEOREM EngineTypeCorrect == EngineSpec => []EngineTypeOK
<1>1. Tagged => EngineTypeOK
  BY DEF Tagged
<1> QED BY <1>1, AlwaysTagged, PTL

----------------------------------------------------------------------------
(* The index and the entries. *)

\* The thread has the entry of a key; it has an event's value in hand, which the
\* check let pass, to be indexed still.
AtKey(t, k) == HasEntry(t) /\ thread[t].event.key = k
InFlight(t) == thread[t].stage \in {"checked", "toRemove", "removing", "toAdd", "adding"}
Bears(t, k, v) == InFlight(t) /\ thread[t].event.key = k /\ thread[t].event.val = v

\* One thread at a time has an entry, which holds its event; the event changed the
\* entry, unless all is done; and an entry in the index is there.
OneAtATime ==
    /\ \A t \in Thread, k \in StateKey : AtKey(t, k) => entries[k] = thread[t].event.val
    /\ \A t, u \in Thread, k \in StateKey : AtKey(t, k) /\ AtKey(u, k) => t = u
    /\ \A k \in indexed : entries[k] # NoValue
    /\ \A t \in Thread : HasEntry(t) /\ ~At(t, "done") => thread[t].old # thread[t].event.val

\* What the index says of a key, as the state of an entry changes under its lock:
\* what the entry held before, then nothing, then what it holds.
Was(t, k, v) == AtKey(t, k) /\ thread[t].stage \in {"toRemove", "removing"}
                  => (k \in index[v] <=> k \in indexed /\ thread[t].old = v)
Out(t, k, v) == AtKey(t, k) /\ thread[t].stage \in {"toAdd", "adding"} => k \notin index[v]
Is(k, v) == k \in index[v] <=> k \in indexed /\ entries[k] = v
IndexFollows ==
    \A v \in FieldValue \ racedValues, k \in StateKey :
        /\ (\A t \in Thread : AtKey(t, k) => At(t, "done")) => Is(k, v)
        /\ \A t \in Thread : Was(t, k, v) /\ Out(t, k, v)

\* A key is in the index with a value, or about to be.
Claims(k, v) == k \in index[v] \/ \E t \in Thread : Bears(t, k, v)

\* As long as nobody was kept from the index at a value, one key claims it.
OneHolds ==
    \A v \in FieldValue \ racedValues, k, l \in StateKey : Claims(k, v) /\ Claims(l, v) => k = l

IndexInv == OneAtATime /\ IndexFollows /\ OneHolds

\* Claims that go away leave the others unique.
LEMMA FewerClaims ==
    ASSUME OneHolds, racedValues \subseteq racedValues',
           \A v \in FieldValue \ racedValues', k \in StateKey : Claims(k, v)' => Claims(k, v)
    PROVE  OneHolds'
  BY DEF OneHolds

\* Steps that leave the entries and the index alone, and the threads at them but
\* for one that gives up before it has the lock, or releases it when all is done.
LEMMA Quiet ==
    ASSUME Tagged, IndexInv, UNCHANGED <<entries, index, indexed>>,
           racedValues \subseteq racedValues',
           \A t \in Thread : \/ thread'[t] = thread[t]
                             \/ /\ ~HasEntry(t) \/ At(t, "done")
                                /\ thread'[t].stage \notin LockedStage \cup {"checked"}
    PROVE  IndexInv'
<1>1. \A t \in Thread : /\ HasEntry(t)' => HasEntry(t) /\ thread'[t] = thread[t]
                        /\ InFlight(t)' => InFlight(t) /\ thread'[t] = thread[t]
                        /\ HasEntry(t) => HasEntry(t)' \/ At(t, "done")
  BY DEF HasEntry, InFlight, At, LockedStage
<1>2. \A t \in Thread, k \in StateKey :
        /\ AtKey(t, k)' => AtKey(t, k) /\ thread'[t] = thread[t]
        /\ AtKey(t, k) => At(t, "done") \/ AtKey(t, k)'
  BY <1>1 DEF AtKey, HasEntry
<1>3. OneAtATime'
  BY <1>1, <1>2 DEF IndexInv, OneAtATime, HasEntry, At
<1>4. IndexFollows'
  <2>1. SUFFICES ASSUME NEW v \in FieldValue \ racedValues', NEW k \in StateKey
                 PROVE  /\ (\A t \in Thread : AtKey(t, k)' => At(t, "done")') => Is(k, v)'
                        /\ \A t \in Thread : Was(t, k, v)' /\ Out(t, k, v)'
    BY DEF IndexFollows
  <2>2. v \in FieldValue \ racedValues /\ (Is(k, v)' <=> Is(k, v))
    BY <2>1 DEF Is
  <2>3. (\A t \in Thread : AtKey(t, k)' => At(t, "done")') =>
           \A t \in Thread : AtKey(t, k) => At(t, "done")
    BY <1>2 DEF At
  <2>4. \A t \in Thread : Was(t, k, v)' /\ Out(t, k, v)'
    BY <1>2, <2>2 DEF IndexInv, IndexFollows, Was, Out
  <2> QED BY <2>2, <2>3, <2>4 DEF IndexInv, IndexFollows
<1>5. OneHolds'
  BY <1>1, FewerClaims DEF IndexInv, Claims, Bears
<1> QED BY <1>3, <1>4, <1>5 DEF IndexInv

\* A check that passes found the value free, or the value counts as raced.
LEMMA CheckKeeps ==
    ASSUME Tagged, IndexInv, NEW t \in Thread, NEW e \in StateEvent, ~HasEntry(t),
           UNCHANGED <<entries, index, indexed>>, racedValues \subseteq racedValues',
           thread' = [thread EXCEPT ![t] = [stage |-> "checked", event |-> e]],
           e.val \in racedValues' \/ (index[e.val] \subseteq {e.key} /\ ~Rival(t, e))
    PROVE  IndexInv'
<1>0. thread \in [Thread -> ThreadState] /\ e.key \in StateKey /\ e.val \in FieldValue
  BY DEF Tagged, EngineTypeOK, ThreadState, StateEvent
<1>1. /\ thread'[t].stage = "checked" /\ thread'[t].event = e
      /\ \A u \in Thread : u # t => thread'[u] = thread[u]
  BY <1>0
<1>2. \A u \in Thread, k \in StateKey : /\ AtKey(u, k)' <=> AtKey(u, k)
                                        /\ AtKey(u, k) => thread'[u] = thread[u]
  BY <1>1 DEF AtKey, HasEntry, LockedStage
<1>3. OneAtATime'
  <2>1. \A u \in Thread : HasEntry(u)' => HasEntry(u) /\ thread'[u] = thread[u]
    BY <1>1 DEF HasEntry, LockedStage
  <2> QED BY <1>2, <2>1 DEF IndexInv, OneAtATime, At
<1>4. IndexFollows'
  <2>1. SUFFICES ASSUME NEW v \in FieldValue \ racedValues', NEW k \in StateKey
                 PROVE  /\ (\A u \in Thread : AtKey(u, k)' => At(u, "done")') => Is(k, v)'
                        /\ \A u \in Thread : Was(u, k, v)' /\ Out(u, k, v)'
    BY DEF IndexFollows
  <2> QED BY <1>2, <2>1 DEF IndexInv, IndexFollows, Is, Was, Out, At
<1>5. OneHolds'
  <2>1. SUFFICES ASSUME NEW v \in FieldValue \ racedValues', NEW k \in StateKey, NEW l \in StateKey,
                        Claims(k, v)', Claims(l, v)'
                 PROVE  k = l
    BY DEF OneHolds
  <2>2. \A m \in StateKey : Claims(m, v)' => Claims(m, v) \/ (m = e.key /\ v = e.val)
    BY <1>1 DEF Claims, Bears, InFlight
  <2>3. CASE v # e.val
    BY <2>1, <2>2, <2>3 DEF IndexInv, OneHolds
  <2>4. CASE v = e.val
    <3>1. \A m \in StateKey : Claims(m, v)' => m = e.key
      <4>1. SUFFICES ASSUME NEW m \in StateKey, Claims(m, v)', m # e.key PROVE FALSE
        OBVIOUS
      <4>2. index[e.val] \subseteq {e.key} /\ ~Rival(t, e)
        BY <2>1, <2>4
      <4>3. PICK u \in Thread : Bears(u, m, v)'
        BY <2>4, <4>1, <4>2 DEF Claims
      <4>4. u # t /\ Bears(u, m, v)
        BY <1>1, <4>1, <4>3 DEF Bears, InFlight
      <4> QED BY <2>4, <4>1, <4>2, <4>4 DEF Bears, InFlight, Rival, Others, LockedStage
    <3> QED BY <2>1, <3>1
  <2> QED BY <2>3, <2>4
<1> QED BY <1>3, <1>4, <1>5 DEF IndexInv

\* A thread takes the lock of an entry and applies its event: what it claims, it
\* claimed before.
LEMMA LockKeeps ==
    ASSUME Tagged, IndexInv, NEW t \in Thread, LockAndApply(t)
    PROVE  IndexInv'
<1>a. PICK e, old : e = thread[t].event /\ old = entries[thread[t].event.key]
  OBVIOUS
<1>b. PICK x : x = CASE old = e.val -> "done" [] old = NoValue -> "toAdd" [] OTHER -> "toRemove"
  OBVIOUS
<1>0. thread \in [Thread -> ThreadState] /\ entries \in [StateKey -> 0..MaxField]
  BY DEF Tagged, EngineTypeOK, ThreadState
<1>1. /\ At(t, "checked") /\ UNCHANGED <<index, indexed, racedValues>>
      /\ \A u \in Thread : u # t /\ HasEntry(u) => thread[u].event.key # e.key
      /\ entries' = [entries EXCEPT ![e.key] = e.val]
      /\ thread' = [thread EXCEPT ![t] = [stage |-> x, event |-> e, old |-> old]]
  BY <1>a, <1>b DEF LockAndApply, Others
<1>2. e.key \in StateKey /\ e.val \in FieldValue /\ e.val # NoValue
  <2>1. e \in StateEvent
    BY <1>a, <1>0, <1>1, Stages DEF At
  <2> QED BY <2>1, EngineAssumption DEF StateEvent, FieldValue, NoValue
<1>3. /\ thread'[t].stage = x /\ thread'[t].event = e /\ thread'[t].old = old
      /\ \A u \in Thread : u # t => thread'[u] = thread[u]
      /\ entries'[e.key] = e.val /\ \A k \in StateKey : k # e.key => entries'[k] = entries[k]
  BY <1>0, <1>1, <1>2
<1>x. /\ x \in LockedStage /\ x \in {"toRemove", "toAdd", "done"}
      /\ x = "done" <=> old = e.val
      /\ x = "toAdd" => old = NoValue
  BY <1>b, <1>2 DEF LockedStage
<1>4. /\ \A u \in Thread, k \in StateKey : u # t => (AtKey(u, k)' <=> AtKey(u, k))
      /\ \A k \in StateKey : ~AtKey(t, k) /\ (AtKey(t, k)' <=> k = e.key)
      /\ \A u \in Thread : ~AtKey(u, e.key)
  BY <1>1, <1>3, <1>x DEF AtKey, At, HasEntry, LockedStage
<1>5. OneAtATime'
  <2>1. \A u \in Thread : HasEntry(u)' /\ ~At(u, "done")' => thread'[u].old # thread'[u].event.val
    BY <1>1, <1>3, <1>x DEF IndexInv, OneAtATime, HasEntry, At
  <2> QED BY <1>1, <1>2, <1>3, <1>4, <2>1 DEF IndexInv, OneAtATime, AtKey
<1>6. IndexFollows'
  <2>1. SUFFICES ASSUME NEW v \in FieldValue \ racedValues', NEW k \in StateKey
                 PROVE  /\ (\A u \in Thread : AtKey(u, k)' => At(u, "done")') => Is(k, v)'
                        /\ \A u \in Thread : Was(u, k, v)' /\ Out(u, k, v)'
    BY DEF IndexFollows
  <2>2. v \in FieldValue \ racedValues
    BY <1>1, <2>1
  <2>3. CASE k = e.key
    <3>1. k \in index[v] <=> k \in indexed /\ old = v
      BY <1>a, <1>4, <2>2, <2>3 DEF IndexInv, IndexFollows, Is
    <3>2. v # NoValue
      BY <2>2, EngineAssumption DEF FieldValue, NoValue
    <3>3. \A u \in Thread : AtKey(u, k)' => u = t
      BY <1>4, <2>3
    <3>4. (\A u \in Thread : AtKey(u, k)' => At(u, "done")') => Is(k, v)'
      <4>1. SUFFICES ASSUME \A u \in Thread : AtKey(u, k)' => At(u, "done")' PROVE Is(k, v)'
        OBVIOUS
      <4>2. x = "done"
        BY <1>3, <1>4, <2>3, <4>1 DEF At
      <4> QED BY <1>1, <1>3, <1>x, <2>3, <3>1, <4>2 DEF Is
    <3>5. \A u \in Thread : Was(u, k, v)' /\ Out(u, k, v)'
      BY <1>1, <1>3, <1>x, <3>1, <3>2, <3>3 DEF Was, Out
    <3> QED BY <3>4, <3>5
  <2>4. CASE k # e.key
    <3>1. /\ \A u \in Thread : AtKey(u, k)' <=> AtKey(u, k)
          /\ \A u \in Thread : AtKey(u, k) => thread'[u] = thread[u]
          /\ entries'[k] = entries[k]
      BY <1>3, <1>4, <2>4
    <3> QED BY <1>1, <2>2, <3>1 DEF IndexInv, IndexFollows, Is, Was, Out, At
  <2> QED BY <2>3, <2>4
<1>7. \A u \in Thread, k \in StateKey, v \in FieldValue : Bears(u, k, v)' => Bears(u, k, v)
  BY <1>a, <1>1, <1>3 DEF Bears, InFlight, At
<1>8. OneHolds'
  BY <1>1, <1>7, FewerClaims DEF IndexInv, Claims
<1> QED BY <1>5, <1>6, <1>8 DEF IndexInv

\* The index is right for the key and the stage that a thread goes on to, and the
\* key claims nothing new.
RightNext(t, e, x) ==
    \A v \in FieldValue \ racedValues' :
        /\ x = "done" => (e.key \in index'[v] <=> e.key \in indexed' /\ e.val = v)
        /\ x \in {"toRemove", "removing"} =>
             (e.key \in index'[v] <=> e.key \in indexed' /\ thread[t].old = v)
        /\ x \in {"toAdd", "adding"} => e.key \notin index'[v]
        /\ e.key \in index'[v] => e.key \in index[v] \/ v = e.val
OthersStay(e) ==
    \A v \in FieldValue, k \in StateKey : k # e.key => (k \in index'[v] <=> k \in index[v])

\* A thread that has its entry goes one stage further: it is enough that the index
\* is right at its key, and that the key claims nothing new.
LEMMA GoesOn ==
    ASSUME Tagged, IndexInv, NEW t \in Thread, HasEntry(t), ~At(t, "done"),
           NEW e, e = thread[t].event, NEW x \in LockedStage,
           x \in {"toRemove", "removing"} => thread[t].stage \in {"toRemove", "removing"},
           thread' = [thread EXCEPT ![t].stage = x], UNCHANGED entries,
           racedValues \subseteq racedValues', indexed' \in {indexed, indexed \cup {e.key}},
           OthersStay(e), RightNext(t, e, x)
    PROVE  IndexInv'
<1> USE DEF OthersStay, RightNext
<1>0. thread \in [Thread -> ThreadState]
  BY DEF Tagged, EngineTypeOK, ThreadState
<1>1. /\ thread'[t].stage = x /\ thread'[t].event = e /\ thread'[t].old = thread[t].old
      /\ \A u \in Thread : u # t => thread'[u] = thread[u]
  <2>1. thread[t] \in ThreadState /\ thread[t].stage \in LockedStage
    BY <1>0 DEF HasEntry
  <2> DEFINE s == [thread[t] EXCEPT !.stage = x]
  <2>2. s.stage = x /\ s.event = e /\ s.old = thread[t].old
    BY <2>1, Staged
  <2>3. thread'[t] = s
    BY <1>0
  <2> HIDE DEF s
  <2> QED BY <1>0, <2>2, <2>3
<1>2. e \in StateEvent /\ e.key \in StateKey /\ e.val \in FieldValue /\ e.val # NoValue
  <2>1. e \in StateEvent
    BY <1>0, Stages DEF HasEntry
  <2> QED BY <2>1, EngineAssumption DEF StateEvent, FieldValue, NoValue
<1>3. /\ \A u \in Thread, k \in StateKey : AtKey(u, k)' <=> AtKey(u, k)
      /\ \A u \in Thread : AtKey(u, e.key) => u = t
      /\ \A k \in StateKey : k # e.key => ~AtKey(t, k)
      /\ AtKey(t, e.key) /\ entries[e.key] = e.val
  <2>1. \A u \in Thread, k \in StateKey : AtKey(u, k)' <=> AtKey(u, k)
    BY <1>1 DEF AtKey, HasEntry
  <2>2. AtKey(t, e.key)
    BY DEF AtKey
  <2> QED BY <1>2, <2>1, <2>2 DEF AtKey, IndexInv, OneAtATime
<1>4. OneAtATime'
  <2>1. \A u \in Thread : HasEntry(u)' /\ ~At(u, "done")' => thread'[u].old # thread'[u].event.val
    BY <1>1 DEF IndexInv, OneAtATime, HasEntry, At
  <2>2. \A k \in indexed' : entries'[k] # NoValue
    BY <1>2, <1>3 DEF IndexInv, OneAtATime
  <2>3. \A u \in Thread, k \in StateKey : AtKey(u, k)' => entries'[k] = thread'[u].event.val
    BY <1>1, <1>3 DEF IndexInv, OneAtATime
  <2> QED BY <1>3, <2>1, <2>2, <2>3 DEF IndexInv, OneAtATime
<1>5. IndexFollows'
  <2>1. SUFFICES ASSUME NEW v \in FieldValue \ racedValues', NEW k \in StateKey
                 PROVE  /\ (\A u \in Thread : AtKey(u, k)' => At(u, "done")') => Is(k, v)'
                        /\ \A u \in Thread : Was(u, k, v)' /\ Out(u, k, v)'
    BY DEF IndexFollows
  <2>2. CASE k = e.key
    <3>1. (\A u \in Thread : AtKey(u, k)' => At(u, "done")') => Is(k, v)'
      BY <1>1, <1>3, <2>1, <2>2 DEF At, Is
    <3>2. \A u \in Thread : Was(u, k, v)' /\ Out(u, k, v)'
      BY <1>1, <1>3, <2>1, <2>2 DEF Was, Out
    <3> QED BY <3>1, <3>2
  <2>3. CASE k # e.key
    <3>1. /\ \A u \in Thread : AtKey(u, k) => thread'[u] = thread[u]
          /\ k \in indexed' <=> k \in indexed
          /\ k \in index'[v] <=> k \in index[v]
      BY <1>1, <1>3, <2>3
    <3>2. v \in FieldValue \ racedValues
      BY <2>1
    <3> QED BY <1>3, <3>1, <3>2 DEF IndexInv, IndexFollows, Is, Was, Out, At
  <2> QED BY <2>2, <2>3
<1>6. OneHolds'
  <2>1. Bears(t, e.key, e.val)
    BY DEF Bears, InFlight, HasEntry, LockedStage, At
  <2>2. \A u \in Thread, k \in StateKey, v \in FieldValue : Bears(u, k, v)' => Bears(u, k, v)
    BY <1>1, <2>1 DEF Bears, InFlight
  <2>3. \A v \in FieldValue \ racedValues', k \in StateKey : Claims(k, v)' => Claims(k, v)
    BY <2>1, <2>2 DEF Claims
  <2> QED BY <2>3, FewerClaims DEF IndexInv
<1> QED BY <1>4, <1>5, <1>6 DEF IndexInv

\* The index is brought up to date, or the value that is left out counts as raced.
LEMMA IndexKeeps ==
    ASSUME Tagged, IndexInv, NEW t \in Thread, TakeIndex(t) \/ RemoveOld(t) \/ AddNew(t)
    PROVE  IndexInv'
<1>a. PICK e, old : e = thread[t].event /\ old = thread[t].old
  OBVIOUS
<1>0. thread \in [Thread -> ThreadState] /\ index \in [FieldValue -> SUBSET StateKey]
  BY DEF Tagged, EngineTypeOK, ThreadState
<1>1. HasEntry(t) /\ ~At(t, "done")
  BY DEF TakeIndex, RemoveOld, AddNew, HasEntry, At, LockedStage
<1>2. e.key \in StateKey /\ e.val \in FieldValue /\ AtKey(t, e.key) /\ old # e.val
  <2>1. e \in StateEvent
    BY <1>a, <1>0, <1>1, Stages DEF HasEntry
  <2> QED BY <1>a, <1>1, <2>1 DEF StateEvent, AtKey, IndexInv, OneAtATime
<1>3. /\ racedValues \subseteq racedValues'
      /\ thread[t].stage \in {"toRemove", "removing"} =>
           \A v \in FieldValue \ racedValues' : e.key \in index[v] <=> e.key \in indexed /\ old = v
      /\ thread[t].stage \in {"toAdd", "adding"} =>
           \A v \in FieldValue \ racedValues' : e.key \notin index[v]
  <2>1. racedValues \subseteq racedValues'
    BY DEF TakeIndex, RemoveOld, AddNew
  <2> QED BY <1>a, <1>2, <2>1 DEF IndexInv, IndexFollows, Was, Out
<1>4. CASE TakeIndex(t)
  <2>1. PICK x \in {"removing", "toAdd", "adding", "done"} :
          /\ thread' = [thread EXCEPT ![t].stage = x] /\ UNCHANGED <<entries, index>>
          /\ x = "removing" => At(t, "toRemove") /\ indexed' = indexed
          /\ x = "toAdd" => At(t, "toRemove") /\ indexed' = indexed /\ old \in racedValues'
          /\ x = "adding" => At(t, "toAdd") /\ indexed' = indexed
          /\ x = "done" => /\ At(t, "toAdd") /\ indexed' = indexed \cup {e.key}
                           /\ e.val \in racedValues'
    <3>1. ~(At(t, "toRemove") /\ At(t, "toAdd"))
      BY DEF At
    <3> QED BY <1>4, <1>a, <3>1 DEF TakeIndex
  <2>2. x \in LockedStage
    BY DEF LockedStage
  <2>3. RightNext(t, e, x) /\ OthersStay(e)
    BY <1>a, <1>3, <2>1 DEF At, RightNext, OthersStay
  <2>4. /\ x \in {"toRemove", "removing"} => thread[t].stage \in {"toRemove", "removing"}
        /\ indexed' \in {indexed, indexed \cup {e.key}}
    BY <2>1 DEF At
  <2> QED BY <1>a, <1>1, <1>3, <2>1, <2>2, <2>3, <2>4, GoesOn
<1>5. CASE RemoveOld(t)
  <2>1. /\ At(t, "removing") /\ thread' = [thread EXCEPT ![t].stage = "toAdd"]
        /\ index' = [index EXCEPT ![old] = @ \ {e.key}] /\ UNCHANGED <<entries, indexed>>
    BY <1>5, <1>a DEF RemoveOld
  <2>2. \A v \in FieldValue : index'[v] = IF v = old THEN index[v] \ {e.key} ELSE index[v]
    BY <1>0, <2>1
  <2>3. \A v \in FieldValue \ racedValues' : e.key \notin index'[v]
    BY <1>3, <2>1, <2>2 DEF At
  <2>4. RightNext(t, e, "toAdd") /\ OthersStay(e) /\ "toAdd" \in LockedStage
    BY <2>2, <2>3 DEF RightNext, OthersStay, LockedStage
  <2>5. /\ "toAdd" \notin {"toRemove", "removing"} /\ indexed' = indexed
        /\ thread' = [thread EXCEPT ![t].stage = "toAdd"] /\ UNCHANGED entries
    BY <2>1
  <2> QED BY <1>a, <1>1, <1>3, <2>4, <2>5, GoesOn
<1>6. CASE AddNew(t)
  <2>1. /\ At(t, "adding") /\ thread' = [thread EXCEPT ![t].stage = "done"]
        /\ index' = [index EXCEPT ![e.val] = @ \cup {e.key}] /\ UNCHANGED entries
        /\ indexed' = indexed \cup {e.key}
    BY <1>6, <1>a DEF AddNew
  <2>2. \A v \in FieldValue : index'[v] = IF v = e.val THEN index[v] \cup {e.key} ELSE index[v]
    BY <1>0, <1>2, <2>1
  <2>3. \A v \in FieldValue \ racedValues' : e.key \in index'[v] <=> e.val = v
    BY <1>3, <2>1, <2>2 DEF At
  <2>4. RightNext(t, e, "done") /\ OthersStay(e) /\ "done" \in LockedStage
    BY <2>1, <2>2, <2>3 DEF RightNext, OthersStay, LockedStage
  <2>5. /\ "done" \notin {"toRemove", "removing"} /\ indexed' = indexed \cup {e.key}
        /\ thread' = [thread EXCEPT ![t].stage = "done"] /\ UNCHANGED entries
    BY <2>1
  <2> QED BY <1>a, <1>1, <1>3, <2>4, <2>5, GoesOn
<1> QED BY <1>4, <1>5, <1>6

LEMMA IndexNext ==
    ASSUME Tagged, IndexInv, [EngineNext]_engineVars
    PROVE  IndexInv'
<1>0. thread \in [Thread -> ThreadState]
  BY DEF Tagged, EngineTypeOK, ThreadState
<1>1. ASSUME NEW t \in Thread, NEW e \in StateEvent, BeginCheck(t, e) PROVE IndexInv'
  <2>1. /\ At(t, "idle") /\ UNCHANGED <<entries, index, indexed>>
        /\ racedValues \subseteq racedValues'
        /\ \/ thread' = [thread EXCEPT ![t] = [stage |-> "checking", event |-> e]]
           \/ /\ thread' = [thread EXCEPT ![t] = [stage |-> "checked", event |-> e]]
              /\ e.val \in racedValues'
    BY <1>1 DEF BeginCheck
  <2>2. ~HasEntry(t)
    BY <2>1 DEF At, HasEntry, LockedStage
  <2>3. CASE thread' = [thread EXCEPT ![t] = [stage |-> "checking", event |-> e]]
    <3>1. /\ thread'[t].stage = "checking"
          /\ \A u \in Thread : u # t => thread'[u] = thread[u]
      BY <1>0, <2>3
    <3> QED BY <2>1, <2>2, <3>1, Quiet DEF LockedStage
  <2> QED BY <2>1, <2>2, <2>3, CheckKeeps
<1>2. ASSUME NEW t \in Thread, EndCheck(t) PROVE IndexInv'
  <2>a. PICK e : e = thread[t].event
    OBVIOUS
  <2>1. /\ At(t, "checking") /\ UNCHANGED <<entries, index, indexed>>
        /\ racedValues \subseteq racedValues'
        /\ \/ /\ thread' = [thread EXCEPT ![t] = [stage |-> "checked", event |-> e]]
              /\ index[e.val] \subseteq {e.key}
              /\ Rival(t, e) => e.val \in racedValues'
           \/ thread' = [thread EXCEPT ![t] = Idle]
    BY <1>2, <2>a DEF EndCheck
  <2>2. ~HasEntry(t) /\ e \in StateEvent
    BY <1>0, <2>a, <2>1, Stages DEF At, HasEntry, LockedStage
  <2>3. CASE thread' = [thread EXCEPT ![t] = Idle]
    <3>1. /\ thread'[t].stage = "idle"
          /\ \A u \in Thread : u # t => thread'[u] = thread[u]
      BY <1>0, <2>3 DEF Idle
    <3> QED BY <2>1, <2>2, <3>1, Quiet DEF LockedStage
  <2> QED BY <2>1, <2>2, <2>3, CheckKeeps
<1>3. ASSUME NEW t \in Thread,
             LockFails(t) \/ Unlock(t) \/ SendEvent(t) \/ RequestFlush(t) \/ FlushReturns(t)
      PROVE  IndexInv'
  <2>1. /\ ~HasEntry(t) \/ At(t, "done")
        /\ UNCHANGED engineState
        /\ \E s : /\ s.stage \notin LockedStage \cup {"checked"}
                  /\ thread' = [thread EXCEPT ![t] = s]
    <3>1. /\ Idle.stage \notin LockedStage \cup {"checked"}
          /\ \A e : [stage |-> "unsent", event |-> e].stage \notin LockedStage \cup {"checked"}
          /\ \A n : [stage |-> "flushing", owed |-> n].stage \notin LockedStage \cup {"checked"}
      BY DEF Idle, LockedStage
    <3>2. ~HasEntry(t) \/ At(t, "done")
      BY <1>3 DEF LockFails, Unlock, SendEvent, RequestFlush, FlushReturns, At, HasEntry, LockedStage
    <3>3. UNCHANGED engineState
      BY <1>3 DEF LockFails, Unlock, SendEvent, RequestFlush, FlushReturns
    <3>4. \E s : s \in {Idle, [stage |-> "unsent", event |-> thread[t].event],
                        [stage |-> "flushing", owed |-> sent]}
                 /\ thread' = [thread EXCEPT ![t] = s]
      BY <1>3 DEF LockFails, Unlock, SendEvent, RequestFlush, FlushReturns
    <3> QED BY <3>1, <3>2, <3>3, <3>4
  <2>2. /\ thread'[t].stage \notin LockedStage \cup {"checked"}
        /\ \A u \in Thread : u # t => thread'[u] = thread[u]
    BY <1>0, <2>1
  <2> QED BY <2>1, <2>2, Quiet DEF engineState
<1>5. CASE TakeFlush
  <2> DEFINE t == Head(channel).by
  <2>1. /\ channel # <<>> /\ Head(channel).kind = "flush" /\ UNCHANGED engineState
        /\ thread' = [thread EXCEPT ![t] = [@ EXCEPT !.stage = "flushed"]]
    BY <1>5 DEF TakeFlush
  <2>2. channel \in Seq(EventMsg \cup FlushMsg)
    BY DEF Tagged, EngineTypeOK
  <2>3. t \in Thread /\ At(t, "flushing")
    BY <2>1, <2>2, Taken, Messages DEF Tagged, FlushQueue
  <2>4. thread'[t] \in Flushing("flushed")
    BY <1>0, <2>1, <2>3, Stages DEF At
  <2>5. /\ thread'[t].stage \notin LockedStage \cup {"checked"} /\ ~HasEntry(t)
        /\ \A u \in Thread : u # t => thread'[u] = thread[u]
    BY <1>0, <2>1, <2>3, <2>4 DEF At, Flushing, HasEntry, LockedStage
  <2> QED BY <2>1, <2>5, Quiet DEF engineState
<1>6. CASE TakeEvent \/ FlushTimer \/ UNCHANGED engineVars
  <2>1. UNCHANGED <<engineState, thread>>
    BY <1>6 DEF TakeEvent, FlushTimer, engineVars
  <2> QED BY <2>1, Quiet DEF engineState
<1>7. CASE EngineCrash
  <2>1. /\ index' = [v \in FieldValue |-> {}] /\ indexed' = {}
        /\ thread' = [t \in Thread |-> Idle]
    BY <1>7 DEF EngineCrash
  <2>2. \A t \in Thread : ~HasEntry(t)' /\ ~InFlight(t)'
    BY <2>1 DEF HasEntry, InFlight, Idle, LockedStage
  <2>3. \A t \in Thread, k \in StateKey : ~AtKey(t, k)'
    BY <2>2 DEF AtKey
  <2>4. OneAtATime'
    BY <2>1, <2>2, <2>3 DEF OneAtATime
  <2>5. IndexFollows'
    BY <2>1, <2>3 DEF IndexFollows, Is, Was, Out
  <2>6. OneHolds'
    BY <2>1, <2>2 DEF OneHolds, Claims, Bears
  <2> QED BY <2>4, <2>5, <2>6 DEF IndexInv
<1> QED BY <1>1, <1>2, <1>3, <1>5, <1>6, <1>7, LockKeeps, IndexKeeps DEF EngineNext

LEMMA AlwaysIndexInv == EngineSpec => []IndexInv
<1>1. EngineInit => IndexInv
  <2>1. SUFFICES ASSUME EngineInit PROVE IndexInv
    OBVIOUS
  <2>2. \A t \in Thread : ~HasEntry(t) /\ ~InFlight(t)
    BY <2>1 DEF EngineInit, HasEntry, InFlight, Idle, LockedStage
  <2>3. indexed = {} /\ \A v \in FieldValue : index[v] = {}
    BY <2>1 DEF EngineInit
  <2> QED BY <2>2, <2>3 DEF IndexInv, OneAtATime, IndexFollows, OneHolds, Claims, Bears, AtKey,
                            Is, Was, Out
<1>2. Tagged /\ IndexInv /\ [EngineNext]_engineVars => IndexInv'
  BY IndexNext
<1> QED BY <1>1, <1>2, AlwaysTagged, PTL DEF EngineSpec

\* As long as nobody was kept from the index at a value, its index has just the
\* keys of the entries with that value, however checks, refusals, locks and
\* changes of the index that were left out at other values interleave.
THEOREM IndexIsRight == EngineSpec => []IndexMatches
<1>1. IndexInv => IndexMatches
  BY DEF IndexInv, IndexFollows, IndexMatches, AtKey, Is
<1> QED BY <1>1, AlwaysIndexInv, PTL

\* Two entries of the index have the same value only if somebody was kept from the
\* index at that value (a check that found it taken by another thread's check, or a
\* change left out), or two threads found the value free at once.
THEOREM ValuesUnique == EngineSpec => []ValuesAreUnique
<1>1. Tagged /\ IndexInv => ValuesAreUnique
  <2>1. SUFFICES ASSUME Tagged, IndexInv, NEW k \in indexed, NEW l \in indexed,
                        k # l, entries[k] = entries[l], entries[k] \notin racedValues
                 PROVE  FALSE
    BY DEF ValuesAreUnique
  <2>2. k \in StateKey /\ l \in StateKey /\ entries[k] \in FieldValue
    BY <2>1, EngineAssumption DEF Tagged, EngineTypeOK, IndexInv, OneAtATime, FieldValue, NoValue
  <2>3. ASSUME NEW m \in indexed, entries[m] = entries[k] PROVE Claims(m, entries[k])
    <3>0. m \in StateKey
      BY <2>1 DEF Tagged, EngineTypeOK
    <3>1. CASE \A t \in Thread : AtKey(t, m) => At(t, "done")
      BY <2>1, <2>2, <2>3, <3>0, <3>1 DEF IndexInv, IndexFollows, Is, Claims
    <3>2. ASSUME NEW t \in Thread, AtKey(t, m), ~At(t, "done") PROVE Claims(m, entries[k])
      BY <2>1, <2>3, <3>0, <3>2
         DEF IndexInv, OneAtATime, AtKey, HasEntry, Claims, Bears, InFlight, At, LockedStage
    <3> QED BY <3>1, <3>2
  <2> QED BY <2>1, <2>2, <2>3 DEF IndexInv, OneHolds
<1> QED BY <1>1, AlwaysTagged, AlwaysIndexInv, PTL

----------------------------------------------------------------------------
(* The log and the entries. *)

\* Events of the entry k are in s, and i is the last of them.

LEMMA LastValueIs ==
    ASSUME NEW s \in Seq(StateEvent), NEW k
    PROVE  /\ ~TellsOf(k, s) => LastValue(k, s) = NoValue
           /\ TellsOf(k, s) => \E i \in DOMAIN s : IsLast(i, k, s)
           /\ \A i \in DOMAIN s : IsLast(i, k, s) => LastValue(k, s) = s[i].val
<1>1. LastIn(k, s) = {i \in DOMAIN s : IsLast(i, k, s)}
  BY DEF LastIn, IsLast
<1>2. ASSUME ~TellsOf(k, s) PROVE LastValue(k, s) = NoValue
  BY <1>1, <1>2 DEF LastValue, TellsOf, IsLast
<1>3. ASSUME TellsOf(k, s) PROVE \E i \in DOMAIN s : IsLast(i, k, s)
  <2> DEFINE S == {i \in DOMAIN s : s[i].key = k}
  <2>1. Len(s) \in Nat /\ S \in SUBSET (1..Len(s)) /\ S # {}
    BY <1>3 DEF TellsOf
  <2>2. \E i \in S : \A j \in S : j <= i
    <3> HIDE DEF S
    <3> QED BY <2>1, LastPosition
  <2> QED BY <2>2 DEF IsLast
<1>4. ASSUME NEW i \in DOMAIN s, IsLast(i, k, s) PROVE LastValue(k, s) = s[i].val
  <2>1. \A j \in LastIn(k, s) : j = i
    <3>1. SUFFICES ASSUME NEW j \in LastIn(k, s) PROVE j = i
      OBVIOUS
    <3>2. j \in Nat /\ i \in Nat /\ IsLast(j, k, s)
      BY <1>1, <3>1
    <3> QED BY <1>4, <3>2 DEF IsLast
  <2>2. i \in LastIn(k, s)
    BY <1>1, <1>4
  <2>3. (CHOOSE j \in LastIn(k, s) : TRUE) = i
    BY <2>1, <2>2
  <2> QED BY <2>2, <2>3 DEF LastValue
<1> QED BY <1>2, <1>3, <1>4

\* The last of two sequences decides, if it has anything to tell.
LEMMA LastOfBoth ==
    ASSUME NEW a \in Seq(StateEvent), NEW b \in Seq(StateEvent), NEW k
    PROVE  /\ LastValue(k, a \o b) = IF TellsOf(k, b) THEN LastValue(k, b) ELSE LastValue(k, a)
           /\ TellsOf(k, a \o b) <=> TellsOf(k, a) \/ TellsOf(k, b)
<1> DEFINE c == a \o b
<1>1. /\ c \in Seq(StateEvent) /\ Len(c) = Len(a) + Len(b) /\ Len(a) \in Nat /\ Len(b) \in Nat
      /\ \A i \in 1..Len(a) : c[i] = a[i]
      /\ \A i \in 1..Len(b) : c[Len(a) + i] = b[i]
      /\ DOMAIN a = 1..Len(a) /\ DOMAIN b = 1..Len(b) /\ DOMAIN c = 1..(Len(a) + Len(b))
  OBVIOUS
<1>2. \A i \in DOMAIN c : \/ i \in DOMAIN a /\ c[i] = a[i]
                          \/ i - Len(a) \in DOMAIN b /\ c[i] = b[i - Len(a)]
  BY <1>1
<1> HIDE DEF c
<1>3. TellsOf(k, c) <=> TellsOf(k, a) \/ TellsOf(k, b)
  <2>1. \A i \in DOMAIN a : i \in DOMAIN c
    BY <1>1
  <2>2. \A i \in DOMAIN b : Len(a) + i \in DOMAIN c
    BY <1>1
  <2>3. TellsOf(k, c) => TellsOf(k, a) \/ TellsOf(k, b)
    BY <1>2 DEF TellsOf
  <2>4. TellsOf(k, a) => TellsOf(k, c)
    BY <1>1, <2>1 DEF TellsOf
  <2>5. TellsOf(k, b) => TellsOf(k, c)
    BY <1>1, <2>2 DEF TellsOf
  <2> QED BY <2>3, <2>4, <2>5
<1>4. ASSUME TellsOf(k, b) PROVE LastValue(k, c) = LastValue(k, b)
  <2>1. PICK i \in DOMAIN b : IsLast(i, k, b)
    BY <1>4, LastValueIs
  <2>2. ASSUME NEW j \in DOMAIN c, c[j].key = k PROVE j <= Len(a) + i
    <3>1. i \in Nat /\ j \in Nat
      BY <1>1, <2>2
    <3>2. CASE j \in DOMAIN a
      BY <1>1, <3>1, <3>2
    <3>3. CASE j - Len(a) \in DOMAIN b /\ c[j] = b[j - Len(a)]
      BY <1>1, <2>1, <2>2, <3>1, <3>3 DEF IsLast
    <3> QED BY <1>2, <2>2, <3>2, <3>3
  <2>3. Len(a) + i \in DOMAIN c /\ c[Len(a) + i] = b[i]
    BY <1>1
  <2>4. IsLast(Len(a) + i, k, c)
    BY <2>1, <2>2, <2>3 DEF IsLast
  <2>5. LastValue(k, c) = b[i].val
    BY <1>1, <2>3, <2>4, LastValueIs
  <2>6. LastValue(k, b) = b[i].val
    BY <2>1, LastValueIs
  <2> QED BY <2>5, <2>6
<1>5. ASSUME ~TellsOf(k, b) PROVE LastValue(k, c) = LastValue(k, a)
  <2>1. CASE ~TellsOf(k, a)
    BY <1>1, <1>3, <1>5, <2>1, LastValueIs
  <2>2. CASE TellsOf(k, a)
    <3>1. PICK i \in DOMAIN a : IsLast(i, k, a)
      BY <2>2, LastValueIs
    <3>2. i \in DOMAIN c /\ c[i] = a[i]
      BY <1>1
    <3>3. ASSUME NEW j \in DOMAIN c, c[j].key = k PROVE j <= i
      BY <1>2, <1>5, <3>1, <3>3 DEF IsLast, TellsOf
    <3>4. IsLast(i, k, c)
      BY <3>1, <3>2, <3>3 DEF IsLast
    <3> QED BY <1>1, <3>1, <3>2, <3>4, LastValueIs
  <2> QED BY <2>1, <2>2
<1> QED BY <1>3, <1>4, <1>5 DEF c

\* A thread that applied an event to the entry k and did not send it yet.
InHand(t, k) ==
    thread[t].stage \in LockedStage \cup {"unsent"} /\ thread[t].event.key = k

\* What the file, the batch and the buffer have of an entry, in order.
Lines == eventLog \o unwritten \o pending

\* The entry k is what its last event says.
Told(k) ==
    \/ InChannel(k) = {} /\ entries[k] = LastValue(k, Lines)
    \/ \E j \in InChannel(k) : /\ \A i \in InChannel(k) : i <= j
                               /\ entries[k] = channel[j].event.val

\* At an entry where threads did not overlap at most one thread has an event in
\* hand, the entry holds that event, and without one it holds the last one sent.
LogInv ==
    \A k \in StateKey \ racedKeys :
        /\ \A t, u \in Thread : InHand(t, k) /\ InHand(u, k) => t = u
        /\ \A t \in Thread : InHand(t, k) => entries[k] = thread[t].event.val
        /\ (\A t \in Thread : ~InHand(t, k)) => Told(k)

LEMMA ToldIsLastSent ==
    ASSUME Tagged, NEW k \in StateKey, Told(k)
    PROVE  entries[k] = LastSent(k)
<1>1. CASE InChannel(k) = {}
  BY <1>1 DEF Told, LastSent, Lines
<1>2. ASSUME NEW j \in InChannel(k), \A i \in InChannel(k) : i <= j,
             entries[k] = channel[j].event.val
      PROVE  entries[k] = LastSent(k)
  <2> DEFINE z == CHOOSE i \in InChannel(k) : \A l \in InChannel(k) : l <= i
  <2>1. z \in InChannel(k) /\ \A l \in InChannel(k) : l <= z
    BY <1>2
  <2>2. InChannel(k) \subseteq Nat
    BY DEF InChannel, Tagged, EngineTypeOK
  <2> HIDE DEF z
  <2>3. z = j
    BY <1>2, <2>1, <2>2
  <2>4. LastSent(k) = channel[z].event.val
    BY <2>1 DEF LastSent, z
  <2> QED BY <1>2, <2>3, <2>4
<1> QED BY <1>1, <1>2 DEF Told

\* Steps that leave the entry, its events in hand and what tells of it alone.
LEMMA Untold ==
    ASSUME Tagged, LogInv, NEW k \in StateKey \ racedKeys, entries'[k] = entries[k],
           \A t \in Thread : /\ InHand(t, k)' <=> InHand(t, k)
                             /\ InHand(t, k) => thread'[t].event = thread[t].event,
           Told(k) => Told(k)'
    PROVE  /\ \A t, u \in Thread : InHand(t, k)' /\ InHand(u, k)' => t = u
           /\ \A t \in Thread : InHand(t, k)' => entries'[k] = thread'[t].event.val
           /\ (\A t \in Thread : ~InHand(t, k)') => Told(k)'
  BY DEF LogInv

\* A batch that is written, or that fails half-way and is kept, tells the same.
LEMMA WrittenTellsTheSame ==
    ASSUME EngineTypeOK, NEW events \in Seq(StateEvent), WriteOut(events), NEW k
    PROVE  LastValue(k, Lines') = LastValue(k, eventLog \o unwritten \o events)
<1> DEFINE all == unwritten \o events
<1>1. /\ eventLog \in Seq(StateEvent) /\ unwritten \in Seq(StateEvent)
      /\ all \in Seq(StateEvent) /\ pending' = <<>>
  BY DEF EngineTypeOK, WriteOut
<1>2. eventLog \o unwritten \o events = eventLog \o all
  BY <1>1
<1>3. CASE eventLog' = eventLog \o all /\ unwritten' = <<>>
  <2>1. Lines' = eventLog \o all
    BY <1>1, <1>3 DEF Lines
  <2> QED BY <1>2, <2>1
<1>4. ASSUME NEW n \in 0..Len(all), eventLog' = eventLog \o SubSeq(all, 1, n), unwritten' = all
      PROVE  LastValue(k, Lines') = LastValue(k, eventLog \o all)
  <2> DEFINE part == SubSeq(all, 1, n)
  <2>1. part \in Seq(StateEvent)
    BY <1>1, SubSeqProperties
  <2>2. TellsOf(k, part) => TellsOf(k, all)
    <3>1. /\ Len(part) = n /\ DOMAIN part = 1..n /\ DOMAIN all = 1..Len(all) /\ n \in Nat
          /\ Len(all) \in Nat /\ \A i \in 1..n : part[i] = all[i] /\ i \in DOMAIN all
      BY <1>1, SubSeqProperties
    <3> HIDE DEF part, all
    <3> QED BY <3>1 DEF TellsOf
  <2>3. Lines' = (eventLog \o part) \o all
    <3> HIDE DEF part
    <3>1. ((eventLog \o part) \o all) \o <<>> = (eventLog \o part) \o all
      BY <1>1, <2>1
    <3> QED BY <1>1, <1>4, <3>1 DEF Lines, part
  <2> HIDE DEF part, all
  <2>4. eventLog \o part \in Seq(StateEvent)
    BY <1>1, <2>1
  <2>5. LastValue(k, (eventLog \o part) \o all) = IF TellsOf(k, all) THEN LastValue(k, all)
                                                  ELSE LastValue(k, eventLog \o part)
    BY <1>1, <2>4, LastOfBoth
  <2>6. LastValue(k, eventLog \o part) = IF TellsOf(k, part) THEN LastValue(k, part)
                                         ELSE LastValue(k, eventLog)
    BY <1>1, <2>1, LastOfBoth
  <2>7. LastValue(k, eventLog \o all) = IF TellsOf(k, all) THEN LastValue(k, all)
                                        ELSE LastValue(k, eventLog)
    BY <1>1, LastOfBoth
  <2> QED BY <2>2, <2>3, <2>5, <2>6, <2>7
<1>5. \/ eventLog' = eventLog \o all /\ unwritten' = <<>>
      \/ /\ \E n \in 0..Len(all) : eventLog' = eventLog \o SubSeq(all, 1, n)
         /\ unwritten' = all
  BY DEF WriteOut
<1> QED BY <1>2, <1>3, <1>4, <1>5

\* The writer task takes no event from an entry's history: writing leaves what is
\* told, and the event at the head of the channel goes to the end of the lines.
LEMMA WritingTells ==
    ASSUME Tagged, NEW k \in StateKey, UNCHANGED <<entries, channel>>, WriteOut(pending), Told(k)
    PROVE  Told(k)'
<1>1. InChannel(k)' = InChannel(k)
  BY DEF InChannel
<1>2. LastValue(k, Lines') = LastValue(k, Lines)
  BY WrittenTellsTheSame DEF Tagged, EngineTypeOK, Lines
<1> QED BY <1>1, <1>2 DEF Told

LEMMA TakingTells ==
    ASSUME Tagged, NEW k \in StateKey, channel # <<>>, channel' = Tail(channel),
           UNCHANGED entries, Told(k),
           Head(channel).kind = "event" =>
               LastValue(k, Lines') = LastValue(k, Append(Lines, Head(channel).event)),
           Head(channel).kind # "event" => LastValue(k, Lines') = LastValue(k, Lines)
    PROVE  Told(k)'
<1>1. /\ channel \in Seq(EventMsg \cup FlushMsg) /\ Head(channel) = channel[1]
      /\ 1 \in DOMAIN channel /\ Head(channel) \in EventMsg \cup FlushMsg
      /\ Tail(channel) \in Seq(EventMsg \cup FlushMsg)
  BY Taken DEF Tagged, EngineTypeOK
<1>2. /\ \A i \in DOMAIN channel' : i + 1 \in DOMAIN channel /\ channel'[i] = channel[i + 1]
      /\ \A i \in DOMAIN channel : i # 1 => i - 1 \in DOMAIN channel'
      /\ \A i \in DOMAIN channel : i \in Nat /\ i >= 1
  BY <1>1
<1>3. /\ \A i \in InChannel(k)' : i + 1 \in InChannel(k) /\ channel'[i] = channel[i + 1]
      /\ \A i \in InChannel(k) : i # 1 => i - 1 \in InChannel(k)' /\ channel'[i - 1] = channel[i]
      /\ \A i \in InChannel(k)' : i \in Nat /\ i >= 1
  <2>1. ASSUME NEW i \in InChannel(k)'
        PROVE  i + 1 \in InChannel(k) /\ channel'[i] = channel[i + 1] /\ i \in Nat /\ i >= 1
    BY <1>1, <1>2 DEF InChannel
  <2>2. ASSUME NEW i \in InChannel(k), i # 1
        PROVE  i - 1 \in InChannel(k)' /\ channel'[i - 1] = channel[i]
    <3>1. i \in DOMAIN channel /\ i - 1 \in DOMAIN channel' /\ i \in Nat /\ (i - 1) + 1 = i
      BY <1>2, <2>2 DEF InChannel
    <3>2. channel'[i - 1] = channel[i]
      BY <1>2, <3>1
    <3> QED BY <3>1, <3>2 DEF InChannel
  <2> QED BY <2>1, <2>2
<1>4. \A i \in InChannel(k) : i \in Nat /\ i >= 1
  BY <1>2 DEF InChannel
<1>5. Lines \in Seq(StateEvent)
  BY DEF Lines, Tagged, EngineTypeOK
<1>6. ASSUME NEW j \in InChannel(k), \A i \in InChannel(k) : i <= j,
             entries[k] = channel[j].event.val, j # 1
      PROVE  Told(k)'
  <2>1. j - 1 \in InChannel(k)' /\ channel'[j - 1] = channel[j]
    BY <1>3, <1>6
  <2>2. \A i \in InChannel(k)' : i <= j - 1
    BY <1>3, <1>4, <1>6
  <2> QED BY <1>6, <2>1, <2>2 DEF Told
<1>7. ASSUME 1 \in InChannel(k), \A i \in InChannel(k) : i <= 1,
             entries[k] = channel[1].event.val
      PROVE  Told(k)'
  <2>1. InChannel(k)' = {}
    BY <1>3, <1>4, <1>7
  <2>2. Head(channel).kind = "event" /\ Head(channel).event.key = k
    BY <1>1, <1>7 DEF InChannel
  <2>3. Head(channel).event \in StateEvent
    BY <1>1, <2>2, Messages
  <2> DEFINE e == Head(channel).event
             c == Append(Lines, e)
  <2>4. c \in Seq(StateEvent) /\ IsLast(Len(Lines) + 1, k, c) /\ c[Len(Lines) + 1] = e
        /\ Len(Lines) + 1 \in DOMAIN c
    BY <1>5, <2>2, <2>3 DEF IsLast
  <2>5. LastValue(k, c) = e.val
    BY <2>4, LastValueIs
  <2> QED BY <1>1, <1>7, <2>1, <2>2, <2>5 DEF Told
<1>8. CASE InChannel(k) = {} /\ entries[k] = LastValue(k, Lines)
  <2>1. InChannel(k)' = {}
    BY <1>3, <1>8
  <2>2. LastValue(k, Lines') = LastValue(k, Lines)
    <3>1. CASE Head(channel).kind = "event"
      <4> DEFINE e == Head(channel).event
      <4>1. e \in StateEvent /\ e.key # k
        BY <1>1, <1>8, <3>1, Messages DEF InChannel
      <4>2. <<e>> \in Seq(StateEvent) /\ ~TellsOf(k, <<e>>)
        BY <4>1 DEF TellsOf
      <4>3. Append(Lines, e) = Lines \o <<e>>
        BY <1>5, <4>1
      <4>4. LastValue(k, Lines \o <<e>>) = LastValue(k, Lines)
        <5> DEFINE b == <<e>>
        <5> HIDE DEF b, e
        <5>1. b \in Seq(StateEvent) /\ ~TellsOf(k, b)
          BY <4>2 DEF b
        <5>2. LastValue(k, Lines \o b) = LastValue(k, Lines)
          BY <1>5, <5>1, LastOfBoth
        <5> QED BY <5>2 DEF b
      <4>5. LastValue(k, Lines') = LastValue(k, Append(Lines, e))
        BY <3>1
      <4> HIDE DEF e
      <4> QED BY <4>3, <4>4, <4>5, Zenon
    <3> QED BY <3>1
  <2> QED BY <1>8, <2>1, <2>2 DEF Told
<1> QED BY <1>6, <1>7, <1>8 DEF Told

\* An event that is sent is the last one of its entry, and of no other.
LEMMA SendingTells ==
    ASSUME Tagged, NEW t \in Thread, SendEvent(t), NEW k \in StateKey
    PROVE  /\ thread[t].event.key = k /\ entries[k] = thread[t].event.val => Told(k)'
           /\ thread[t].event.key # k /\ Told(k) => Told(k)'
<1> DEFINE e == thread[t].event
           n == Len(channel) + 1
           m == [kind |-> "event", event |-> e]
<1>1. /\ channel \in Seq(EventMsg \cup FlushMsg) /\ channel' = Append(channel, m)
      /\ UNCHANGED <<entries, Lines>>
  BY DEF Tagged, EngineTypeOK, SendEvent, engineState, writerState, Lines
<1>2. e \in StateEvent /\ m \in EventMsg \cup FlushMsg /\ m.kind = "event" /\ m.event = e
  <2>1. e \in StateEvent
    BY Stages DEF Tagged, EngineTypeOK, SendEvent, At, ThreadState
  <2> QED BY <2>1, Messages
<1>3. /\ n \in DOMAIN channel' /\ channel'[n] = m
      /\ \A i \in DOMAIN channel : i \in DOMAIN channel' /\ channel'[i] = channel[i]
      /\ \A i \in DOMAIN channel' : /\ i <= n /\ i \in Nat
                                    /\ (i \in DOMAIN channel /\ channel'[i] = channel[i]) \/ i = n
  BY <1>1, <1>2
<1> HIDE DEF m, n
<1>4. ASSUME e.key = k, entries[k] = e.val PROVE Told(k)'
  <2>1. n \in InChannel(k)' /\ \A i \in InChannel(k)' : i <= n
    BY <1>2, <1>3, <1>4 DEF InChannel
  <2> QED BY <1>1, <1>2, <1>3, <1>4, <2>1 DEF Told
<1>5. ASSUME e.key # k, Told(k) PROVE Told(k)'
  <2>1. InChannel(k)' = InChannel(k)
    BY <1>2, <1>3, <1>5 DEF InChannel
  <2>2. \A i \in InChannel(k) : channel'[i] = channel[i]
    BY <1>3 DEF InChannel
  <2> QED BY <1>1, <1>5, <2>1, <2>2 DEF Told
<1> QED BY <1>4, <1>5

\* What the writer task takes from the channel goes to the lines.
LEMMA TakenIsTold ==
    ASSUME Tagged, NEW k \in StateKey, TakeEvent \/ TakeFlush, Told(k)
    PROVE  Told(k)'
<1>1. /\ channel # <<>> /\ channel' = Tail(channel) /\ UNCHANGED entries
      /\ EngineTypeOK /\ pending \in Seq(StateEvent)
  BY DEF TakeEvent, TakeFlush, engineState, Tagged, EngineTypeOK
<1>2. CASE TakeFlush
  <2>1. LastValue(k, Lines') = LastValue(k, Lines)
    BY <1>1, <1>2, WrittenTellsTheSame DEF TakeFlush, Lines
  <2> QED BY <1>1, <1>2, <2>1, TakingTells DEF TakeFlush
<1>3. CASE TakeEvent
  <2> DEFINE e == Head(channel).event
             events == Append(pending, e)
  <2>1. Head(channel).kind = "event"
    BY <1>3 DEF TakeEvent
  <2>2. e \in StateEvent
    <3>1. Head(channel) \in EventMsg \cup FlushMsg
      BY <1>1, Taken DEF EngineTypeOK
    <3> QED BY <2>1, <3>1, Messages
  <2>3. events \in Seq(StateEvent)
    BY <1>1, <2>2
  <2>4. eventLog \o unwritten \o events = Append(Lines, e)
    <3> DEFINE a == eventLog \o unwritten
    <3>1. a \in Seq(StateEvent) /\ <<e>> \in Seq(StateEvent)
      BY <1>1, <2>2 DEF EngineTypeOK
    <3> HIDE DEF a
    <3>2. a \o (pending \o <<e>>) = (a \o pending) \o <<e>>
      BY <1>1, <3>1
    <3>3. Append(pending, e) = pending \o <<e>>
      BY <1>1, <2>2
    <3>4. a \o pending \in Seq(StateEvent)
      BY <1>1, <3>1
    <3>5. Append(a \o pending, e) = (a \o pending) \o <<e>>
      BY <2>2, <3>4
    <3> QED BY <3>2, <3>3, <3>5 DEF Lines, a
  <2>5. LastValue(k, Lines') = LastValue(k, Append(Lines, e))
    <3>1. CASE WriteOut(events)
      BY <1>1, <2>3, <2>4, <3>1, WrittenTellsTheSame
    <3>2. CASE pending' = events /\ UNCHANGED <<unwritten, eventLog>>
      BY <2>4, <3>2 DEF Lines
    <3> QED BY <1>3, <3>1, <3>2 DEF TakeEvent
  <2> QED BY <1>1, <2>1, <2>5, TakingTells
<1> QED BY <1>2, <1>3

LEMMA LogNext ==
    ASSUME Tagged, LogInv, [EngineNext]_engineVars
    PROVE  LogInv'
<1> USE DEF InHand
<1>0. thread \in [Thread -> ThreadState]
  BY DEF Tagged, EngineTypeOK, ThreadState
<1> DEFINE Right(k) ==
             /\ \A t, u \in Thread : InHand(t, k)' /\ InHand(u, k)' => t = u
             /\ \A t \in Thread : InHand(t, k)' => entries'[k] = thread'[t].event.val
             /\ (\A t \in Thread : ~InHand(t, k)') => Told(k)'
<1>1. SUFFICES ASSUME NEW k \in StateKey, k \notin racedKeys' PROVE Right(k)
  BY DEF LogInv
<1>2. ASSUME NEW t \in Thread, EngineStep(t) PROVE Right(k)
  <2>1. PICK s \in ThreadState : thread' = [thread EXCEPT ![t] = s] /\ Onward(thread[t], s)
    BY <1>2, EngineStepOf
  <2>2. UNCHANGED <<entries, channel, writerState, sent, racedKeys, flushErrors, engineCrashes>>
    BY <1>2, EngineStepOf
  <2>3. k \in StateKey \ racedKeys /\ entries' = entries
    BY <1>1, <2>2
  <2>4. Told(k) => Told(k)'
    BY <2>2 DEF Told, InChannel, Lines, writerState
  <2>5. \A u \in Thread : /\ InHand(u, k)' <=> InHand(u, k)
                          /\ InHand(u, k) => thread'[u].event = thread[u].event
    BY <1>0, <2>1 DEF Onward, LockedStage
  <2> QED BY <2>3, <2>4, <2>5, Untold
<1>3. ASSUME NEW t \in Thread, LockAndApply(t) PROVE Right(k)
  <2> DEFINE e == thread[t].event
             old == entries[e.key]
             todo == CASE old = e.val -> "done" [] old = NoValue -> "toAdd" [] OTHER -> "toRemove"
             s == [stage |-> todo, event |-> e, old |-> old]
  <2>1. /\ At(t, "checked") /\ thread' = [thread EXCEPT ![t] = s]
        /\ entries' = [entries EXCEPT ![e.key] = e.val]
        /\ \A u \in Others(t) : HasEntry(u) => thread[u].event.key # e.key
        /\ racedKeys' = IF \E u \in Others(t) : At(u, "unsent") /\ thread[u].event.key = e.key
                        THEN racedKeys \cup {e.key} ELSE racedKeys
    BY <1>3 DEF LockAndApply
  <2>2. k \in StateKey \ racedKeys
    BY <1>1, <2>1
  <2>3. /\ thread'[t].stage \in LockedStage /\ thread'[t].event = e
        /\ \A u \in Others(t) : thread'[u] = thread[u]
    <3>1. todo \in LockedStage /\ s.stage = todo /\ s.event = e
      BY DEF LockedStage
    <3> HIDE DEF s, todo
    <3> QED BY <1>0, <2>1, <3>1 DEF Others
  <2>4. CASE e.key = k
    <3>1. \A u \in Others(t) : ~InHand(u, k)'
      BY <1>1, <2>1, <2>3, <2>4 DEF At, HasEntry, LockedStage
    <3>2. entries'[k] = e.val
      BY <2>1, <2>4 DEF Tagged, EngineTypeOK
    <3> QED BY <2>3, <2>4, <3>1, <3>2 DEF Others
  <2>5. CASE e.key # k
    <3>1. entries'[k] = entries[k]
      BY <2>1, <2>5 DEF Tagged, EngineTypeOK
    <3>2. Told(k) => Told(k)'
      BY <1>3, <3>1 DEF LockAndApply, Told, InChannel, Lines, writerState
    <3>3. \A u \in Thread : /\ InHand(u, k)' <=> InHand(u, k)
                            /\ InHand(u, k) => thread'[u].event = thread[u].event
      BY <2>1, <2>3, <2>5 DEF At, Others, LockedStage
    <3> QED BY <2>2, <3>1, <3>2, <3>3, Untold
  <2> QED BY <2>4, <2>5
<1>4. ASSUME NEW t \in Thread, FlushReturns(t) \/ RequestFlush(t)
      PROVE  Right(k)
  <2>1. /\ k \in StateKey \ racedKeys /\ entries' = entries /\ Lines' = Lines
        /\ \/ thread' = [thread EXCEPT ![t] = Idle]
           \/ thread' = [thread EXCEPT ![t] = [stage |-> "flushing", owed |-> sent]]
        /\ thread[t].stage \in {"flushed", "idle"}
    BY <1>1, <1>4 DEF FlushReturns, RequestFlush, At, engineState, writerState, Lines
  <2>2. Told(k) => Told(k)'
    <3>1. CASE UNCHANGED channel
      BY <2>1, <3>1 DEF Told, InChannel
    <3>2. CASE channel' = Append(channel, [kind |-> "flush", by |-> t])
      <4>1. /\ [kind |-> "flush", by |-> t] \in EventMsg \cup FlushMsg
            /\ channel \in Seq(EventMsg \cup FlushMsg)
            /\ [kind |-> "flush", by |-> t].kind # "event"
        BY Messages DEF Tagged, EngineTypeOK
      <4>2. /\ \A i \in DOMAIN channel : i \in DOMAIN channel' /\ channel'[i] = channel[i]
            /\ \A i \in DOMAIN channel' : \/ i \in DOMAIN channel /\ channel'[i] = channel[i]
                                          \/ channel'[i].kind # "event"
        BY <3>2, <4>1
      <4>3. InChannel(k)' = InChannel(k)
        BY <4>2 DEF InChannel
      <4>4. \A i \in InChannel(k) : channel'[i] = channel[i]
        BY <4>2 DEF InChannel
      <4> QED BY <2>1, <4>3, <4>4 DEF Told
    <3> QED BY <1>4, <3>1, <3>2 DEF FlushReturns, RequestFlush
  <2>3. \A u \in Thread : /\ InHand(u, k)' <=> InHand(u, k)
                          /\ InHand(u, k) => thread'[u].event = thread[u].event
    <3>1. /\ thread'[t].stage \in {"idle", "flushing"}
          /\ \A u \in Thread : u # t => thread'[u] = thread[u]
      BY <1>0, <2>1 DEF Idle
    <3> QED BY <2>1, <3>1 DEF LockedStage
  <2> QED BY <2>1, <2>2, <2>3, Untold
<1>6. ASSUME NEW t \in Thread, SendEvent(t) PROVE Right(k)
  <2>1. /\ k \in StateKey \ racedKeys /\ entries' = entries
        /\ thread' = [thread EXCEPT ![t] = Idle] /\ At(t, "unsent")
    BY <1>1, <1>6 DEF SendEvent, engineState
  <2>2. thread'[t].stage = "idle" /\ \A u \in Thread : u # t => thread'[u] = thread[u]
    BY <1>0, <2>1 DEF Idle
  <2>3. CASE thread[t].event.key = k
    <3>1. InHand(t, k)
      BY <2>1, <2>3 DEF At
    <3>2. \A u \in Thread : ~InHand(u, k)'
      BY <2>1, <2>2, <3>1 DEF LogInv, LockedStage
    <3>3. Told(k)'
      BY <1>6, <2>1, <2>3, <3>1, SendingTells DEF LogInv
    <3> QED BY <3>2, <3>3
  <2>4. CASE thread[t].event.key # k
    <3>1. Told(k) => Told(k)'
      BY <1>6, <2>4, SendingTells
    <3>2. \A u \in Thread : /\ InHand(u, k)' <=> InHand(u, k)
                            /\ InHand(u, k) => thread'[u].event = thread[u].event
      BY <2>2, <2>4 DEF LockedStage
    <3> QED BY <2>1, <3>1, <3>2, Untold
  <2> QED BY <2>3, <2>4
<1>7. CASE TakeEvent
  <2>1. k \in StateKey \ racedKeys /\ UNCHANGED <<entries, thread>>
    BY <1>1, <1>7 DEF TakeEvent, engineState
  <2> QED BY <1>7, <2>1, TakenIsTold, Untold
<1>8. CASE TakeFlush
  <2> DEFINE t == Head(channel).by
  <2>1. /\ k \in StateKey \ racedKeys /\ UNCHANGED entries
        /\ channel # <<>> /\ Head(channel).kind = "flush"
        /\ thread' = [thread EXCEPT ![t] = [@ EXCEPT !.stage = "flushed"]]
    BY <1>1, <1>8 DEF TakeFlush, engineState
  <2>2. channel \in Seq(EventMsg \cup FlushMsg)
    BY DEF Tagged, EngineTypeOK
  <2>3. t \in Thread /\ At(t, "flushing")
    BY <2>1, <2>2, Taken, Messages DEF Tagged, FlushQueue
  <2>4. thread'[t] \in Flushing("flushed")
    BY <1>0, <2>1, <2>3, Stages DEF At
  <2>5. /\ thread'[t].stage = "flushed" /\ \A u \in Thread : u # t => thread'[u] = thread[u]
    BY <1>0, <2>1, <2>3, <2>4 DEF Flushing
  <2>6. \A u \in Thread : /\ InHand(u, k)' <=> InHand(u, k)
                          /\ InHand(u, k) => thread'[u].event = thread[u].event
    BY <2>3, <2>5 DEF At, LockedStage
  <2> QED BY <1>8, <2>1, <2>6, TakenIsTold, Untold
<1>9. CASE FlushTimer
  <2>1. k \in StateKey \ racedKeys /\ UNCHANGED <<entries, thread, channel>>
    BY <1>1, <1>9 DEF FlushTimer, engineState
  <2> QED BY <1>9, <2>1, WritingTells, Untold DEF FlushTimer
<1>10. CASE UNCHANGED engineVars
  <2>1. k \in StateKey \ racedKeys /\ UNCHANGED <<entries, thread>>
    BY <1>1, <1>10 DEF engineVars, engineState
  <2>2. Told(k) => Told(k)'
    BY <1>10 DEF engineVars, engineState, writerState, Told, InChannel, Lines
  <2> QED BY <2>1, <2>2, Untold
<1>11. CASE EngineCrash
  <2>1. /\ entries' = [j \in StateKey |-> LastValue(j, eventLog)]
        /\ thread' = [t \in Thread |-> Idle] /\ channel' = <<>> /\ pending' = <<>>
        /\ unwritten' = <<>> /\ eventLog' = eventLog /\ eventLog \in Seq(StateEvent)
    BY <1>11 DEF EngineCrash, Tagged, EngineTypeOK
  <2>2. InChannel(k)' = {} /\ Lines' = eventLog
    BY <2>1 DEF InChannel, Lines
  <2>3. Told(k)'
    BY <2>1, <2>2 DEF Told
  <2>4. \A t \in Thread : ~InHand(t, k)'
    BY <2>1 DEF Idle, LockedStage
  <2> QED BY <2>3, <2>4
<1> QED BY <1>2, <1>3, <1>4, <1>6, <1>7, <1>8, <1>9, <1>10, <1>11 DEF EngineNext, EngineStep

LEMMA AlwaysLogInv == EngineSpec => []LogInv
<1>1. EngineInit => LogInv
  <2>1. SUFFICES ASSUME EngineInit, NEW k \in StateKey
                 PROVE  (\A t \in Thread : ~InHand(t, k)) /\ Told(k)
    BY DEF LogInv
  <2>2. InChannel(k) = {} /\ Lines = <<>> /\ entries[k] = NoValue
    BY <2>1 DEF EngineInit, InChannel, Lines
  <2>3. LastValue(k, <<>>) = NoValue
    BY DEF LastValue, LastIn
  <2> QED BY <2>1, <2>2, <2>3 DEF Told, InHand, EngineInit, Idle, LockedStage
<1>2. Tagged /\ LogInv /\ [EngineNext]_engineVars => LogInv'
  BY LogNext
<1> QED BY <1>1, <1>2, AlwaysTagged, PTL DEF EngineSpec

\* Nothing that is in memory is missing from the way to the log: the file, the
\* batch of the file store, the writer's buffer and the channel, read in this
\* order, end with what an entry holds, unless an event of the entry is still in
\* the hands of a thread or two threads overlapped there.  Writes that fail
\* half-way and are repeated (flush_buffer) do not change that, and neither does
\* a crash.
THEOREM LogIsComplete == EngineSpec => []LogTellsAll
<1>1. Tagged /\ LogInv => LogTellsAll
  <2>1. SUFFICES ASSUME Tagged, LogInv, NEW k \in StateKey \ racedKeys,
                        \A t \in Thread : ~InHand(t, k)
                 PROVE  entries[k] = LastSent(k)
    BY DEF LogTellsAll, InHand
  <2> QED BY <2>1, ToldIsLastSent DEF LogInv
<1> QED BY <1>1, AlwaysTagged, AlwaysLogInv, PTL

----------------------------------------------------------------------------
(* What a flush has waited for. *)

\* Events among the first p messages of c.
EventsTo(c, p) == Cardinality({i \in 1..p : c[i].kind = "event"})

LEMMA CountEvents ==
    ASSUME NEW c, NEW p \in Nat
    PROVE  /\ EventsTo(c, p) \in Nat /\ EventsTo(c, 0) = 0
           /\ EventsTo(c, p + 1) = IF c[p + 1].kind = "event" THEN EventsTo(c, p) + 1
                                   ELSE EventsTo(c, p)
<1> DEFINE E(n) == {i \in 1..n : c[i].kind = "event"}
<1>1. \A n \in Nat : E(n) \subseteq 1..n /\ IsFiniteSet(1..n)
  BY FS_Interval
<1>2. \A n \in Nat : IsFiniteSet(E(n))
  BY <1>1, FS_Subset
<1>3. E(0) = {}
  OBVIOUS
<1>4. p + 1 \notin E(p)
  OBVIOUS
<1>5. E(p + 1) = IF c[p + 1].kind = "event" THEN E(p) \cup {p + 1} ELSE E(p)
  OBVIOUS
<1>6. \A n \in Nat : EventsTo(c, n) = Cardinality(E(n))
  BY DEF EventsTo
<1> HIDE DEF E
<1>7. Cardinality(E(p)) \in Nat /\ Cardinality(E(0)) = 0
  BY <1>2, <1>3, FS_CardinalityType, FS_EmptySet
<1>8. Cardinality(E(p) \cup {p + 1}) = Cardinality(E(p)) + 1
  BY <1>2, <1>4, FS_AddElement
<1> QED BY <1>5, <1>6, <1>7, <1>8

LEMMA CountSame ==
    ASSUME NEW c, NEW d, NEW p \in Nat, \A i \in 1..p : c[i] = d[i]
    PROVE  EventsTo(c, p) = EventsTo(d, p)
<1>1. {i \in 1..p : c[i].kind = "event"} = {i \in 1..p : d[i].kind = "event"}
  OBVIOUS
<1> QED BY <1>1 DEF EventsTo

\* Without the first message there is one event less, if it is one.
ShiftOf(d, c, n) == \A i \in 1..n : d[i] = c[i + 1]

LEMMA CountTail ==
    ASSUME NEW n \in Nat, NEW c, NEW d, ShiftOf(d, c, n)
    PROVE  \A p \in 0..n :
               EventsTo(c, p + 1) = IF c[1].kind = "event" THEN EventsTo(d, p) + 1
                                    ELSE EventsTo(d, p)
<1> DEFINE S == {p \in Nat : p <= n => EventsTo(c, p + 1) = IF c[1].kind = "event"
                                                           THEN EventsTo(d, p) + 1
                                                           ELSE EventsTo(d, p)}
<1>1. 0 \in S
  <2>1. 0 \in Nat /\ 0 + 1 = 1
    OBVIOUS
  <2> QED BY <2>1, CountEvents
<1>2. ASSUME NEW p \in Nat, p \in S PROVE p + 1 \in S
  <2>1. SUFFICES ASSUME p + 1 <= n
                 PROVE  EventsTo(c, (p + 1) + 1) = IF c[1].kind = "event"
                                                   THEN EventsTo(d, p + 1) + 1
                                                   ELSE EventsTo(d, p + 1)
    OBVIOUS
  <2>2. d[p + 1] = c[(p + 1) + 1]
    BY <2>1 DEF ShiftOf
  <2>3. EventsTo(c, p + 1) = IF c[1].kind = "event" THEN EventsTo(d, p) + 1 ELSE EventsTo(d, p)
    BY <1>2, <2>1
  <2>4. p + 1 \in Nat /\ EventsTo(d, p) \in Nat
    BY CountEvents
  <2>5. EventsTo(c, (p + 1) + 1) = IF c[(p + 1) + 1].kind = "event" THEN EventsTo(c, p + 1) + 1
                                   ELSE EventsTo(c, p + 1)
    BY <2>4, CountEvents
  <2>6. EventsTo(d, p + 1) = IF d[p + 1].kind = "event" THEN EventsTo(d, p) + 1
                             ELSE EventsTo(d, p)
    BY CountEvents
  <2> QED BY <2>2, <2>3, <2>4, <2>5, <2>6
<1>3. Nat \subseteq S
  <2> HIDE DEF S
  <2> QED BY <1>1, <1>2, SetInduction
<1> QED BY <1>3

\* Events that the writer task has, wherever they are.
Kept == Len(eventLog) + Len(unwritten) + Len(pending)

\* Until a write fails, every event sent is kept or in the channel; what a flush
\* waits for is kept or before it in the channel, and in the file when it returns.
FlushInv ==
    flushErrors = 0 =>
        /\ sent <= Kept + EventsTo(channel, Len(channel))
        /\ \A i \in DOMAIN channel :
             channel[i].kind = "flush" =>
                 thread[channel[i].by].owed <= Kept + EventsTo(channel, i)
        /\ \A t \in Thread : At(t, "flushed") => thread[t].owed <= Len(eventLog)

\* What the writer task keeps, it keeps.
LEMMA WrittenIsKept ==
    ASSUME EngineTypeOK, NEW events \in Seq(StateEvent), WriteOut(events), flushErrors' = 0
    PROVE  /\ flushErrors = 0 /\ Len(unwritten') = 0 /\ Len(pending') = 0
           /\ Len(eventLog') = Len(eventLog) + Len(unwritten) + Len(events)
<1> DEFINE all == unwritten \o events
<1>1. /\ flushErrors \in Nat /\ eventLog \in Seq(StateEvent) /\ unwritten \in Seq(StateEvent)
      /\ all \in Seq(StateEvent) /\ Len(all) = Len(unwritten) + Len(events)
  BY EngineAssumption DEF EngineTypeOK
<1>2. eventLog' = eventLog \o all /\ unwritten' = <<>> /\ UNCHANGED flushErrors
  <2>1. \/ eventLog' = eventLog \o all /\ unwritten' = <<>> /\ UNCHANGED flushErrors
        \/ flushErrors' = flushErrors + 1
    BY DEF WriteOut
  <2> QED BY <1>1, <2>1
<1>3. pending' = <<>>
  BY DEF WriteOut
<1> HIDE DEF all
<1>4. Len(eventLog') = Len(eventLog) + Len(all) /\ Len(unwritten') = 0 /\ Len(pending') = 0
  <2>1. Len(eventLog \o all) = Len(eventLog) + Len(all)
    BY <1>1, ConcatProperties
  <2>2. Len(<<>>) = 0
    OBVIOUS
  <2> QED BY <1>2, <1>3, <2>1, <2>2
<1>5. Len(eventLog) \in Nat /\ Len(unwritten) \in Nat /\ Len(events) \in Nat
  BY <1>1
<1> QED BY <1>1, <1>2, <1>4, <1>5

LEMMA FlushNext ==
    ASSUME Tagged, FlushInv, [EngineNext]_engineVars
    PROVE  FlushInv'
<1>0. /\ thread \in [Thread -> ThreadState] /\ EngineTypeOK /\ sent \in Nat
      /\ channel \in Seq(EventMsg \cup FlushMsg) /\ Len(channel) \in Nat
      /\ eventLog \in Seq(StateEvent) /\ unwritten \in Seq(StateEvent)
      /\ pending \in Seq(StateEvent) /\ Kept \in Nat /\ Len(eventLog) \in Nat
      /\ \A i \in DOMAIN channel : i \in 1..Len(channel) /\ EventsTo(channel, i) \in Nat
      /\ EventsTo(channel, Len(channel)) \in Nat
  <2>1. /\ thread \in [Thread -> ThreadState] /\ EngineTypeOK /\ sent \in Nat
        /\ channel \in Seq(EventMsg \cup FlushMsg) /\ eventLog \in Seq(StateEvent)
        /\ unwritten \in Seq(StateEvent) /\ pending \in Seq(StateEvent)
    BY DEF Tagged, EngineTypeOK, ThreadState
  <2>2. Len(channel) \in Nat /\ Kept \in Nat /\ Len(eventLog) \in Nat
        /\ DOMAIN channel = 1..Len(channel)
    BY <2>1 DEF Kept
  <2> QED BY <2>1, <2>2, CountEvents
<1>1. \A i \in DOMAIN channel : channel[i].kind = "flush" =>
          /\ channel[i].by \in Thread /\ At(channel[i].by, "flushing")
          /\ thread[channel[i].by].owed \in Nat
  <2>1. \A s \in ThreadState : s.stage = "flushing" => s.owed \in Nat
    BY DEF ThreadState, Idle, Applying, Indexing, Flushing
  <2> QED BY <1>0, <2>1, Messages DEF Tagged, FlushQueue, At
<1>2. SUFFICES ASSUME flushErrors' = 0
               PROVE  /\ sent' <= Kept' + EventsTo(channel', Len(channel'))
                      /\ \A i \in DOMAIN channel' :
                           channel'[i].kind = "flush" =>
                               thread'[channel'[i].by].owed <= Kept' + EventsTo(channel', i)
                      /\ \A t \in Thread : At(t, "flushed")' => thread'[t].owed <= Len(eventLog')
  BY DEF FlushInv
\* A thread that does not flush, or has flushed, moves on.
<1>3. ASSUME UNCHANGED <<channel, writerState, sent, flushErrors>>,
             NEW t \in Thread, ~At(t, "flushing"), ~At(t, "flushed")',
             \A u \in Thread : u # t => thread'[u] = thread[u]
      PROVE  FlushInv'
  <2>1. Kept' = Kept /\ eventLog' = eventLog
    BY <1>3 DEF Kept, writerState
  <2>2. \A i \in DOMAIN channel : channel[i].kind = "flush" =>
            thread'[channel[i].by] = thread[channel[i].by]
    BY <1>1, <1>3 DEF At
  <2>3. \A u \in Thread : At(u, "flushed")' => thread'[u] = thread[u]
    BY <1>3
  <2> QED BY <1>3, <2>1, <2>2, <2>3 DEF FlushInv, At
<1>4. ASSUME NEW t \in Thread, EngineStep(t) PROVE FlushInv'
  <2>1. PICK s \in ThreadState : thread' = [thread EXCEPT ![t] = s] /\ Onward(thread[t], s)
    BY <1>4, EngineStepOf
  <2>2. UNCHANGED <<entries, channel, writerState, sent, racedKeys, flushErrors, engineCrashes>>
    BY <1>4, EngineStepOf
  <2>3. thread'[t] = s /\ \A u \in Thread : u # t => thread'[u] = thread[u]
    BY <1>0, <2>1
  <2>4. ~At(t, "flushing") /\ ~At(t, "flushed")'
    BY <2>1, <2>3 DEF Onward, At, LockedStage
  <2> QED BY <1>3, <2>2, <2>3, <2>4
<1>5. ASSUME NEW t \in Thread, LockAndApply(t) \/ FlushReturns(t)
      PROVE  FlushInv'
  <2>1. /\ UNCHANGED <<channel, writerState, sent, flushErrors>>
        /\ thread[t].stage \in {"checked", "flushed"}
    BY <1>5 DEF LockAndApply, FlushReturns, At
  <2>2. \E s : s.stage \in LockedStage \cup {"idle"} /\ thread' = [thread EXCEPT ![t] = s]
    <3>1. CASE LockAndApply(t)
      <4>1. PICK x, e, o : /\ x \in LockedStage
                           /\ thread' = [thread EXCEPT ![t] = [stage |-> x, event |-> e, old |-> o]]
        <5> DEFINE old == entries[thread[t].event.key]
                   todo == CASE old = thread[t].event.val -> "done" [] old = NoValue -> "toAdd"
                             [] OTHER -> "toRemove"
        <5>1. thread' = [thread EXCEPT ![t] = [stage |-> todo, event |-> thread[t].event,
                                               old |-> old]]
          BY <3>1 DEF LockAndApply
        <5>2. todo \in LockedStage
          BY DEF LockedStage
        <5> QED BY <5>1, <5>2
      <4> QED BY <4>1
    <3>2. CASE FlushReturns(t)
      BY <3>2 DEF FlushReturns, Idle
    <3> QED BY <1>5, <3>1, <3>2
  <2>3. /\ thread'[t].stage \in LockedStage \cup {"idle"}
        /\ \A u \in Thread : u # t => thread'[u] = thread[u]
    BY <1>0, <2>2
  <2> QED BY <1>3, <2>1, <2>3 DEF At, LockedStage
<1>6. ASSUME NEW t \in Thread, SendEvent(t) \/ RequestFlush(t) PROVE FlushInv'
  <2> DEFINE n == Len(channel) + 1
  <2>1. PICK m \in EventMsg \cup FlushMsg :
          /\ channel' = Append(channel, m)
          /\ \/ m.kind = "event" /\ sent' = sent + 1 /\ thread' = [thread EXCEPT ![t] = Idle]
             \/ /\ m.kind = "flush" /\ m.by = t /\ sent' = sent
                /\ thread' = [thread EXCEPT ![t] = [stage |-> "flushing", owed |-> sent]]
    <3>1. CASE SendEvent(t)
      <4>1. thread[t].event \in StateEvent
        BY <1>0, <3>1, Stages DEF SendEvent, At
      <4> QED BY <3>1, <4>1, Messages DEF SendEvent
    <3>2. CASE RequestFlush(t)
      BY <3>2, Messages DEF RequestFlush
    <3> QED BY <1>6, <3>1, <3>2
  <2>2. /\ UNCHANGED <<writerState, flushErrors>> /\ thread[t].stage \in {"unsent", "idle"}
    BY <1>6 DEF SendEvent, RequestFlush, At
  <2>3. Kept' = Kept /\ eventLog' = eventLog
    BY <2>2 DEF Kept, writerState
  <2>4. /\ Len(channel') = n /\ channel'[n] = m /\ n - 1 = Len(channel)
        /\ \A i \in 1..Len(channel) : channel'[i] = channel[i]
        /\ \A i \in DOMAIN channel' : i \in DOMAIN channel \/ i = n
    BY <1>0, <2>1
  <2>5. /\ EventsTo(channel', n) = IF m.kind = "event" THEN EventsTo(channel, Len(channel)) + 1
                                   ELSE EventsTo(channel, Len(channel))
        /\ \A i \in DOMAIN channel : EventsTo(channel', i) = EventsTo(channel, i)
    <3>1. \A i \in 0..Len(channel) : EventsTo(channel', i) = EventsTo(channel, i)
      <4>1. SUFFICES ASSUME NEW i \in 0..Len(channel)
                     PROVE  EventsTo(channel', i) = EventsTo(channel, i)
        OBVIOUS
      <4>2. i \in Nat /\ \A j \in 1..i : channel'[j] = channel[j]
        BY <1>0, <2>4
      <4> QED BY <4>2, CountSame
    <3>2. EventsTo(channel', Len(channel) + 1) =
              IF channel'[Len(channel) + 1].kind = "event" THEN EventsTo(channel', Len(channel)) + 1
              ELSE EventsTo(channel', Len(channel))
      BY <1>0, CountEvents
    <3>3. EventsTo(channel', Len(channel)) = EventsTo(channel, Len(channel))
      BY <1>0, <3>1
    <3>4. \A i \in DOMAIN channel : i \in 0..Len(channel)
      BY <1>0
    <3>5. channel'[Len(channel) + 1] = m
      BY <2>4
    <3> QED BY <3>1, <3>2, <3>3, <3>4, <3>5
  <2>6. /\ \A u \in Thread : u # t => thread'[u] = thread[u]
        /\ ~At(t, "flushed")'
        /\ m.kind = "flush" => thread'[t].owed = sent
    BY <1>0, <2>1 DEF At, Idle
  <2>7. flushErrors = 0
    BY <1>2, <2>2
  <2>8. sent' <= Kept' + EventsTo(channel', Len(channel'))
    BY <1>0, <2>1, <2>3, <2>4, <2>5, <2>7 DEF FlushInv
  <2>9. ASSUME NEW i \in DOMAIN channel', channel'[i].kind = "flush"
        PROVE  thread'[channel'[i].by].owed <= Kept' + EventsTo(channel', i)
    <3>1. CASE i \in DOMAIN channel
      <4>1. channel'[i] = channel[i] /\ EventsTo(channel', i) = EventsTo(channel, i)
        BY <1>0, <2>4, <2>5, <3>1
      <4>2. thread'[channel[i].by] = thread[channel[i].by]
        BY <1>1, <2>2, <2>6, <2>9, <3>1, <4>1 DEF At
      <4> QED BY <2>3, <2>7, <2>9, <3>1, <4>1, <4>2 DEF FlushInv
    <3>2. CASE i = n
      <4>1. m.kind = "flush" /\ m.by = t
        BY <2>1, <2>4, <2>9, <3>2
      <4>2. EventsTo(channel', n) = EventsTo(channel, Len(channel)) /\ thread'[t].owed = sent
        BY <2>5, <2>6, <4>1
      <4>3. sent <= Kept + EventsTo(channel, Len(channel)) /\ channel'[i].by = t
        BY <2>4, <2>7, <3>2, <4>1 DEF FlushInv
      <4> QED BY <2>3, <3>2, <4>2, <4>3
    <3> QED BY <2>4, <3>1, <3>2
  <2>10. \A u \in Thread : At(u, "flushed")' => thread'[u].owed <= Len(eventLog')
    BY <2>1, <2>3, <2>6, <2>7 DEF FlushInv, At
  <2> QED BY <2>8, <2>9, <2>10 DEF FlushInv
<1>7. CASE TakeEvent \/ TakeFlush
  <2>1. /\ channel # <<>> /\ channel' = Tail(channel) /\ sent' = sent
        /\ Head(channel) = channel[1] /\ 1 \in DOMAIN channel
        /\ Head(channel) \in EventMsg \cup FlushMsg
    BY <1>0, <1>7, Taken DEF TakeEvent, TakeFlush
  <2>2. /\ Len(channel) >= 1 /\ Len(channel') = Len(channel) - 1 /\ Len(channel') \in Nat
        /\ DOMAIN channel' = 1..Len(channel')
        /\ \A i \in 1..Len(channel') : channel'[i] = channel[i + 1] /\ i + 1 \in DOMAIN channel
    BY <1>0, <2>1
  <2>3. \A i \in 0..Len(channel') :
            /\ EventsTo(channel', i) \in Nat
            /\ EventsTo(channel, i + 1) =
                   IF channel[1].kind = "event" THEN EventsTo(channel', i) + 1
                   ELSE EventsTo(channel', i)
    <3>1. \A i \in 0..Len(channel') : i \in Nat
      BY <2>2
    <3>2. \A i \in 0..Len(channel') :
              EventsTo(channel, i + 1) =
                  IF channel[1].kind = "event" THEN EventsTo(channel', i) + 1
                  ELSE EventsTo(channel', i)
      <4>1. ShiftOf(channel', channel, Len(channel'))
        BY <2>2 DEF ShiftOf
      <4> QED BY <2>2, <4>1, CountTail
    <3> QED BY <3>1, <3>2, CountEvents
  <2>4. EventsTo(channel, Len(channel)) =
            IF channel[1].kind = "event" THEN EventsTo(channel', Len(channel')) + 1
            ELSE EventsTo(channel', Len(channel'))
    BY <2>2, <2>3
  <2>5. /\ flushErrors = 0 /\ Kept' \in Nat
        /\ Kept' = IF channel[1].kind = "event" THEN Kept + 1 ELSE Kept
        /\ Len(eventLog') \in Nat /\ Len(eventLog') >= Len(eventLog)
        /\ TakeFlush => Len(eventLog') = Kept
    <3>1. CASE TakeFlush
      <4>1. /\ flushErrors = 0 /\ Len(unwritten') = 0 /\ Len(pending') = 0
            /\ Len(eventLog') = Kept
        BY <1>0, <1>2, <3>1, WrittenIsKept DEF TakeFlush, Kept
      <4> QED BY <1>0, <2>1, <3>1, <4>1 DEF TakeFlush, Kept
    <3>2. CASE TakeEvent
      <4> DEFINE events == Append(pending, Head(channel).event)
      <4>1. Head(channel).kind = "event" /\ Head(channel).event \in StateEvent
        BY <2>1, <3>2, Messages DEF TakeEvent
      <4>2. events \in Seq(StateEvent) /\ Len(events) = Len(pending) + 1
        BY <1>0, <4>1
      <4>3. ~TakeFlush
        BY <4>1 DEF TakeFlush
      <4>4. CASE WriteOut(events)
        <5>1. /\ flushErrors = 0 /\ Len(unwritten') = 0 /\ Len(pending') = 0
              /\ Len(eventLog') = Len(eventLog) + Len(unwritten) + Len(events)
          BY <1>0, <1>2, <4>2, <4>4, WrittenIsKept
        <5> QED BY <1>0, <2>1, <4>1, <4>2, <4>3, <5>1 DEF Kept
      <4>5. CASE pending' = events /\ UNCHANGED <<unwritten, eventLog, flushErrors>>
        <5>1. /\ Len(pending') = Len(pending) + 1 /\ unwritten' = unwritten
              /\ eventLog' = eventLog /\ flushErrors' = flushErrors
          BY <4>2, <4>5
        <5>2. /\ Len(pending) \in Nat /\ Len(unwritten) \in Nat /\ Len(eventLog) \in Nat
              /\ flushErrors = 0
          BY <1>0, <1>2, <5>1
        <5>3. Kept' = Kept + 1 /\ Kept' \in Nat
          BY <5>1, <5>2 DEF Kept
        <5>4. channel[1].kind = "event"
          BY <1>0, <2>1, <4>1
        <5> QED BY <4>3, <5>1, <5>2, <5>3, <5>4
      <4> QED BY <3>2, <4>4, <4>5 DEF TakeEvent
    <3> QED BY <1>7, <3>1, <3>2
  <2>6. sent' <= Kept' + EventsTo(channel', Len(channel'))
    <3>1. sent' = sent /\ sent <= Kept + EventsTo(channel, Len(channel))
      BY <2>1, <2>5 DEF FlushInv
    <3>2. /\ EventsTo(channel', Len(channel')) \in Nat /\ Kept \in Nat /\ Kept' \in Nat
          /\ sent \in Nat
      BY <1>0, <2>2, <2>3, <2>5
    <3>3. Kept' + EventsTo(channel', Len(channel')) = Kept + EventsTo(channel, Len(channel))
      BY <2>4, <2>5, <3>2
    <3> QED BY <3>1, <3>3
  <2>7. \A i \in DOMAIN channel' : channel'[i].kind = "flush" =>
            thread'[channel'[i].by] = thread[channel'[i].by]
    <3>1. CASE TakeEvent
      BY <3>1 DEF TakeEvent
    <3>2. CASE TakeFlush
      <4>1. ASSUME NEW i \in DOMAIN channel', channel'[i].kind = "flush"
            PROVE  thread'[channel'[i].by] = thread[channel'[i].by]
        <5>1. Head(channel).kind = "flush" /\ i \in Nat /\ i + 1 # 1
          BY <2>2, <3>2, <4>1 DEF TakeFlush
        <5>2. channel[i + 1].kind = "flush" /\ channel[1].kind = "flush"
          BY <2>1, <2>2, <4>1, <5>1
        <5>3. i + 1 = 1
          BY <2>1, <2>2, <4>1, <5>2 DEF Tagged, FlushQueue
        <5> QED BY <5>1, <5>3
      <4> QED BY <4>1
    <3> QED BY <1>7, <3>1, <3>2
  <2>8. ASSUME NEW i \in DOMAIN channel', channel'[i].kind = "flush"
        PROVE  thread'[channel'[i].by].owed <= Kept' + EventsTo(channel', i)
    <3>1. /\ channel[i + 1] = channel'[i] /\ i + 1 \in DOMAIN channel /\ i \in 0..Len(channel')
      BY <2>2, <2>8
    <3>2. thread[channel[i + 1].by].owed <= Kept + EventsTo(channel, i + 1)
      BY <2>5, <2>8, <3>1 DEF FlushInv
    <3>3. thread[channel[i + 1].by].owed \in Nat
      BY <1>1, <2>8, <3>1
    <3>4. thread'[channel'[i].by].owed = thread[channel[i + 1].by].owed
      BY <2>7, <2>8, <3>1
    <3>5. /\ EventsTo(channel', i) \in Nat
          /\ EventsTo(channel, i + 1) =
                 IF channel[1].kind = "event" THEN EventsTo(channel', i) + 1
                 ELSE EventsTo(channel', i)
      BY <2>3, <3>1
    <3> QED BY <1>0, <2>5, <3>2, <3>3, <3>4, <3>5
  <2>9. ASSUME NEW u \in Thread, At(u, "flushed")'
        PROVE  thread'[u].owed <= Len(eventLog')
    <3>0. \A s \in ThreadState : s.stage \in {"flushing", "flushed"} => s.owed \in Nat
      BY DEF ThreadState, Idle, Applying, Indexing, Flushing
    <3>1. CASE thread'[u] = thread[u]
      <4>1. At(u, "flushed") /\ thread[u].owed \in Nat /\ thread[u].owed <= Len(eventLog)
        BY <1>0, <2>5, <2>9, <3>0, <3>1 DEF At, FlushInv
      <4> QED BY <1>0, <2>5, <3>1, <4>1
    <3>2. CASE thread'[u] # thread[u]
      <4>1. TakeFlush
        BY <1>7, <3>2 DEF TakeEvent
      <4> DEFINE t == Head(channel).by
      <4>2. /\ thread' = [thread EXCEPT ![t] = [@ EXCEPT !.stage = "flushed"]]
            /\ Head(channel).kind = "flush"
        BY <4>1 DEF TakeFlush
      <4>3. t \in Thread /\ At(t, "flushing") /\ thread[t].owed \in Nat
        BY <1>1, <2>1, <4>2
      <4>4. u = t
        BY <1>0, <3>2, <4>2, <4>3
      <4>5. thread'[t].owed = thread[t].owed
        <5>1. thread[t] \in Flushing("flushing")
          BY <1>0, <4>3 DEF At, ThreadState, Idle, Applying, Indexing, Flushing
        <5> QED BY <1>0, <4>2, <4>3, <5>1 DEF Flushing
      <4>6. thread[t].owed <= Kept + EventsTo(channel, 1)
        BY <2>1, <2>5, <4>2 DEF FlushInv
      <4>7. EventsTo(channel, 0 + 1) = EventsTo(channel, 0) /\ EventsTo(channel, 0) = 0
        BY <2>1, <4>2, CountEvents, 0 + 1 = 1
      <4> QED BY <1>0, <2>5, <4>1, <4>3, <4>4, <4>5, <4>6, <4>7
    <3> QED BY <3>1, <3>2
  <2> QED BY <2>6, <2>8, <2>9 DEF FlushInv
<1>8. CASE FlushTimer
  <2>1. /\ flushErrors = 0 /\ Kept' = Kept /\ Len(eventLog') >= Len(eventLog)
        /\ UNCHANGED <<thread, channel, sent>> /\ Len(eventLog') \in Nat
    <3>1. /\ flushErrors = 0 /\ Len(unwritten') = 0 /\ Len(pending') = 0
          /\ Len(eventLog') = Kept
      BY <1>0, <1>2, <1>8, WrittenIsKept DEF FlushTimer, Kept
    <3> QED BY <1>0, <1>8, <3>1 DEF FlushTimer, Kept
  <2>2. \A t \in Thread : At(t, "flushed") => thread[t].owed \in Nat
    <3>1. \A s \in ThreadState : s.stage = "flushed" => s.owed \in Nat
      BY DEF ThreadState, Idle, Applying, Indexing, Flushing
    <3> QED BY <1>0, <3>1 DEF At
  <2> QED BY <1>0, <2>1, <2>2 DEF FlushInv, At
<1>9. CASE EngineCrash
  <2>1. /\ channel' = <<>> /\ pending' = <<>> /\ unwritten' = <<>> /\ eventLog' = eventLog
        /\ sent' = Len(eventLog) /\ thread' = [t \in Thread |-> Idle]
    BY <1>9 DEF EngineCrash
  <2>2. EventsTo(channel', Len(channel')) = 0
    BY <2>1, CountEvents
  <2> QED BY <1>0, <2>1, <2>2 DEF FlushInv, Kept, At, Idle
<1>10. CASE UNCHANGED engineVars
  <2>1. UNCHANGED <<flushErrors, sent, channel, thread, eventLog, unwritten, pending>>
    BY <1>10 DEF engineVars, writerState
  <2>2. /\ Kept' = Kept
        /\ \A t \in Thread : At(t, "flushed")' <=> At(t, "flushed")
        /\ \A i : EventsTo(channel', i) = EventsTo(channel, i)
    BY <2>1 DEF Kept, At
  <2>3. /\ sent <= Kept + EventsTo(channel, Len(channel))
        /\ \A i \in DOMAIN channel :
             channel[i].kind = "flush" =>
                 thread[channel[i].by].owed <= Kept + EventsTo(channel, i)
        /\ \A t \in Thread : At(t, "flushed") => thread[t].owed <= Len(eventLog)
    BY <1>2, <2>1 DEF FlushInv
  <2> QED BY <1>2, <2>1, <2>2, <2>3 DEF At
<1> QED BY <1>2, <1>4, <1>5, <1>6, <1>7, <1>8, <1>9, <1>10 DEF EngineNext, EngineStep, FlushInv

LEMMA AlwaysFlushInv == EngineSpec => []FlushInv
<1>1. EngineInit => FlushInv
  <2>1. SUFFICES ASSUME EngineInit PROVE FlushInv
    OBVIOUS
  <2>2. EventsTo(channel, Len(channel)) \in Nat
    BY <2>1, CountEvents DEF EngineInit
  <2> QED BY <2>1, <2>2 DEF EngineInit, FlushInv, Kept, At, Idle
<1>2. Tagged /\ FlushInv /\ [EngineNext]_engineVars => FlushInv'
  BY FlushNext
<1> QED BY <1>1, <1>2, AlwaysTagged, PTL DEF EngineSpec

\* flush of the writer returns when every event sent before it is in the file, as
\* long as no write failed: the request follows the events through the channel,
\* and the buffer and the batch are written before the answer (async_writer.rs).
THEOREM FlushWaitsForAll == EngineSpec => []FlushIsComplete
<1>1. Tagged /\ FlushInv => FlushIsComplete
  <2>1. SUFFICES ASSUME Tagged, FlushInv, NEW t \in Thread, At(t, "flushed"), flushErrors = 0
                 PROVE  Len(eventLog) >= thread[t].owed
    BY DEF FlushIsComplete
  <2>2. \A s \in ThreadState : s.stage = "flushed" => s.owed \in Nat
    BY DEF ThreadState, Idle, Applying, Indexing, Flushing
  <2>3. thread[t].owed \in Nat /\ Len(eventLog) \in Nat
    BY <2>1, <2>2 DEF Tagged, EngineTypeOK, ThreadState, At
  <2> QED BY <2>1, <2>3 DEF FlushInv
<1> QED BY <1>1, AlwaysTagged, AlwaysFlushInv, PTL

----------------------------------------------------------------------------
(* LruCache: the invariant says that the slots that hold entries form a path l
   from head to tail; what a call does to the pointers is, on l, to take a slot
   out (Drop) or to put one in front (Push). *)

(* Sequences: taking one element out, and putting one in front. *)

Drop(l, j) == [i \in 1..(Len(l) - 1) |-> IF i < j THEN l[i] ELSE l[i + 1]]
Push(x, l) == [i \in 1..(Len(l) + 1) |-> IF i = 1 THEN x ELSE l[i - 1]]

LEMMA DropSeq ==
    ASSUME NEW S, NEW l \in Seq(S), NEW j \in 1..Len(l)
    PROVE  Drop(l, j) \in Seq(S) /\ Len(Drop(l, j)) = Len(l) - 1
<1>1. Len(l) - 1 \in Nat /\ \A i \in 1..Len(l) : l[i] \in S
  OBVIOUS
<1>2. \A i \in 1..(Len(l) - 1) : (IF i < j THEN l[i] ELSE l[i + 1]) \in S
  BY <1>1
<1> QED BY <1>1, <1>2 DEF Drop

LEMMA DropAt ==
    ASSUME NEW l, NEW j
    PROVE  \A i \in 1..(Len(l) - 1) : Drop(l, j)[i] = IF i < j THEN l[i] ELSE l[i + 1]
BY DEF Drop

LEMMA PushSeq ==
    ASSUME NEW S, NEW l \in Seq(S), NEW x \in S
    PROVE  Push(x, l) \in Seq(S) /\ Len(Push(x, l)) = Len(l) + 1
<1>1. Len(l) + 1 \in Nat /\ \A i \in 1..Len(l) : l[i] \in S
  OBVIOUS
<1>2. \A i \in 1..(Len(l) + 1) : (IF i = 1 THEN x ELSE l[i - 1]) \in S
  BY <1>1
<1> QED BY <1>1, <1>2 DEF Push

LEMMA PushAt ==
    ASSUME NEW l, NEW x, Len(l) \in Nat
    PROVE  /\ Push(x, l)[1] = x
           /\ \A i \in 2..(Len(l) + 1) : Push(x, l)[i] = l[i - 1]
           /\ \A i \in 1..Len(l) : Push(x, l)[i + 1] = l[i]
BY DEF Push

----------------------------------------------------------------------------
(* Slots and pointers. *)

Node == [kind : {"node"}, key : CacheKey, val : CacheVal, prev : Nat, next : Nat]
Slot == Node \cup {NoNode}

PrevOf(l, a) == IF a = 1 THEN Nil ELSE l[a - 1]
NextOf(l, a) == IF a = Len(l) THEN Nil ELSE l[a + 1]
HeadOf(l) == IF Len(l) = 0 THEN Nil ELSE l[1]
TailOf(l) == IF Len(l) = 0 THEN Nil ELSE l[Len(l)]

\* l visits slots that hold nodes, each once ...
Path(nodes, l) ==
    /\ l \in Seq(Nat)
    /\ \A a \in 1..Len(l) : l[a] \in 1..Len(nodes) /\ nodes[l[a]] \in Node
    /\ \A a, b \in 1..Len(l) : l[a] = l[b] => a = b

\* ... and their pointers go along it.
Linked(nodes, l) ==
    \A a \in 1..Len(l) : nodes[l[a]].prev = PrevOf(l, a) /\ nodes[l[a]].next = NextOf(l, a)

\* The same slots are in use, for the same entries.
SameEntries(nodes, z) ==
    /\ z \in Seq(Slot) /\ Len(z) = Len(nodes)
    /\ \A s \in 1..Len(nodes) :
         /\ nodes[s] \in Node => z[s] \in Node /\ z[s].key = nodes[s].key /\ z[s].val = nodes[s].val
         /\ nodes[s] \notin Node => z[s] = nodes[s]

LEMMA PointerSet ==
    ASSUME NEW nodes \in Seq(Slot), NEW i \in 1..Len(nodes), nodes[i] \in Node, NEW p \in Nat
    PROVE  /\ SameEntries(nodes, SetPrev(nodes, i, p)) /\ SameEntries(nodes, SetNext(nodes, i, p))
           /\ SetPrev(nodes, i, p)[i].prev = p
           /\ SetPrev(nodes, i, p)[i].next = nodes[i].next
           /\ SetNext(nodes, i, p)[i].next = p
           /\ SetNext(nodes, i, p)[i].prev = nodes[i].prev
           /\ \A s \in 1..Len(nodes) : s # i =>
                SetPrev(nodes, i, p)[s] = nodes[s] /\ SetNext(nodes, i, p)[s] = nodes[s]
<1> DEFINE n == [nodes[i] EXCEPT !.prev = p]
           m == [nodes[i] EXCEPT !.next = p]
<1>1. n \in Node /\ n.key = nodes[i].key /\ n.val = nodes[i].val
      /\ n.prev = p /\ n.next = nodes[i].next
  BY DEF Node
<1>2. m \in Node /\ m.key = nodes[i].key /\ m.val = nodes[i].val
      /\ m.next = p /\ m.prev = nodes[i].prev
  BY DEF Node
<1>3. SetPrev(nodes, i, p) = [nodes EXCEPT ![i] = n]
  BY DEF SetPrev, Nil
<1>4. SetNext(nodes, i, p) = [nodes EXCEPT ![i] = m]
  BY DEF SetNext, Nil
<1> HIDE DEF n, m
<1> DEFINE x == SetPrev(nodes, i, p)
           y == SetNext(nodes, i, p)
<1>5. x \in Seq(Slot) /\ Len(x) = Len(nodes) /\ x[i] = n
      /\ \A s \in 1..Len(nodes) : s # i => x[s] = nodes[s]
  BY <1>1, <1>3 DEF Slot
<1>6. y \in Seq(Slot) /\ Len(y) = Len(nodes) /\ y[i] = m
      /\ \A s \in 1..Len(nodes) : s # i => y[s] = nodes[s]
  BY <1>2, <1>4 DEF Slot
<1> HIDE DEF x, y
<1>7. SameEntries(nodes, x) /\ SameEntries(nodes, y)
  BY <1>1, <1>2, <1>5, <1>6 DEF SameEntries
<1> QED BY <1>1, <1>2, <1>5, <1>6, <1>7 DEF x, y

LEMMA SameTrans ==
    ASSUME NEW nodes \in Seq(Slot), NEW w, NEW z, SameEntries(nodes, w), SameEntries(w, z)
    PROVE  SameEntries(nodes, z)
BY DEF SameEntries, Slot

\* A node in slot i, if it is one.
Held(nodes, i) == i # Nil => i \in 1..Len(nodes) /\ nodes[i] \in Node

LEMMA SetPointer ==
    ASSUME NEW nodes \in Seq(Slot), NEW i \in Nat, Held(nodes, i), NEW p \in Nat
    PROVE  /\ SameEntries(nodes, SetPrev(nodes, i, p)) /\ SameEntries(nodes, SetNext(nodes, i, p))
           /\ \A s \in 1..Len(nodes) :
                /\ s # i => SetPrev(nodes, i, p)[s] = nodes[s] /\ SetNext(nodes, i, p)[s] = nodes[s]
                /\ s = i => /\ SetPrev(nodes, i, p)[s].prev = p
                            /\ SetPrev(nodes, i, p)[s].next = nodes[s].next
                            /\ SetNext(nodes, i, p)[s].next = p
                            /\ SetNext(nodes, i, p)[s].prev = nodes[s].prev
<1>1. CASE i = Nil
  BY <1>1 DEF SetPrev, SetNext, SameEntries, Nil
<1>2. CASE i # Nil
  <2>1. i \in 1..Len(nodes) /\ nodes[i] \in Node
    BY <1>2 DEF Held
  <2> QED BY <2>1, PointerSet
<1> QED BY <1>1, <1>2

LEMMA PathEnds ==
    ASSUME NEW nodes \in Seq(Slot), NEW l, Path(nodes, l), NEW j \in 1..Len(l)
    PROVE  /\ PrevOf(l, j) \in Nat /\ NextOf(l, j) \in Nat
           /\ Held(nodes, PrevOf(l, j)) /\ Held(nodes, NextOf(l, j))
           /\ l[j] # PrevOf(l, j) /\ l[j] # NextOf(l, j)
           /\ PrevOf(l, j) # Nil => PrevOf(l, j) # NextOf(l, j)
           /\ HeadOf(l) = l[1] /\ HeadOf(l) \in Nat /\ Held(nodes, HeadOf(l))
           /\ \A a \in 1..Len(l) : l[a] # Nil
<1>1. Len(l) \in Nat /\ \A a \in 1..Len(l) : l[a] \in Nat /\ l[a] \in 1..Len(nodes) /\ l[a] # 0
  BY DEF Path
<1> QED BY <1>1 DEF Path, PrevOf, NextOf, HeadOf, Held, Nil

\* What unlinking does to the path: a slot is taken out.
LEMMA UnlinkedIs ==
    ASSUME NEW nodes \in Seq(Slot), NEW l, Path(nodes, l), Linked(nodes, l), NEW j \in 1..Len(l)
    PROVE  /\ SameEntries(nodes, Unlinked(nodes, l[j]))
           /\ Unlinked(nodes, l[j])[l[j]] = nodes[l[j]]
           /\ Linked(Unlinked(nodes, l[j]), Drop(l, j))
<1> DEFINE p == PrevOf(l, j)
           q == NextOf(l, j)
           w == SetNext(nodes, p, q)
           z == SetPrev(w, q, p)
           m == Drop(l, j)
<1>1. l \in Seq(Nat) /\ Len(l) \in Nat /\ (\A a \in 1..Len(l) : l[a] \in 1..Len(nodes) /\ l[a] # 0)
      /\ \A a, b \in 1..Len(l) : l[a] = l[b] => a = b
  BY DEF Path
<1>2. p \in Nat /\ q \in Nat /\ Held(nodes, p) /\ Held(nodes, q) /\ l[j] # p /\ l[j] # q
      /\ (p # Nil => p # q)
  BY PathEnds
<1>3. Unlinked(nodes, l[j]) = z
  BY DEF Unlinked, Linked
<1>4. \A a \in 1..Len(l) : nodes[l[a]].prev = PrevOf(l, a) /\ nodes[l[a]].next = NextOf(l, a)
  BY DEF Linked
<1>p. (j = 1 => p = Nil) /\ (j # 1 => p = l[j - 1])
      /\ (j = Len(l) => q = Nil) /\ (j # Len(l) => q = l[j + 1])
  BY DEF PrevOf, NextOf
<1> HIDE DEF p, q
<1>5. SameEntries(nodes, w)
      /\ \A s \in 1..Len(nodes) : /\ s # p => w[s] = nodes[s]
                                  /\ s = p => w[s].next = q /\ w[s].prev = nodes[s].prev
  BY <1>2, SetPointer
<1>6. w \in Seq(Slot) /\ Len(w) = Len(nodes) /\ Held(w, q)
  BY <1>2, <1>5 DEF SameEntries, Held
<1> HIDE DEF w
<1>7. SameEntries(w, z)
      /\ \A s \in 1..Len(nodes) : /\ s # q => z[s] = w[s]
                                  /\ s = q => z[s].prev = p /\ z[s].next = w[s].next
  BY <1>2, <1>6, SetPointer
<1> HIDE DEF z
<1>8. SameEntries(nodes, z)
  BY <1>5, <1>7, SameTrans
<1>9. /\ z[l[j]] = nodes[l[j]]
      /\ \A s \in 1..Len(nodes) :
           /\ s # p => z[s].next = nodes[s].next
           /\ s = p => z[s].next = q
           /\ s # q => z[s].prev = nodes[s].prev
           /\ s = q => z[s].prev = p
  BY <1>1, <1>2, <1>5, <1>7 DEF Nil
<1>10. Len(m) = Len(l) - 1
       /\ \A i \in 1..(Len(l) - 1) : m[i] = IF i < j THEN l[i] ELSE l[i + 1]
  BY <1>1, DropSeq, DropAt
<1> HIDE DEF m
<1>11. \A a \in 1..Len(l) : /\ a # j - 1 => z[l[a]].next = NextOf(l, a)
                            /\ a = j - 1 => z[l[a]].next = q
                            /\ a # j + 1 => z[l[a]].prev = PrevOf(l, a)
                            /\ a = j + 1 => z[l[a]].prev = p
  <2> TAKE a \in 1..Len(l)
  <2>1. a # j - 1 => l[a] # p
    BY <1>1, <1>p DEF Nil
  <2>2. a = j - 1 => l[a] = p
    BY <1>1, <1>p
  <2>3. a # j + 1 => l[a] # q
    BY <1>1, <1>p DEF Nil
  <2>4. a = j + 1 => l[a] = q
    BY <1>1, <1>p
  <2>5. l[a] \in 1..Len(nodes)
    BY <1>1
  <2> QED BY <1>4, <1>9, <2>1, <2>2, <2>3, <2>4, <2>5
<1>12. Linked(z, m)
  <2> SUFFICES ASSUME NEW a \in 1..Len(m)
               PROVE  z[m[a]].prev = PrevOf(m, a) /\ z[m[a]].next = NextOf(m, a)
    BY DEF Linked
  <2>0. Len(l) \in Nat /\ a \in 1..(Len(l) - 1) /\ a \in 1..Len(l) /\ a + 1 \in 1..Len(l)
        /\ (a # 1 => a - 1 \in 1..(Len(l) - 1))
        /\ (a # Len(m) <=> a + 1 \in 1..(Len(l) - 1)) /\ (a # Len(m) <=> a + 1 # Len(l))
        /\ (a + 1) - 1 = a /\ (a + 1) + 1 = a + 2 /\ a + 1 # 1
    BY <1>1, <1>10
  <2>1. CASE a < j
    <3>1. m[a] = l[a] /\ (a # 1 => m[a - 1] = l[a - 1]) /\ a # j + 1
      BY <2>0, <2>1, <1>10
    <3>2. z[m[a]].prev = PrevOf(m, a)
      BY <3>1, <1>11, <2>0 DEF PrevOf
    <3>3. CASE a # j - 1
      <4>1. a + 1 < j /\ a # Len(m) /\ a # Len(l)
        BY <2>0, <2>1, <3>3, <1>10
      <4>2. m[a + 1] = l[a + 1]
        BY <2>0, <4>1, <1>10
      <4> QED BY <3>1, <3>2, <3>3, <4>1, <4>2, <1>11, <2>0 DEF NextOf
    <3>4. CASE a = j - 1
      <4>1. a # Len(m) => j # Len(l) /\ m[a + 1] = l[j + 1]
        <5> SUFFICES ASSUME a # Len(m) PROVE j # Len(l) /\ m[a + 1] = l[j + 1]
          OBVIOUS
        <5>1. a + 1 = j /\ a + 1 \in 1..(Len(l) - 1)
          BY <2>0, <3>4
        <5> QED BY <5>1, <2>0, <1>10
      <4>2. a = Len(m) => j = Len(l)
        BY <2>0, <3>4, <1>10
      <4>3. z[m[a]].next = q
        BY <3>1, <3>4, <1>11, <2>0
      <4> QED BY <3>2, <4>1, <4>2, <4>3, <1>p DEF NextOf
    <3> QED BY <3>3, <3>4
  <2>2. CASE a >= j
    <3>1. m[a] = l[a + 1] /\ a + 1 # j - 1
      BY <2>0, <2>2, <1>10
    <3>2. z[m[a]].next = NextOf(m, a)
      <4>1. z[m[a]].next = NextOf(l, a + 1)
        BY <3>1, <1>11, <2>0
      <4>2. a # Len(m) => m[a + 1] = l[a + 2]
        <5> SUFFICES ASSUME a # Len(m) PROVE m[a + 1] = l[a + 2]
          OBVIOUS
        <5>1. a + 1 \in 1..(Len(l) - 1) /\ ~ (a + 1 < j) /\ (a + 1) + 1 = a + 2
          BY <2>0, <2>2
        <5> QED BY <5>1, <1>10
      <4> QED BY <4>1, <4>2, <2>0 DEF NextOf
    <3>3. CASE a = j
      <4>1. z[m[a]].prev = p
        BY <3>1, <3>3, <1>11, <2>0
      <4>2. a # 1 => m[a - 1] = l[a - 1]
        BY <2>0, <3>3, <1>10
      <4> QED BY <3>2, <3>3, <4>1, <4>2, <1>p DEF PrevOf
    <3>4. CASE a # j
      <4>1. a - 1 \in 1..(Len(l) - 1) /\ ~ (a - 1 < j) /\ (a - 1) + 1 = a /\ a # 1
        BY <2>0, <2>2, <3>4
      <4>2. m[a - 1] = l[a]
        BY <4>1, <1>10
      <4>3. a + 1 # j + 1
        BY <2>0, <3>4
      <4>4. z[m[a]].prev = PrevOf(l, a + 1)
        BY <3>1, <4>3, <1>11, <2>0
      <4> QED BY <3>2, <4>1, <4>2, <4>4, <2>0 DEF PrevOf
    <3> QED BY <3>3, <3>4
  <2>3. a < j \/ a >= j
    BY <2>0
  <2> QED BY <2>1, <2>2, <2>3
<1> QED BY <1>3, <1>8, <1>9, <1>12 DEF m

LEMMA PathKept ==
    ASSUME NEW nodes \in Seq(Slot), NEW l, Path(nodes, l), NEW z, SameEntries(nodes, z)
    PROVE  Path(z, l)
BY DEF Path, SameEntries

LEMMA PathDrop ==
    ASSUME NEW nodes \in Seq(Slot), NEW l, Path(nodes, l), NEW j \in 1..Len(l)
    PROVE  Path(nodes, Drop(l, j)) /\ \A a \in 1..Len(Drop(l, j)) : Drop(l, j)[a] # l[j]
<1> DEFINE m == Drop(l, j)
<1>1. l \in Seq(Nat) /\ Len(l) \in Nat
      /\ (\A a \in 1..Len(l) : l[a] \in 1..Len(nodes) /\ nodes[l[a]] \in Node)
      /\ \A a, b \in 1..Len(l) : l[a] = l[b] => a = b
  BY DEF Path
<1>2. m \in Seq(Nat) /\ Len(m) = Len(l) - 1
      /\ \A i \in 1..(Len(l) - 1) : m[i] = IF i < j THEN l[i] ELSE l[i + 1]
  BY <1>1, DropSeq, DropAt
<1> HIDE DEF m
<1> DEFINE Src(a) == IF a < j THEN a ELSE a + 1
<1>3. ASSUME NEW a \in 1..Len(m)
      PROVE  Src(a) \in 1..Len(l) /\ m[a] = l[Src(a)] /\ Src(a) # j
  <2>1. a \in 1..(Len(l) - 1) /\ Len(l) \in Nat
    BY <1>1, <1>2
  <2>2. m[a] = IF a < j THEN l[a] ELSE l[a + 1]
    BY <1>2, <2>1
  <2> QED BY <2>1, <2>2
<1>4. \A a, b \in 1..Len(m) : Src(a) = Src(b) => a = b
  <2>1. j \in Int /\ \A a \in 1..Len(m) : a \in Int
    BY <1>1, <1>2
  <2>2. \A a, b \in Int : Src(a) = Src(b) => a = b
    BY <2>1
  <2> QED BY <2>1, <2>2
<1> HIDE DEF Src
<1>5. \A a \in 1..Len(m) : m[a] # l[j] /\ m[a] \in 1..Len(nodes) /\ nodes[m[a]] \in Node
  BY <1>1, <1>3
<1>6. \A a, b \in 1..Len(m) : m[a] = m[b] => a = b
  BY <1>1, <1>3, <1>4
<1> QED BY <1>2, <1>5, <1>6 DEF m, Path

LEMMA PathPush ==
    ASSUME NEW nodes \in Seq(Slot), NEW l, Path(nodes, l),
           NEW x \in 1..Len(nodes), nodes[x] \in Node, \A a \in 1..Len(l) : l[a] # x
    PROVE  Path(nodes, Push(x, l))
<1> DEFINE m == Push(x, l)
<1>1. l \in Seq(Nat) /\ Len(l) \in Nat /\ x \in Nat
      /\ (\A a \in 1..Len(l) : l[a] \in 1..Len(nodes) /\ nodes[l[a]] \in Node)
      /\ \A a, b \in 1..Len(l) : l[a] = l[b] => a = b
  BY DEF Path
<1>2. m \in Seq(Nat) /\ Len(m) = Len(l) + 1 /\ m[1] = x
      /\ \A i \in 2..(Len(l) + 1) : m[i] = l[i - 1]
  <2>1. l \in Seq(Nat) /\ x \in Nat
    BY <1>1
  <2>2. m \in Seq(Nat) /\ Len(m) = Len(l) + 1
    BY <2>1, PushSeq
  <2> QED BY <2>1, <2>2, PushAt
<1> HIDE DEF m
<1>3. \A a \in 1..Len(m) : m[a] \in 1..Len(nodes) /\ nodes[m[a]] \in Node
  <2> TAKE a \in 1..Len(m)
  <2>1. CASE a = 1
    BY <2>1, <1>2
  <2>2. CASE a # 1
    <3>1. a \in 2..(Len(l) + 1) /\ a - 1 \in 1..Len(l)
      BY <2>2, <1>1, <1>2
    <3> QED BY <3>1, <1>1, <1>2
  <2> QED BY <2>1, <2>2
<1>4. ASSUME NEW a \in 1..Len(m), NEW b \in 1..Len(m), m[a] = m[b] PROVE a = b
  <2>1. (a = 1 \/ (a \in 2..(Len(l) + 1) /\ a - 1 \in 1..Len(l)))
        /\ (b = 1 \/ (b \in 2..(Len(l) + 1) /\ b - 1 \in 1..Len(l)))
    BY <1>1, <1>2
  <2>2. a # 1 /\ b # 1 => a - 1 = b - 1
    BY <2>1, <1>1, <1>2, <1>4
  <2>3. a = 1 <=> b = 1
    BY <2>1, <1>2, <1>4
  <2> QED BY <2>1, <2>2, <2>3
<1>5. Path(nodes, m)
  BY <1>2, <1>3, <1>4 DEF Path
<1> QED BY <1>5 DEF m

\* Pointers elsewhere do not matter.
LEMMA LinkedElsewhere ==
    ASSUME NEW nodes, NEW l, Linked(nodes, l), NEW z, \A a \in 1..Len(l) : z[l[a]] = nodes[l[a]]
    PROVE  Linked(z, l)
BY DEF Linked

\* A node that points to the head, and that the head is made to point back to.
LEMMA FrontLinked ==
    ASSUME NEW nodes \in Seq(Slot), NEW l, Path(nodes, l), Linked(nodes, l),
           NEW x \in 1..Len(nodes), nodes[x] \in Node, \A a \in 1..Len(l) : l[a] # x,
           nodes[x].prev = Nil, nodes[x].next = HeadOf(l)
    PROVE  /\ SameEntries(nodes, SetPrev(nodes, HeadOf(l), x))
           /\ Linked(SetPrev(nodes, HeadOf(l), x), Push(x, l))
<1> DEFINE h == HeadOf(l)
           z == SetPrev(nodes, h, x)
           m == Push(x, l)
<1>1. l \in Seq(Nat) /\ Len(l) \in Nat /\ x \in Nat /\ x # 0
      /\ (\A a \in 1..Len(l) : l[a] \in 1..Len(nodes) /\ l[a] # 0)
      /\ \A a, b \in 1..Len(l) : l[a] = l[b] => a = b
  BY DEF Path
<1>2. h \in Nat /\ Held(nodes, h) /\ (Len(l) = 0 => h = Nil) /\ (Len(l) # 0 => h = l[1])
  BY DEF Path, Held, HeadOf, Nil
<1>3. nodes[x].prev = Nil /\ nodes[x].next = h
  OBVIOUS
<1> HIDE DEF h
<1>4. SameEntries(nodes, z)
      /\ \A s \in 1..Len(nodes) : /\ s # h => z[s] = nodes[s]
                                  /\ s = h => z[s].prev = x /\ z[s].next = nodes[s].next
  BY <1>1, <1>2, SetPointer
<1> HIDE DEF z
<1>5. Len(m) = Len(l) + 1 /\ m[1] = x /\ (\A i \in 2..(Len(l) + 1) : m[i] = l[i - 1])
      /\ \A i \in 1..Len(l) : m[i + 1] = l[i]
  <2>1. l \in Seq(Nat) /\ x \in Nat
    BY <1>1
  <2>2. m \in Seq(Nat) /\ Len(m) = Len(l) + 1
    BY <2>1, PushSeq
  <2>3. m[1] = x /\ \A i \in 2..(Len(l) + 1) : m[i] = l[i - 1]
    BY <2>1, PushAt
  <2>4. \A i \in 1..Len(l) : m[i + 1] = l[i]
    BY <2>1, PushAt
  <2> QED BY <2>2, <2>3, <2>4
<1> HIDE DEF m
<1>6. \A a \in 1..Len(l) : /\ z[l[a]].next = NextOf(l, a)
                           /\ a # 1 => z[l[a]].prev = l[a - 1]
                           /\ a = 1 => z[l[a]].prev = x
  <2> TAKE a \in 1..Len(l)
  <2>1. (a # 1 => l[a] # h) /\ (a = 1 => l[a] = h) /\ l[a] \in 1..Len(nodes)
    BY <1>1, <1>2
  <2>2. nodes[l[a]].prev = PrevOf(l, a) /\ nodes[l[a]].next = NextOf(l, a)
    BY DEF Linked
  <2> QED BY <2>1, <2>2, <1>4 DEF PrevOf
<1>7. z[x] = nodes[x]
  BY <1>1, <1>2, <1>4 DEF Nil
<1>8. Linked(z, m)
  <2> SUFFICES ASSUME NEW a \in 1..Len(m)
               PROVE  z[m[a]].prev = PrevOf(m, a) /\ z[m[a]].next = NextOf(m, a)
    BY DEF Linked
  <2>1. CASE a = 1
    <3>1. z[m[a]].prev = Nil /\ z[m[a]].next = h
      BY <2>1, <1>3, <1>5, <1>7
    <3>2. a = Len(m) <=> Len(l) = 0
      BY <2>1, <1>1, <1>5
    <3>3. Len(l) # 0 => m[a + 1] = l[1]
      BY <2>1, <1>1, <1>5
    <3> QED BY <2>1, <3>1, <3>2, <3>3, <1>2 DEF PrevOf, NextOf
  <2>2. CASE a # 1
    <3>1. a - 1 \in 1..Len(l) /\ a \in 2..(Len(l) + 1) /\ (a - 1) + 1 = a
          /\ (a = Len(m) <=> a - 1 = Len(l))
      BY <2>2, <1>1, <1>5
    <3>2. m[a] = l[a - 1]
      BY <3>1, <1>5
    <3>3. a # Len(m) => m[a + 1] = l[a]
      BY <3>1, <1>1, <1>5
    <3>4. a - 1 # 1 => m[a - 1] = l[(a - 1) - 1]
      BY <3>1, <1>1, <1>5
    <3>5. a - 1 = 1 => m[a - 1] = x
      BY <3>1, <1>5
    <3> QED BY <2>2, <3>1, <3>2, <3>3, <3>4, <3>5, <1>6 DEF PrevOf, NextOf
  <2> QED BY <2>1, <2>2
<1> QED BY <1>4, <1>8 DEF h, z, m

SlotsOf(l) == {l[a] : a \in 1..Len(l)}

LEMMA SlotsDrop ==
    ASSUME NEW nodes \in Seq(Slot), NEW l, Path(nodes, l), NEW j \in 1..Len(l)
    PROVE  SlotsOf(Drop(l, j)) = SlotsOf(l) \ {l[j]}
<1> DEFINE m == Drop(l, j)
<1>1. l \in Seq(Nat) /\ Len(l) \in Nat
  BY DEF Path
<1>2. Len(m) = Len(l) - 1
      /\ \A i \in 1..(Len(l) - 1) : m[i] = IF i < j THEN l[i] ELSE l[i + 1]
  BY <1>1, DropSeq, DropAt
<1>3. \A a \in 1..Len(m) : m[a] # l[j]
  BY PathDrop
<1> HIDE DEF m
<1>4. ASSUME NEW a \in 1..Len(m) PROVE \E b \in 1..Len(l) : m[a] = l[b]
  <2>1. a \in 1..(Len(l) - 1) /\ a \in 1..Len(l) /\ a + 1 \in 1..Len(l)
    BY <1>1, <1>2
  <2> QED BY <2>1, <1>2
<1>5. ASSUME NEW a \in 1..Len(l), l[a] # l[j] PROVE \E b \in 1..Len(m) : l[a] = m[b]
  <2>1. CASE a < j
    <3>1. a \in 1..(Len(l) - 1) /\ a \in 1..Len(m)
      BY <2>1, <1>1, <1>2
    <3> QED BY <2>1, <3>1, <1>2
  <2>2. CASE a > j
    <3>1. a - 1 \in 1..(Len(l) - 1) /\ a - 1 \in 1..Len(m) /\ ~ (a - 1 < j) /\ (a - 1) + 1 = a
      BY <2>2, <1>1, <1>2
    <3>2. m[a - 1] = l[a]
      BY <3>1, <1>2
    <3> QED BY <3>1, <3>2
  <2>3. a < j \/ a > j
    BY <1>5, <1>1
  <2> QED BY <2>1, <2>2, <2>3
<1>6. SlotsOf(m) = SlotsOf(l) \ {l[j]}
  <2>1. ASSUME NEW s \in SlotsOf(m) PROVE s \in SlotsOf(l) \ {l[j]}
    BY <1>3, <1>4 DEF SlotsOf
  <2>2. ASSUME NEW s \in SlotsOf(l) \ {l[j]} PROVE s \in SlotsOf(m)
    BY <1>5 DEF SlotsOf
  <2> QED BY <2>1, <2>2
<1> QED BY <1>6 DEF m

LEMMA SlotsPush ==
    ASSUME NEW l, Len(l) \in Nat, NEW x, Len(Push(x, l)) = Len(l) + 1
    PROVE  SlotsOf(Push(x, l)) = SlotsOf(l) \cup {x}
<1> DEFINE m == Push(x, l)
<1>1. m[1] = x /\ \A i \in 2..(Len(l) + 1) : m[i] = l[i - 1]
  BY PushAt
<1>2. \A i \in 1..Len(l) : m[i + 1] = l[i]
  BY PushAt
<1>3. Len(m) = Len(l) + 1
  OBVIOUS
<1> HIDE DEF m
<1>4. ASSUME NEW a \in 1..Len(m) PROVE m[a] \in SlotsOf(l) \cup {x}
  <2>1. CASE a = 1
    BY <2>1, <1>1
  <2>2. CASE a # 1
    <3>1. a \in 2..(Len(l) + 1) /\ a - 1 \in 1..Len(l)
      BY <2>2, <1>3
    <3> QED BY <3>1, <1>1 DEF SlotsOf
  <2> QED BY <2>1, <2>2
<1>5. ASSUME NEW a \in 1..Len(l) PROVE l[a] \in SlotsOf(m)
  <2>1. a + 1 \in 1..Len(m)
    BY <1>3
  <2> QED BY <2>1, <1>2 DEF SlotsOf
<1>6. x \in SlotsOf(m)
  <2>1. 1 \in 1..Len(m)
    BY <1>3
  <2> QED BY <2>1, <1>1 DEF SlotsOf
<1>7. SlotsOf(m) = SlotsOf(l) \cup {x}
  <2>1. \A s \in SlotsOf(m) : s \in SlotsOf(l) \cup {x}
    BY <1>4 DEF SlotsOf
  <2>2. \A s \in SlotsOf(l) : s \in SlotsOf(m)
    BY <1>5 DEF SlotsOf
  <2> QED BY <2>1, <2>2, <1>6
<1> QED BY <1>7 DEF m

----------------------------------------------------------------------------
(* The invariant. *)

\* The map leads to the slot of every key.
Mapped(map, nodes, slots) ==
    /\ \A k \in DOMAIN map : map[k] \in slots /\ nodes[map[k]].key = k
    /\ \A s \in slots : nodes[s].key \in DOMAIN map /\ map[nodes[s].key] = s

\* The other slots are free, once each.
Freed(free, n, slots) ==
    /\ free \in Seq(Nat)
    /\ \A a, b \in 1..Len(free) : free[a] = free[b] => a = b
    /\ SlotsOf(free) = (1..n) \ slots

\* The entries of c are in the slots of l, in this order.
Chain(c, l) ==
    /\ c = [map |-> c.map, nodes |-> c.nodes, head |-> c.head, tail |-> c.tail, free |-> c.free]
    /\ c.nodes \in Seq(Slot) /\ Len(c.nodes) <= Capacity
    /\ Path(c.nodes, l) /\ Linked(c.nodes, l)
    /\ c.head = HeadOf(l) /\ c.tail = TailOf(l)
    /\ Mapped(c.map, c.nodes, SlotsOf(l))
    /\ Freed(c.free, Len(c.nodes), SlotsOf(l))
    /\ Len(c.free) + Len(l) = Len(c.nodes)

\* What the slots along l hold.
EntriesOf(nodes, l) == [a \in 1..Len(l) |-> [key |-> nodes[l[a]].key, val |-> nodes[l[a]].val]]

CacheInv == \E l : Chain(cache, l)

LEMMA EndsDrop ==
    ASSUME NEW l \in Seq(Nat), NEW j \in 1..Len(l)
    PROVE  /\ HeadOf(Drop(l, j)) = IF j = 1 THEN NextOf(l, j) ELSE HeadOf(l)
           /\ TailOf(Drop(l, j)) = IF j = Len(l) THEN PrevOf(l, j) ELSE TailOf(l)
<1> DEFINE m == Drop(l, j)
<1>0. Len(l) \in Nat /\ Len(m) = Len(l) - 1
  BY DropSeq
<1>1. Len(l) \in Nat /\ Len(m) = Len(l) - 1
      /\ \A i \in 1..(Len(l) - 1) : m[i] = IF i < j THEN l[i] ELSE l[i + 1]
  BY <1>0, DropAt
<1> HIDE DEF m
<1>2. CASE Len(l) = 1
  BY <1>1, <1>2 DEF HeadOf, TailOf, NextOf, PrevOf, m
<1>3. CASE Len(l) # 1
  <2>1. Len(l) - 1 \in 1..(Len(l) - 1) /\ 1 \in 1..(Len(l) - 1) /\ (Len(l) - 1) + 1 = Len(l)
        /\ 1 + 1 = 2
    BY <1>1, <1>3
  <2>2. m[1] = (IF j = 1 THEN l[2] ELSE l[1])
    BY <1>1, <2>1
  <2>3. m[Len(l) - 1] = (IF j = Len(l) THEN l[Len(l) - 1] ELSE l[Len(l)])
    BY <1>1, <2>1
  <2> QED BY <1>1, <1>3, <2>2, <2>3 DEF HeadOf, TailOf, NextOf, PrevOf, m
<1> QED BY <1>2, <1>3

LEMMA EndsPush ==
    ASSUME NEW l \in Seq(Nat), NEW x \in Nat
    PROVE  /\ HeadOf(Push(x, l)) = x
           /\ TailOf(Push(x, l)) = IF Len(l) = 0 THEN x ELSE TailOf(l)
<1> DEFINE m == Push(x, l)
<1>1. Len(l) \in Nat /\ Len(m) = Len(l) + 1
  BY PushSeq
<1>2. m[1] = x /\ \A i \in 1..Len(l) : m[i + 1] = l[i]
  BY <1>1, PushAt
<1> HIDE DEF m
<1>3. HeadOf(m) = x /\ TailOf(m) = IF Len(l) = 0 THEN x ELSE TailOf(l)
  BY <1>1, <1>2 DEF HeadOf, TailOf
<1> QED BY <1>3 DEF m

LEMMA EntriesLen ==
    ASSUME NEW nodes, NEW l \in Seq(Nat)
    PROVE  /\ EntriesOf(nodes, l) \in Seq({[key |-> nodes[l[a]].key, val |-> nodes[l[a]].val] : a \in 1..Len(l)})
           /\ Len(EntriesOf(nodes, l)) = Len(l)
           /\ \A a \in 1..Len(l) : EntriesOf(nodes, l)[a] = [key |-> nodes[l[a]].key, val |-> nodes[l[a]].val]
<1> DEFINE e(a) == [key |-> nodes[l[a]].key, val |-> nodes[l[a]].val]
           T == {e(a) : a \in 1..Len(l)}
<1>1. EntriesOf(nodes, l) = [a \in 1..Len(l) |-> e(a)] /\ Len(l) \in Nat
  BY DEF EntriesOf
<1>2. \A a \in 1..Len(l) : e(a) \in T
  OBVIOUS
<1> HIDE DEF e
<1>3. EntriesOf(nodes, l) \in Seq(T) /\ Len(EntriesOf(nodes, l)) = Len(l)
      /\ \A a \in 1..Len(l) : EntriesOf(nodes, l)[a] = e(a)
  <2> HIDE DEF T
  <2> QED BY <1>1, <1>2
<1> QED BY <1>3 DEF e

LEMMA EntriesDrop ==
    ASSUME NEW nodes, NEW l \in Seq(Nat), NEW j \in 1..Len(l)
    PROVE  EntriesOf(nodes, Drop(l, j)) = Drop(EntriesOf(nodes, l), j)
<1> DEFINE m == Drop(l, j)
           e(s) == [key |-> nodes[s].key, val |-> nodes[s].val]
           E == EntriesOf(nodes, l)
<1>0. Len(l) \in Nat /\ Len(m) = Len(l) - 1
  BY DropSeq
<1>1. Len(l) \in Nat /\ Len(m) = Len(l) - 1
      /\ \A i \in 1..(Len(l) - 1) : m[i] = IF i < j THEN l[i] ELSE l[i + 1]
  BY <1>0, DropAt
<1>2. Len(E) = Len(l) /\ \A a \in 1..Len(l) : E[a] = e(l[a])
  BY EntriesLen
<1>3. EntriesOf(nodes, m) = [a \in 1..Len(m) |-> e(m[a])]
  BY DEF EntriesOf
<1>4. Drop(E, j) = [i \in 1..(Len(E) - 1) |-> IF i < j THEN E[i] ELSE E[i + 1]]
  BY DEF Drop
<1> HIDE DEF m, E, e
<1>5. \A i \in 1..(Len(l) - 1) : e(m[i]) = IF i < j THEN E[i] ELSE E[i + 1]
  <2> TAKE i \in 1..(Len(l) - 1)
  <2>1. i \in 1..Len(l) /\ i + 1 \in 1..Len(l)
    BY <1>1
  <2> QED BY <2>1, <1>1, <1>2
<1>6. EntriesOf(nodes, m) = Drop(E, j)
  BY <1>1, <1>2, <1>3, <1>4, <1>5
<1> QED BY <1>6 DEF m, E

LEMMA EntriesPush ==
    ASSUME NEW nodes, NEW l \in Seq(Nat), NEW x \in Nat
    PROVE  EntriesOf(nodes, Push(x, l))
             = Push([key |-> nodes[x].key, val |-> nodes[x].val], EntriesOf(nodes, l))
<1> DEFINE m == Push(x, l)
           e(s) == [key |-> nodes[s].key, val |-> nodes[s].val]
           E == EntriesOf(nodes, l)
<1>1. Len(l) \in Nat /\ Len(m) = Len(l) + 1
  BY PushSeq
<1>2. m[1] = x /\ \A i \in 2..(Len(l) + 1) : m[i] = l[i - 1]
  BY <1>1, PushAt
<1>3. Len(E) = Len(l) /\ \A a \in 1..Len(l) : E[a] = e(l[a])
  BY EntriesLen
<1>4. EntriesOf(nodes, m) = [a \in 1..Len(m) |-> e(m[a])]
  BY DEF EntriesOf
<1>5. Push(e(x), E) = [i \in 1..(Len(E) + 1) |-> IF i = 1 THEN e(x) ELSE E[i - 1]]
  BY DEF Push
<1> HIDE DEF m, E, e
<1>6. \A i \in 1..(Len(l) + 1) : e(m[i]) = IF i = 1 THEN e(x) ELSE E[i - 1]
  <2> TAKE i \in 1..(Len(l) + 1)
  <2>1. i # 1 => i - 1 \in 1..Len(l) /\ i \in 2..(Len(l) + 1)
    BY <1>1
  <2> QED BY <2>1, <1>2, <1>3
<1>7. EntriesOf(nodes, m) = Push(e(x), E)
  BY <1>1, <1>3, <1>4, <1>5, <1>6
<1> QED BY <1>7 DEF m, E, e

LEMMA EntriesKept ==
    ASSUME NEW nodes, NEW l, NEW z,
           \A a \in 1..Len(l) : z[l[a]].key = nodes[l[a]].key /\ z[l[a]].val = nodes[l[a]].val
    PROVE  EntriesOf(z, l) = EntriesOf(nodes, l)
BY DEF EntriesOf

----------------------------------------------------------------------------
(* What the calls do to the list. *)

\* What the invariant says of the path, for use without it.
LEMMA ChainIs ==
    ASSUME NEW c, NEW l, Chain(c, l)
    PROVE  /\ c.nodes \in Seq(Slot) /\ l \in Seq(Nat) /\ Len(l) \in Nat
           /\ Path(c.nodes, l) /\ Linked(c.nodes, l)
           /\ \A a \in 1..Len(l) :
                /\ l[a] \in 1..Len(c.nodes) /\ l[a] # Nil /\ l[a] \in SlotsOf(l)
                /\ c.nodes[l[a]] \in Node
                /\ c.nodes[l[a]].prev = PrevOf(l, a) /\ c.nodes[l[a]].next = NextOf(l, a)
                /\ c.nodes[l[a]].key \in DOMAIN c.map /\ c.map[c.nodes[l[a]].key] = l[a]
           /\ \A k \in DOMAIN c.map : c.map[k] \in SlotsOf(l) /\ c.nodes[c.map[k]].key = k
           /\ c.head = HeadOf(l) /\ c.tail = TailOf(l)
<1>1. l \in Seq(Nat) /\ \A a \in 1..Len(l) : l[a] \in 1..Len(c.nodes) /\ c.nodes[l[a]] \in Node
  BY DEF Chain, Path
<1>2. \A a \in 1..Len(l) : l[a] \in SlotsOf(l)
  BY DEF SlotsOf
<1>3. \A a \in 1..Len(l) : c.nodes[l[a]].prev = PrevOf(l, a) /\ c.nodes[l[a]].next = NextOf(l, a)
  BY DEF Chain, Linked
<1>4. Mapped(c.map, c.nodes, SlotsOf(l))
  BY DEF Chain
<1> QED BY <1>1, <1>2, <1>3, <1>4 DEF Chain, Mapped, Nil

LEMMA FreedMore ==
    ASSUME NEW free, NEW n \in Nat, NEW slots, Freed(free, n, slots), slots \subseteq 1..n,
           NEW i \in slots
    PROVE  Freed(Append(free, i), n, slots \ {i})
<1> DEFINE z == Append(free, i)
<1>1. free \in Seq(Nat) /\ Len(free) \in Nat /\ i \in Nat /\ i \in 1..n
  BY DEF Freed
<1>2. z \in Seq(Nat) /\ Len(z) = Len(free) + 1 /\ z[Len(free) + 1] = i
      /\ \A a \in 1..Len(free) : z[a] = free[a]
  BY <1>1
<1> HIDE DEF z
<1>3. (\A a \in 1..Len(free) : free[a] \in (1..n) \ slots)
      /\ \A s \in (1..n) \ slots : \E a \in 1..Len(free) : free[a] = s
  BY DEF Freed, SlotsOf
<1>4. \A a \in 1..Len(z) : a \in 1..Len(free) \/ a = Len(free) + 1
  BY <1>1, <1>2
<1>5. \A a, b \in 1..Len(z) : z[a] = z[b] => a = b
  BY <1>1, <1>2, <1>3, <1>4 DEF Freed
<1>6. \A a \in 1..Len(z) : z[a] \in (1..n) \ (slots \ {i})
  BY <1>1, <1>2, <1>3, <1>4
<1>7. ASSUME NEW s \in (1..n) \ (slots \ {i}) PROVE \E a \in 1..Len(z) : z[a] = s
  <2>1. (\A a \in 1..Len(free) : a \in 1..Len(z)) /\ Len(free) + 1 \in 1..Len(z)
    BY <1>1, <1>2
  <2>2. CASE s = i
    BY <2>1, <2>2, <1>2
  <2>3. CASE s # i
    <3>1. PICK a \in 1..Len(free) : free[a] = s
      BY <2>3, <1>3
    <3> QED BY <2>1, <3>1, <1>2
  <2> QED BY <2>2, <2>3
<1>8. SlotsOf(z) = (1..n) \ (slots \ {i})
  BY <1>6, <1>7 DEF SlotsOf
<1> QED BY <1>2, <1>5, <1>8 DEF Freed, z

LEMMA RemoveIs ==
    ASSUME NEW c, NEW l, Chain(c, l), NEW j \in 1..Len(l)
    PROVE  LET r == RemoveAt(c, c.nodes[l[j]].key, l[j]) IN
           /\ Chain(r, Drop(l, j))
           /\ EntriesOf(r.nodes, Drop(l, j)) = Drop(EntriesOf(c.nodes, l), j)
           /\ DOMAIN r.map = DOMAIN c.map \ {c.nodes[l[j]].key}
           /\ r.free # <<>>
<1> DEFINE i == l[j]
           n == c.nodes[i]
           u == Unlinked(c.nodes, i)
           z == [u EXCEPT ![i] = NoNode]
           m == Drop(l, j)
           r == RemoveAt(c, n.key, i)
<1>1. c.nodes \in Seq(Slot) /\ l \in Seq(Nat) /\ Len(l) \in Nat
      /\ Path(c.nodes, l) /\ Linked(c.nodes, l) /\ c.head = HeadOf(l) /\ c.tail = TailOf(l)
  BY ChainIs
<1>2. i \in 1..Len(c.nodes) /\ i # Nil /\ i \in SlotsOf(l) /\ n \in Node
      /\ n.prev = PrevOf(l, j) /\ n.next = NextOf(l, j)
      /\ n.key \in DOMAIN c.map /\ c.map[n.key] = i
  BY ChainIs
<1>3. /\ SameEntries(c.nodes, u) /\ Linked(u, m)
  BY <1>1, UnlinkedIs
<1>4. Path(c.nodes, m) /\ \A a \in 1..Len(m) : m[a] # i
  BY <1>1, PathDrop
<1>5. SlotsOf(m) = SlotsOf(l) \ {i}
  BY <1>1, SlotsDrop
<1>6. m \in Seq(Nat) /\ Len(m) = Len(l) - 1
  BY <1>1, DropSeq
<1>7. /\ HeadOf(m) = IF j = 1 THEN n.next ELSE c.head
      /\ TailOf(m) = IF j = Len(l) THEN n.prev ELSE c.tail
  BY <1>1, <1>2, EndsDrop
<1>8. (n.prev = Nil <=> j = 1) /\ (n.next = Nil <=> j = Len(l))
  <2>1. \A a \in 1..Len(l) : l[a] # Nil
    BY ChainIs
  <2> QED BY <1>1, <1>2, <2>1 DEF PrevOf, NextOf
<1>9. r = [map |-> WithoutKey(c.map, n.key), nodes |-> z,
           head |-> IF n.prev = Nil THEN n.next ELSE c.head,
           tail |-> IF n.next = Nil THEN n.prev ELSE c.tail, free |-> Append(c.free, i)]
  BY DEF RemoveAt
<1>10. EntriesOf(c.nodes, m) = Drop(EntriesOf(c.nodes, l), j)
  BY <1>1, EntriesDrop
<1>11. Path(u, m)
  BY <1>1, <1>3, <1>4, PathKept
<1> HIDE DEF m, u, n
<1>12. z \in Seq(Slot) /\ Len(z) = Len(c.nodes) /\ z[i] = NoNode
       /\ \A s \in 1..Len(c.nodes) : s # i => z[s] = u[s]
  BY <1>2, <1>3 DEF SameEntries, Slot
<1> HIDE DEF z, i, r
<1>13. \A a \in 1..Len(m) : m[a] \in 1..Len(c.nodes) /\ c.nodes[m[a]] \in Node /\ z[m[a]] = u[m[a]]
  BY <1>4, <1>12 DEF Path
<1>14. Path(z, m) /\ Linked(z, m)
  BY <1>3, <1>11, <1>12, <1>13 DEF Path, Linked
<1>15. EntriesOf(z, m) = EntriesOf(c.nodes, m)
  <2>1. \A a \in 1..Len(m) : z[m[a]].key = c.nodes[m[a]].key /\ z[m[a]].val = c.nodes[m[a]].val
    BY <1>3, <1>13 DEF SameEntries
  <2> QED BY <2>1, EntriesKept
<1>16. Mapped(WithoutKey(c.map, n.key), z, SlotsOf(m))
  <2> DEFINE map == WithoutKey(c.map, n.key)
  <2>1. Mapped(c.map, c.nodes, SlotsOf(l)) /\ SlotsOf(l) \subseteq 1..Len(c.nodes)
        /\ \A s \in SlotsOf(l) : c.nodes[s] \in Node
    BY <1>1 DEF Chain, SlotsOf, Path
  <2>2. DOMAIN map = DOMAIN c.map \ {n.key} /\ \A k \in DOMAIN map : map[k] = c.map[k]
    BY DEF WithoutKey
  <2> HIDE DEF map
  <2>3. \A s \in SlotsOf(m) : s \in SlotsOf(l) /\ s # i /\ z[s].key = c.nodes[s].key
    BY <1>3, <1>5, <1>12, <2>1 DEF SameEntries
  <2>4. \A k \in DOMAIN map : map[k] \in SlotsOf(m)
    BY <1>5, <2>1, <2>2 DEF Mapped, n
  <2>5. \A k \in DOMAIN map : z[map[k]].key = k
    BY <2>1, <2>2, <2>3, <2>4 DEF Mapped
  <2>6. ASSUME NEW s \in SlotsOf(m) PROVE z[s].key \in DOMAIN map /\ map[z[s].key] = s
    <3>1. c.nodes[s].key \in DOMAIN c.map /\ c.map[c.nodes[s].key] = s
      BY <2>1, <2>3 DEF Mapped
    <3>2. c.nodes[s].key # n.key
      BY <1>2, <2>3, <3>1
    <3> QED BY <2>2, <2>3, <3>1, <3>2
  <2> QED BY <2>4, <2>5, <2>6 DEF Mapped, map
<1>17. Freed(Append(c.free, i), Len(z), SlotsOf(m))
  <2>1. Freed(c.free, Len(c.nodes), SlotsOf(l)) /\ SlotsOf(l) \subseteq 1..Len(c.nodes)
        /\ Len(c.nodes) \in Nat
    BY <1>1 DEF Chain, SlotsOf, Path
  <2> QED BY <2>1, <1>2, <1>5, <1>12, FreedMore
<1>18. Len(Append(c.free, i)) + Len(m) = Len(z) /\ Append(c.free, i) # <<>>
  <2>1. c.free \in Seq(Nat) /\ Len(c.free) \in Nat /\ i \in Nat
    BY <1>2 DEF Chain, Freed
  <2>2. Len(Append(c.free, i)) = Len(c.free) + 1
    BY <2>1
  <2>3. Len(c.free) + Len(l) = Len(c.nodes)
    BY DEF Chain
  <2>4. Append(c.free, i) # <<>>
    BY <2>1, <2>2
  <2> DEFINE f == Append(c.free, i)
  <2>5. Len(f) = Len(c.free) + 1
    BY <2>2
  <2> HIDE DEF f
  <2>6. Len(f) + Len(m) = Len(z)
    <3>1. Len(m) = Len(l) - 1 /\ Len(z) = Len(c.nodes) /\ Len(l) \in Nat /\ Len(c.free) \in Nat
      BY <2>1, <1>1, <1>6, <1>12
    <3> QED BY <2>3, <2>5, <3>1
  <2> QED BY <2>4, <2>6 DEF f
<1>19. Len(c.nodes) <= Capacity
  BY DEF Chain
<1>20. r.map = WithoutKey(c.map, n.key) /\ r.nodes = z /\ r.free = Append(c.free, i)
       /\ r.head = HeadOf(m) /\ r.tail = TailOf(m)
       /\ r = [map |-> r.map, nodes |-> r.nodes, head |-> r.head, tail |-> r.tail, free |-> r.free]
  BY <1>7, <1>8, <1>9
<1>21. Chain(r, m)
  BY <1>12, <1>14, <1>16, <1>17, <1>18, <1>19, <1>20 DEF Chain
<1>22. DOMAIN r.map = DOMAIN c.map \ {n.key}
  BY <1>20 DEF WithoutKey
<1>23. EntriesOf(r.nodes, m) = Drop(EntriesOf(c.nodes, l), j) /\ r.free # <<>>
  BY <1>10, <1>15, <1>18, <1>20
<1> QED BY <1>21, <1>22, <1>23 DEF r, m, n, i

LEMMA EvictIs ==
    ASSUME NEW c, NEW l, Chain(c, l), Len(l) # 0
    PROVE  /\ Len(l) \in 1..Len(l)
           /\ EvictLru(c) = RemoveAt(c, c.nodes[l[Len(l)]].key, l[Len(l)])
<1> DEFINE i == l[Len(l)]
           n == c.nodes[i]
<1>1. Len(l) \in 1..Len(l)
  BY ChainIs
<1>2. i # Nil /\ n.next = Nil /\ c.tail = i
  BY <1>1, ChainIs DEF NextOf, TailOf
<1>3. Unlinked(c.nodes, i) = SetNext(c.nodes, n.prev, Nil)
  BY <1>2 DEF Unlinked, SetPrev
<1>4. (IF n.prev = Nil THEN n.next ELSE c.head) = (IF n.prev = Nil THEN Nil ELSE c.head)
  BY <1>2
<1> QED BY <1>1, <1>2, <1>3, <1>4 DEF EvictLru, RemoveAt

LEMMA SameOnPath ==
    ASSUME NEW nodes, NEW l, Path(nodes, l), NEW z, SameEntries(nodes, z)
    PROVE  EntriesOf(z, l) = EntriesOf(nodes, l)
<1>1. \A a \in 1..Len(l) : z[l[a]].key = nodes[l[a]].key /\ z[l[a]].val = nodes[l[a]].val
  BY DEF Path, SameEntries
<1> QED BY <1>1, EntriesKept

LEMMA MappedKept ==
    ASSUME NEW nodes, NEW l, Path(nodes, l), NEW z, SameEntries(nodes, z),
           NEW map, Mapped(map, nodes, SlotsOf(l))
    PROVE  Mapped(map, z, SlotsOf(l))
<1>1. \A s \in SlotsOf(l) : z[s].key = nodes[s].key
  BY DEF Path, SameEntries, SlotsOf
<1> QED BY <1>1 DEF Mapped

LEMMA PushDrop ==
    ASSUME NEW S, NEW l \in Seq(S), 1 \in 1..Len(l)
    PROVE  Push(l[1], Drop(l, 1)) = l
<1> DEFINE m == Drop(l, 1)
           p == Push(l[1], m)
<1>1. Len(l) \in Nat /\ l[1] \in S
  OBVIOUS
<1>2. m \in Seq(S) /\ Len(m) = Len(l) - 1
  BY DropSeq
<1>3. \A i \in 1..(Len(l) - 1) : m[i] = IF i < 1 THEN l[i] ELSE l[i + 1]
  BY DropAt
<1> HIDE DEF m
<1>4. p \in Seq(S) /\ Len(p) = Len(m) + 1
  BY <1>1, <1>2, PushSeq
<1>5. p[1] = l[1] /\ \A i \in 2..(Len(m) + 1) : p[i] = m[i - 1]
  BY <1>1, <1>2, PushAt
<1> HIDE DEF p
<1>6. ASSUME NEW i \in 1..Len(l) PROVE p[i] = l[i]
  <2>1. CASE i = 1
    BY <2>1, <1>5
  <2>2. CASE i # 1
    <3>1. i \in 2..(Len(m) + 1) /\ i - 1 \in 1..(Len(l) - 1) /\ ~ (i - 1 < 1) /\ (i - 1) + 1 = i
      BY <2>2, <1>1, <1>2
    <3> QED BY <3>1, <1>3, <1>5
  <2> QED BY <2>1, <2>2
<1>7. Len(p) = Len(l)
  BY <1>1, <1>2, <1>4
<1>8. p = l
  BY <1>4, <1>6, <1>7
<1> QED BY <1>8 DEF p, m

LEMMA FrontIs ==
    ASSUME NEW c, NEW l, Chain(c, l), NEW j \in 1..Len(l)
    PROVE  LET f == MoveToFront(c, l[j])
               k == Push(l[j], Drop(l, j))
               E == EntriesOf(c.nodes, l)
           IN Chain(f, k) /\ EntriesOf(f.nodes, k) = Push(E[j], Drop(E, j))
<1> DEFINE i == l[j]
           n == c.nodes[i]
           u == Unlinked(c.nodes, i)
           w == SetPrev(u, i, Nil)
           p == SetNext(w, i, c.head)
           z == SetPrev(p, c.head, i)
           m == Drop(l, j)
           k == Push(i, m)
           E == EntriesOf(c.nodes, l)
           f == MoveToFront(c, i)
<1>1. c.nodes \in Seq(Slot) /\ l \in Seq(Nat) /\ Len(l) \in Nat
      /\ Path(c.nodes, l) /\ Linked(c.nodes, l) /\ c.head = HeadOf(l) /\ c.tail = TailOf(l)
  BY ChainIs
<1>2. \A a \in 1..Len(l) : l[a] # Nil
  BY ChainIs
<1>3. i \in 1..Len(c.nodes) /\ i \in Nat /\ i # Nil /\ i \in SlotsOf(l) /\ n \in Node
      /\ n.prev = PrevOf(l, j)
  BY ChainIs, <1>1
<1>4. \A a, b \in 1..Len(l) : l[a] = l[b] => a = b
  BY <1>1 DEF Path
<1>5. 1 \in 1..Len(l) /\ Len(l) \in 1..Len(l) /\ c.head = l[1] /\ c.tail = l[Len(l)]
      /\ c.head \in Nat
  BY <1>1 DEF HeadOf, TailOf
<1>6. CASE j = 1
  <2>1. f = c
    BY <1>5, <1>6 DEF MoveToFront
  <2>2. k = l
    BY <1>1, <1>5, <1>6, PushDrop
  <2>3. Len(E) = Len(l) /\ E \in Seq({[key |-> c.nodes[l[a]].key, val |-> c.nodes[l[a]].val] : a \in 1..Len(l)})
    BY <1>1, EntriesLen
  <2>4. Push(E[1], Drop(E, 1)) = E
    <3> HIDE DEF E
    <3> QED BY <2>3, <1>5, PushDrop
  <2> QED BY <2>1, <2>2, <2>4, <1>6
<1>7. CASE j # 1
  <2>1. c.head # i /\ (c.tail = i <=> j = Len(l))
    BY <1>4, <1>5, <1>7
  <2>2. f = [map |-> c.map, nodes |-> z, head |-> i,
             tail |-> IF (IF c.tail = i THEN n.prev ELSE c.tail) = Nil THEN i
                      ELSE IF c.tail = i THEN n.prev ELSE c.tail, free |-> c.free]
    <3>1. p = [u EXCEPT ![i].prev = Nil, ![i].next = c.head]
      BY <1>3 DEF SetPrev, SetNext
    <3> HIDE DEF p, u, i
    <3> QED BY <2>1, <3>1 DEF MoveToFront, u
  <2>3. SameEntries(c.nodes, u) /\ Linked(u, m)
    BY <1>1, UnlinkedIs
  <2>4. Path(c.nodes, m) /\ \A a \in 1..Len(m) : m[a] # i
    BY <1>1, PathDrop
  <2>5. m \in Seq(Nat) /\ Len(m) = Len(l) - 1
    BY <1>1, DropSeq
  <2>6. HeadOf(m) = c.head /\ TailOf(m) = IF j = Len(l) THEN n.prev ELSE c.tail
    BY <1>1, <1>3, <1>7, EndsDrop
  <2>7. SlotsOf(m) = SlotsOf(l) \ {i}
    BY <1>1, SlotsDrop
  <2>8. EntriesOf(c.nodes, k) = Push([key |-> n.key, val |-> n.val], EntriesOf(c.nodes, m))
    BY <1>3, <2>5, EntriesPush
  <2>9. EntriesOf(c.nodes, m) = Drop(E, j)
    BY <1>1, EntriesDrop
  <2>10. E[j] = [key |-> n.key, val |-> n.val]
    BY <1>1, EntriesLen
  <2>11. k \in Seq(Nat) /\ Len(k) = Len(m) + 1
    BY <1>3, <2>5, PushSeq
  <2>12. SlotsOf(k) = SlotsOf(m) \cup {i}
    BY <2>5, <2>11, SlotsPush
  <2>13. HeadOf(k) = i /\ TailOf(k) = IF Len(m) = 0 THEN i ELSE TailOf(m)
    BY <1>3, <2>5, EndsPush
  <2>14. u \in Seq(Slot) /\ Path(u, m) /\ i \in 1..Len(u) /\ u[i] \in Node
    BY <1>1, <1>3, <2>3, <2>4, PathKept DEF SameEntries
  <2> HIDE DEF m, u, E, k, f, i
  <2>15. SameEntries(u, w) /\ w[i].prev = Nil /\ \A s \in 1..Len(u) : s # i => w[s] = u[s]
    BY <2>14, PointerSet DEF Nil
  <2>16. w \in Seq(Slot) /\ i \in 1..Len(w) /\ w[i] \in Node /\ Len(w) = Len(u)
    BY <2>14, <2>15 DEF SameEntries
  <2> HIDE DEF w
  <2>17. SameEntries(w, p) /\ p[i].prev = Nil /\ p[i].next = c.head
         /\ \A s \in 1..Len(w) : s # i => p[s] = w[s]
    BY <1>5, <2>15, <2>16, PointerSet
  <2>18. p \in Seq(Slot) /\ i \in 1..Len(p) /\ p[i] \in Node
    BY <2>16, <2>17 DEF SameEntries
  <2> HIDE DEF p
  <2>19. Path(p, m)
    <3>1. Path(w, m)
      BY <2>14, <2>15, PathKept
    <3> QED BY <3>1, <2>16, <2>17, PathKept
  <2>20. Linked(p, m)
    <3>1. \A a \in 1..Len(m) : m[a] \in 1..Len(u) /\ m[a] # i
      BY <2>4, <2>14 DEF Path
    <3>2. \A a \in 1..Len(m) : p[m[a]] = u[m[a]]
      BY <3>1, <2>15, <2>16, <2>17
    <3> QED BY <3>2, <2>3, LinkedElsewhere
  <2>21. SameEntries(p, z) /\ Linked(z, k)
    BY <2>4, <2>6, <2>17, <2>18, <2>19, <2>20, FrontLinked DEF k
  <2> HIDE DEF z
  <2>22. SameEntries(c.nodes, z)
    <3>1. SameEntries(c.nodes, w)
      BY <1>1, <2>3, <2>15, SameTrans
    <3>2. SameEntries(c.nodes, p)
      BY <1>1, <3>1, <2>17, SameTrans
    <3> QED BY <1>1, <3>2, <2>21, SameTrans
  <2>23. Path(c.nodes, k)
    BY <1>1, <1>3, <2>4, PathPush DEF k
  <2>24. Path(z, k)
    BY <1>1, <2>22, <2>23, PathKept
  <2>25. SlotsOf(k) = SlotsOf(l) /\ Len(k) = Len(l)
    BY <1>1, <1>3, <2>5, <2>7, <2>11, <2>12
  <2>26. Mapped(c.map, z, SlotsOf(k))
    <3>1. Mapped(c.map, c.nodes, SlotsOf(k))
      BY <2>25 DEF Chain
    <3> QED BY <3>1, <2>22, <2>23, MappedKept
  <2>27. EntriesOf(z, k) = Push(E[j], Drop(E, j))
    <3>1. EntriesOf(z, k) = EntriesOf(c.nodes, k)
      BY <2>22, <2>23, SameOnPath
    <3> QED BY <3>1, <2>8, <2>9, <2>10
  <2>28. z \in Seq(Slot) /\ Len(z) = Len(c.nodes)
    BY <2>22 DEF SameEntries
  <2>29. f.head = HeadOf(k) /\ f.tail = TailOf(k) /\ f.map = c.map /\ f.nodes = z /\ f.free = c.free
         /\ f = [map |-> f.map, nodes |-> f.nodes, head |-> f.head, tail |-> f.tail, free |-> f.free]
    <3>1. Len(m) # 0 /\ j - 1 \in 1..Len(l) /\ n.prev = l[j - 1]
      <4>1. j # 1 /\ j \in 1..Len(l) /\ Len(l) \in Nat /\ Len(m) = Len(l) - 1
        BY <1>1, <1>3, <1>7, <2>5
      <4>2. n.prev = PrevOf(l, j)
        BY <1>3
      <4> QED BY <4>1, <4>2 DEF PrevOf
    <3>2. TailOf(k) = (IF c.tail = i THEN n.prev ELSE c.tail) /\ TailOf(k) # Nil
      BY <3>1, <1>2, <1>5, <2>1, <2>6, <2>13
    <3> QED BY <3>2, <2>2, <2>13
  <2>30. Freed(f.free, Len(f.nodes), SlotsOf(k)) /\ Len(f.free) + Len(k) = Len(f.nodes)
         /\ Len(f.nodes) <= Capacity
    BY <2>25, <2>28, <2>29 DEF Chain
  <2>31. Chain(f, k)
    BY <2>21, <2>24, <2>26, <2>28, <2>29, <2>30 DEF Chain
  <2> QED BY <2>27, <2>29, <2>31 DEF f, k, m, E, i
<1> QED BY <1>6, <1>7

\* The slot a new node gets.
LEMMA SlotIs ==
    ASSUME NEW c, NEW l, Chain(c, l), c.free # <<>> \/ Len(c.nodes) < Capacity
    PROVE  LET s == WithSlot(c) IN
           /\ s.nodes \in Seq(Slot) /\ Len(s.nodes) <= Capacity /\ Len(c.nodes) <= Len(s.nodes)
           /\ \A a \in 1..Len(c.nodes) : s.nodes[a] = c.nodes[a]
           /\ s.slot \in 1..Len(s.nodes) /\ s.slot \notin SlotsOf(l)
           /\ Freed(s.free, Len(s.nodes), SlotsOf(l) \cup {s.slot})
           /\ Len(s.free) + Len(l) + 1 = Len(s.nodes)
<1> DEFINE s == WithSlot(c)
           n == Len(c.free)
<1>1. c.nodes \in Seq(Slot) /\ Len(c.nodes) \in Nat /\ Len(c.nodes) <= Capacity
      /\ l \in Seq(Nat) /\ Len(l) \in Nat
      /\ (\A a \in 1..Len(l) : l[a] \in 1..Len(c.nodes))
      /\ Len(c.free) + Len(l) = Len(c.nodes)
  BY DEF Chain, Path
<1>2. c.free \in Seq(Nat) /\ n \in Nat
      /\ (\A a, b \in 1..n : c.free[a] = c.free[b] => a = b)
      /\ SlotsOf(c.free) = (1..Len(c.nodes)) \ SlotsOf(l)
  BY DEF Chain, Freed
<1>3. (\A a \in 1..n : c.free[a] \in (1..Len(c.nodes)) \ SlotsOf(l))
      /\ \A x \in (1..Len(c.nodes)) \ SlotsOf(l) : \E a \in 1..n : c.free[a] = x
  BY <1>2 DEF SlotsOf
<1>4. CASE c.free # <<>>
  <2> DEFINE x == c.free[n]
             g == SubSeq(c.free, 1, n - 1)
  <2>1. s = [slot |-> x, nodes |-> c.nodes, free |-> g]
    BY <1>4 DEF WithSlot
  <2>2. n # 0 /\ n \in 1..n
    BY <1>2, <1>4
  <2>3. g \in Seq(Nat) /\ Len(g) = n - 1 /\ \A a \in 1..(n - 1) : g[a] = c.free[a]
    BY <1>2, <2>2
  <2>4. x \in 1..Len(c.nodes) /\ x \notin SlotsOf(l)
    BY <1>3, <2>2
  <2> HIDE DEF g, x, s
  <2>5. \A a \in 1..(n - 1) : a \in 1..n /\ a # n
    BY <1>2
  <2>6. \A a, b \in 1..Len(g) : g[a] = g[b] => a = b
    BY <1>2, <2>3, <2>5
  <2>7. ASSUME NEW a \in 1..Len(g) PROVE g[a] \in (1..Len(c.nodes)) \ (SlotsOf(l) \cup {x})
    <3>1. a \in 1..(n - 1) /\ a \in 1..n /\ g[a] = c.free[a] /\ a # n
      BY <2>3, <2>5
    <3>2. g[a] # x
      BY <3>1, <2>2, <1>2 DEF x
    <3> QED BY <3>1, <3>2, <1>3
  <2>8. ASSUME NEW y \in (1..Len(c.nodes)) \ (SlotsOf(l) \cup {x}) PROVE \E a \in 1..Len(g) : g[a] = y
    <3>1. PICK a \in 1..n : c.free[a] = y
      BY <1>3
    <3>2. a # n
      BY <3>1 DEF x
    <3>3. a \in 1..(n - 1) /\ a \in 1..Len(g)
      BY <3>2, <1>2, <2>3
    <3> QED BY <3>1, <3>3, <2>3
  <2>9. SlotsOf(g) = (1..Len(c.nodes)) \ (SlotsOf(l) \cup {x})
    BY <2>7, <2>8 DEF SlotsOf
  <2>10. Freed(g, Len(c.nodes), SlotsOf(l) \cup {x})
    BY <2>3, <2>6, <2>9 DEF Freed
  <2>11. Len(g) + Len(l) + 1 = Len(c.nodes)
    BY <1>1, <1>2, <2>3
  <2> QED BY <1>1, <2>1, <2>4, <2>10, <2>11 DEF s
<1>5. CASE c.free = <<>>
  <2> DEFINE x == Len(c.nodes) + 1
             z == Append(c.nodes, NoNode)
  <2>1. s = [slot |-> x, nodes |-> z, free |-> c.free]
    BY <1>5 DEF WithSlot
  <2>2. z \in Seq(Slot) /\ Len(z) = x /\ \A a \in 1..Len(c.nodes) : z[a] = c.nodes[a]
    BY <1>1 DEF Slot
  <2>3. n = 0 /\ SlotsOf(c.free) = {}
    BY <1>5 DEF SlotsOf
  <2>4. Len(c.nodes) < Capacity /\ Capacity \in Nat
    BY <1>5, CapacityAssumption
  <2>5. x \in Nat /\ x <= Capacity /\ Len(c.nodes) <= x /\ x \in 1..x
    BY <1>1, <2>4
  <2>6. \A y \in SlotsOf(l) : y \in 1..Len(c.nodes)
    BY <1>1 DEF SlotsOf
  <2>7. x \notin SlotsOf(l)
    BY <1>1, <2>6
  <2>8. (1..x) \ (SlotsOf(l) \cup {x}) = {}
    <3>1. \A y \in 1..x : y = x \/ y \in 1..Len(c.nodes)
      BY <1>1
    <3>2. (1..Len(c.nodes)) \ SlotsOf(l) = {}
      BY <1>2, <2>3
    <3> QED BY <3>1, <3>2
  <2>9. Freed(c.free, x, SlotsOf(l) \cup {x})
    BY <1>2, <2>3, <2>8 DEF Freed
  <2>10. n + Len(l) + 1 = x
    BY <1>1, <1>2
  <2> HIDE DEF x, z, s
  <2> QED BY <2>1, <2>2, <2>5, <2>7, <2>9, <2>10 DEF s
<1> QED BY <1>4, <1>5

LEMMA InsertIs ==
    ASSUME NEW c, NEW l, Chain(c, l), c.free # <<>> \/ Len(c.nodes) < Capacity,
           NEW k \in CacheKey, k \notin DOMAIN c.map, NEW v \in CacheVal
    PROVE  LET f == InsertNew(c, k, v) IN
           \E m : /\ Chain(f, m)
                  /\ EntriesOf(f.nodes, m) = Push([key |-> k, val |-> v], EntriesOf(c.nodes, l))
<1> DEFINE s == WithSlot(c)
           x == s.slot
           node == NodeOf(k, v, Nil, c.head)
           p == [s.nodes EXCEPT ![x] = node]
           z == SetPrev(p, c.head, x)
           m == Push(x, l)
           f == InsertNew(c, k, v)
           map == [y \in DOMAIN c.map \cup {k} |-> IF y = k THEN x ELSE c.map[y]]
<1>1. c.nodes \in Seq(Slot) /\ Len(c.nodes) \in Nat /\ l \in Seq(Nat) /\ Len(l) \in Nat
      /\ Path(c.nodes, l) /\ Linked(c.nodes, l) /\ c.head = HeadOf(l) /\ c.tail = TailOf(l)
  BY ChainIs
<1>2. \A a \in 1..Len(l) : l[a] \in 1..Len(c.nodes) /\ l[a] \in SlotsOf(l) /\ l[a] # Nil
                           /\ l[a] \in Nat /\ c.nodes[l[a]] \in Node
  BY <1>1, ChainIs
<1>3. f = [map |-> map, nodes |-> z, head |-> x,
           tail |-> IF c.tail = Nil THEN x ELSE c.tail, free |-> s.free]
  BY DEF InsertNew
<1>4. /\ s.nodes \in Seq(Slot) /\ Len(s.nodes) <= Capacity /\ Len(c.nodes) <= Len(s.nodes)
      /\ \A a \in 1..Len(c.nodes) : s.nodes[a] = c.nodes[a]
      /\ x \in 1..Len(s.nodes) /\ x \notin SlotsOf(l)
      /\ Freed(s.free, Len(s.nodes), SlotsOf(l) \cup {x})
      /\ Len(s.free) + Len(l) + 1 = Len(s.nodes)
  BY SlotIs
<1>5. c.head \in Nat /\ c.tail \in Nat /\ (c.tail = Nil <=> Len(l) = 0)
  BY <1>1, <1>2 DEF HeadOf, TailOf, Nil
<1>6. node \in Node /\ node.prev = Nil /\ node.next = c.head /\ node.key = k /\ node.val = v
  BY <1>5 DEF Node, NodeOf, Nil
<1>7. (\A y \in DOMAIN c.map : c.map[y] \in SlotsOf(l) /\ c.nodes[c.map[y]].key = y)
      /\ \A y \in SlotsOf(l) : c.nodes[y].key \in DOMAIN c.map /\ c.map[c.nodes[y].key] = y
  BY DEF Chain, Mapped
<1> HIDE DEF s, node, f
<1>8. p \in Seq(Slot) /\ Len(p) = Len(s.nodes) /\ p[x] = node
      /\ \A a \in 1..Len(s.nodes) : a # x => p[a] = s.nodes[a]
  BY <1>4, <1>6 DEF Slot
<1> HIDE DEF p
<1>9. \A a \in 1..Len(l) : l[a] \in 1..Len(p) /\ l[a] # x /\ p[l[a]] = c.nodes[l[a]]
  <2> TAKE a \in 1..Len(l)
  <2>1. l[a] \in 1..Len(s.nodes) /\ l[a] # x
    BY <1>1, <1>2, <1>4
  <2> QED BY <2>1, <1>2, <1>4, <1>8
<1>10. Path(p, l) /\ Linked(p, l)
  <2>1. \A a \in 1..Len(l) : p[l[a]] \in Node
    BY <1>2, <1>9
  <2> QED BY <2>1, <1>1, <1>9 DEF Path, Linked
<1>11. x \in 1..Len(p) /\ p[x] \in Node /\ p[x].prev = Nil /\ p[x].next = HeadOf(l) /\ x \in Nat
       /\ x # Nil
  BY <1>1, <1>4, <1>6, <1>8 DEF Nil
<1> HIDE DEF x
<1>12. SameEntries(p, z) /\ Linked(z, m)
  BY <1>1, <1>8, <1>9, <1>10, <1>11, FrontLinked
<1>13. Path(p, m)
  BY <1>8, <1>9, <1>10, <1>11, PathPush
<1>14. m \in Seq(Nat) /\ Len(m) = Len(l) + 1
  BY <1>1, <1>11, PushSeq
<1>15. SlotsOf(m) = SlotsOf(l) \cup {x}
  BY <1>1, <1>14, SlotsPush
<1>16. HeadOf(m) = x /\ TailOf(m) = IF Len(l) = 0 THEN x ELSE TailOf(l)
  BY <1>1, <1>11, EndsPush
<1>17. EntriesOf(p, m) = Push([key |-> k, val |-> v], EntriesOf(c.nodes, l))
  <2>1. EntriesOf(p, m) = Push([key |-> p[x].key, val |-> p[x].val], EntriesOf(p, l))
    BY <1>1, <1>11, EntriesPush
  <2>2. EntriesOf(p, l) = EntriesOf(c.nodes, l)
    BY <1>9, EntriesKept
  <2> QED BY <2>1, <2>2, <1>6, <1>8
<1> HIDE DEF z, m
<1>18. Path(z, m) /\ EntriesOf(z, m) = EntriesOf(p, m) /\ z \in Seq(Slot) /\ Len(z) = Len(p)
  BY <1>8, <1>12, <1>13, PathKept, SameOnPath DEF SameEntries
<1>19. Mapped(map, p, SlotsOf(m))
  <2>1. DOMAIN map = DOMAIN c.map \cup {k} /\ map[k] = x
        /\ \A y \in DOMAIN c.map : map[y] = c.map[y]
    BY DEF map
  <2> HIDE DEF map
  <2>2. \A y \in SlotsOf(l) : p[y] = c.nodes[y]
    BY <1>9 DEF SlotsOf
  <2>3. p[x].key = k
    BY <1>6, <1>8
  <2>4. \A y \in DOMAIN map : map[y] \in SlotsOf(m) /\ p[map[y]].key = y
    BY <2>1, <2>2, <2>3, <1>7, <1>15
  <2>5. \A y \in SlotsOf(m) : p[y].key \in DOMAIN map /\ map[p[y].key] = y
    BY <2>1, <2>2, <2>3, <1>7, <1>15
  <2> QED BY <2>4, <2>5 DEF Mapped
<1>20. Mapped(map, z, SlotsOf(m))
  BY <1>12, <1>13, <1>19, MappedKept
<1> HIDE DEF map
<1>21. f.head = HeadOf(m) /\ f.tail = TailOf(m) /\ f.map = map /\ f.nodes = z /\ f.free = s.free
       /\ f = [map |-> f.map, nodes |-> f.nodes, head |-> f.head, tail |-> f.tail, free |-> f.free]
  BY <1>1, <1>3, <1>5, <1>16
<1>22. Freed(f.free, Len(f.nodes), SlotsOf(m)) /\ Len(f.nodes) <= Capacity
  BY <1>4, <1>8, <1>15, <1>18, <1>21
<1>23. Len(f.free) + Len(m) = Len(f.nodes)
  <2>1. s.free \in Seq(Nat) /\ Len(s.free) \in Nat
    BY <1>4 DEF Freed
  <2>2. Len(f.nodes) = Len(s.nodes) /\ Len(f.free) = Len(s.free)
    BY <1>8, <1>18, <1>21
  <2>3. Len(m) = Len(l) + 1 /\ Len(l) \in Nat /\ Len(s.free) + Len(l) + 1 = Len(s.nodes)
    BY <1>1, <1>4, <1>14
  <2> DEFINE a == Len(s.free)
             b == Len(s.nodes)
  <2>4. a \in Nat /\ a + Len(l) + 1 = b
    BY <2>1, <2>3
  <2> HIDE DEF a, b
  <2>5. a + Len(m) = b
    BY <2>3, <2>4
  <2> QED BY <2>2, <2>5 DEF a, b
<1>24. Chain(f, m)
  BY <1>12, <1>18, <1>20, <1>21, <1>22, <1>23 DEF Chain
<1> QED BY <1>17, <1>18, <1>21, <1>24 DEF f

----------------------------------------------------------------------------
(* Following the pointers from the head gives the path. *)

\* One step of the way, from the slot before.
Way(c, f) ==
    f = [n \in Nat |-> IF n = 0 THEN c.head ELSE IF f[n - 1] = Nil THEN Nil ELSE c.nodes[f[n - 1]].next]

LEMMA WayIs ==
    ASSUME NEW c, NEW l, Chain(c, l), NEW f, Way(c, f), NEW n \in Nat
    PROVE  f[n] = IF n < Len(l) THEN l[n + 1] ELSE Nil
<1> DEFINE g(i) == IF i < Len(l) THEN l[i + 1] ELSE Nil
           S == {i \in Nat : f[i] = g(i)}
<1>1. Len(l) \in Nat /\ c.head = HeadOf(l)
      /\ \A a \in 1..Len(l) : l[a] # Nil /\ c.nodes[l[a]].next = NextOf(l, a)
  BY ChainIs
<1>2. \A i \in Nat : f[i] = IF i = 0 THEN c.head
                            ELSE IF f[i - 1] = Nil THEN Nil ELSE c.nodes[f[i - 1]].next
  BY DEF Way
<1>3. 0 \in S
  <2>1. f[0] = HeadOf(l)
    BY <1>1, <1>2
  <2>2. g(0) = HeadOf(l)
    BY <1>1 DEF HeadOf
  <2> QED BY <2>1, <2>2
<1>4. ASSUME NEW i \in Nat, i \in S PROVE i + 1 \in S
  <2>1. f[i + 1] = IF f[i] = Nil THEN Nil ELSE c.nodes[f[i]].next
    <3>1. i + 1 \in Nat /\ i + 1 # 0 /\ (i + 1) - 1 = i
      OBVIOUS
    <3> QED BY <3>1, <1>2
  <2>2. CASE i < Len(l)
    <3>1. i + 1 \in 1..Len(l) /\ (i + 1 < Len(l) <=> i + 1 # Len(l))
      BY <2>2, <1>1
    <3>2. f[i + 1] = NextOf(l, i + 1)
      BY <1>1, <1>4, <2>1, <2>2, <3>1
    <3> QED BY <3>1, <3>2 DEF NextOf
  <2>3. CASE ~ (i < Len(l))
    <3>1. ~ (i + 1 < Len(l))
      BY <2>3, <1>1
    <3> QED BY <3>1, <2>1, <2>3, <1>4
  <2> QED BY <2>2, <2>3
<1>5. Nat \subseteq S
  <2> HIDE DEF S
  <2> QED BY <1>3, <1>4, SetInduction
<1> QED BY <1>5

LEMMA WayExists ==
    ASSUME NEW c, NEW l, Chain(c, l) PROVE \E f : Way(c, f)
<1> DEFINE f == [n \in Nat |-> IF n < Len(l) THEN l[n + 1] ELSE Nil]
<1>1. Len(l) \in Nat /\ c.head = HeadOf(l)
      /\ \A a \in 1..Len(l) : l[a] # Nil /\ c.nodes[l[a]].next = NextOf(l, a)
  BY ChainIs
<1>2. \A n \in Nat : f[n] = IF n < Len(l) THEN l[n + 1] ELSE Nil
  OBVIOUS
<1>3. f = [n \in Nat |-> f[n]]
  OBVIOUS
<1> HIDE DEF f
<1>4. ASSUME NEW n \in Nat
      PROVE  f[n] = IF n = 0 THEN c.head
                    ELSE IF f[n - 1] = Nil THEN Nil ELSE c.nodes[f[n - 1]].next
  <2>1. CASE n = 0
    BY <2>1, <1>1, <1>2 DEF HeadOf
  <2>2. CASE n # 0
    <3>1. n - 1 \in Nat /\ (n - 1) + 1 = n
      BY <2>2
    <3>2. CASE n - 1 < Len(l)
      <4>1. n \in 1..Len(l) /\ f[n - 1] = l[n]
        BY <2>2, <3>1, <3>2, <1>1, <1>2
      <4>2. NextOf(l, n) = f[n]
        BY <4>1, <1>1, <1>2 DEF NextOf
      <4> QED BY <2>2, <4>1, <4>2, <1>1
    <3>3. CASE ~ (n - 1 < Len(l))
      <4>1. f[n - 1] = Nil /\ ~ (n < Len(l))
        BY <3>1, <3>3, <1>1, <1>2
      <4> QED BY <2>2, <4>1, <1>2
    <3> QED BY <3>2, <3>3
  <2> QED BY <2>1, <2>2
<1>5. Way(c, f)
  BY <1>3, <1>4 DEF Way
<1> QED BY <1>5

LEMMA ListIs ==
    ASSUME NEW c, NEW l, Chain(c, l) PROVE ListOf(c) = l
<1> DEFINE f == CHOOSE f : Way(c, f)
           steps == {n \in 0..(Len(c.nodes) - 1) : f[n] # Nil}
<1>1. Way(c, f)
  BY WayExists
<1>2. ListOf(c) = [i \in 1..Cardinality(steps) |-> f[i - 1]]
  BY DEF ListOf, Way
<1> HIDE DEF f
<1>3. l \in Seq(Nat) /\ Len(l) \in Nat /\ Len(c.nodes) \in Nat /\ Len(l) <= Len(c.nodes)
      /\ \A a \in 1..Len(l) : l[a] # Nil
  <2>1. c.nodes \in Seq(Slot) /\ l \in Seq(Nat) /\ \A a \in 1..Len(l) : l[a] # Nil
    BY ChainIs
  <2>2. c.free \in Seq(Nat) /\ Len(c.free) + Len(l) = Len(c.nodes)
    BY DEF Chain, Freed
  <2> QED BY <2>1, <2>2
<1>4. \A n \in Nat : f[n] = IF n < Len(l) THEN l[n + 1] ELSE Nil
  BY <1>1, WayIs
<1>5. steps = 0..(Len(l) - 1)
  <2>1. ASSUME NEW n \in 0..(Len(c.nodes) - 1) PROVE f[n] # Nil <=> n \in 0..(Len(l) - 1)
    <3>1. n \in Nat /\ (n < Len(l) => n + 1 \in 1..Len(l))
      BY <1>3
    <3>2. n < Len(l) <=> n \in 0..(Len(l) - 1)
      BY <3>1, <1>3
    <3>3. n < Len(l) => l[n + 1] # Nil
      BY <3>1, <1>3
    <3>4. f[n] = IF n < Len(l) THEN l[n + 1] ELSE Nil
      BY <3>1, <1>4
    <3> HIDE DEF steps
    <3> QED BY <3>2, <3>3, <3>4, Zenon
  <2>2. 0..(Len(l) - 1) \subseteq 0..(Len(c.nodes) - 1)
    BY <1>3
  <2> QED BY <2>1, <2>2
<1>6. Cardinality(0..(Len(l) - 1)) = Len(l)
  <2> DEFINE b == Len(l) - 1
  <2>1. b \in Int /\ 0 \in Int /\ (0 > b <=> Len(l) = 0) /\ (b - 0) + 1 = Len(l)
    BY <1>3
  <2> HIDE DEF b
  <2>2. Cardinality(0..b) = IF 0 > b THEN 0 ELSE (b - 0) + 1
    BY <2>1, FS_Interval
  <2> QED BY <2>1, <2>2 DEF b
<1>7. \A i \in 1..Len(l) : f[i - 1] = l[i]
  BY <1>3, <1>4
<1>8. ListOf(c) = [i \in 1..Len(l) |-> l[i]]
  BY <1>2, <1>5, <1>6, <1>7
<1> QED BY <1>3, <1>8

----------------------------------------------------------------------------
(* Counting. *)

LEMMA OneForOne ==
    ASSUME NEW S, NEW n \in Nat, NEW f \in [1..n -> S],
           \A i, j \in 1..n : f[i] = f[j] => i = j,
           \A s \in S : \E i \in 1..n : f[i] = s
    PROVE  Cardinality(S) = n
<1>1. f \in Bijection(1..n, S)
  BY DEF Bijection, Injection, Surjection, IsInjective
<1> QED BY <1>1, FS_CountingElements DEF ExistsBijection

\* The place of a key.
LEMMA Find ==
    ASSUME NEW c, NEW l, Chain(c, l), NEW k \in DOMAIN c.map
    PROVE  \E j \in 1..Len(l) :
             /\ l[j] = c.map[k] /\ c.nodes[l[j]].key = k
             /\ \A i \in 1..Len(l) : c.nodes[l[i]].key = k => i = j
<1>1. (\A a, b \in 1..Len(l) : l[a] = l[b] => a = b)
      /\ \A a \in 1..Len(l) : c.map[c.nodes[l[a]].key] = l[a]
  <2>1. Path(c.nodes, l)
    BY ChainIs
  <2>2. \A a \in 1..Len(l) : c.map[c.nodes[l[a]].key] = l[a]
    BY ChainIs
  <2> QED BY <2>1, <2>2 DEF Path
<1>2. c.map[k] \in SlotsOf(l) /\ c.nodes[c.map[k]].key = k
  BY ChainIs
<1>3. PICK j \in 1..Len(l) : l[j] = c.map[k]
  BY <1>2 DEF SlotsOf
<1> QED BY <1>1, <1>2, <1>3

LEMMA Counts ==
    ASSUME NEW c, NEW l, Chain(c, l)
    PROVE  Cardinality(DOMAIN c.map) = Len(l) /\ Cardinality(SlotsOf(l)) = Len(l)
<1>1. Len(l) \in Nat /\ (\A a, b \in 1..Len(l) : l[a] = l[b] => a = b)
      /\ \A a \in 1..Len(l) : c.nodes[l[a]].key \in DOMAIN c.map /\ c.map[c.nodes[l[a]].key] = l[a]
  BY ChainIs DEF Path
<1>2. \A k \in DOMAIN c.map : \E a \in 1..Len(l) : c.nodes[l[a]].key = k
  BY Find
<1> DEFINE f == [a \in 1..Len(l) |-> c.nodes[l[a]].key]
           g == [a \in 1..Len(l) |-> l[a]]
<1>3. (\A a \in 1..Len(l) : f[a] = c.nodes[l[a]].key /\ g[a] = l[a])
      /\ f \in [1..Len(l) -> DOMAIN c.map] /\ g \in [1..Len(l) -> SlotsOf(l)]
  BY <1>1 DEF SlotsOf
<1> HIDE DEF f, g
<1>4. Cardinality(DOMAIN c.map) = Len(l)
  <2>1. \A a, b \in 1..Len(l) : f[a] = f[b] => a = b
    BY <1>1, <1>3
  <2>2. \A k \in DOMAIN c.map : \E a \in 1..Len(l) : f[a] = k
    BY <1>2, <1>3
  <2>3. Len(l) \in Nat /\ f \in [1..Len(l) -> DOMAIN c.map]
    BY <1>1, <1>3
  <2> QED BY <2>1, <2>2, <2>3, OneForOne
<1>5. Cardinality(SlotsOf(l)) = Len(l)
  <2>1. \A a, b \in 1..Len(l) : g[a] = g[b] => a = b
    BY <1>1, <1>3
  <2>2. \A s \in SlotsOf(l) : \E a \in 1..Len(l) : g[a] = s
    BY <1>3 DEF SlotsOf
  <2>3. Len(l) \in Nat /\ g \in [1..Len(l) -> SlotsOf(l)]
    BY <1>1, <1>3
  <2> QED BY <2>1, <2>2, <2>3, OneForOne
<1> QED BY <1>4, <1>5

----------------------------------------------------------------------------
(* The calls. *)

\* Lists that differ only in what is taken out.
LEMMA DropSame ==
    ASSUME NEW E, NEW G, Len(E) \in Nat, Len(G) = Len(E), NEW j \in 1..Len(E),
           \A a \in 1..Len(E) : a # j => G[a] = E[a]
    PROVE  Drop(G, j) = Drop(E, j)
<1>1. \A i \in 1..(Len(E) - 1) : (IF i < j THEN G[i] ELSE G[i + 1]) = IF i < j THEN E[i] ELSE E[i + 1]
  OBVIOUS
<1> QED BY <1>1 DEF Drop

\* The cache c with the entry of slot i overwritten where it is.
Overwritten(c, i, v) == [c EXCEPT !.nodes[i].val = v]

\* Two lists that differ at most in their j-th element.
AgreeBut(E, G, j) == Drop(E, j) = Drop(G, j)

LEMMA OverwriteIs ==
    ASSUME NEW c, NEW l, Chain(c, l), NEW j \in 1..Len(l), NEW v \in CacheVal
    PROVE  LET E == EntriesOf(c.nodes, l)
               G == EntriesOf(Overwritten(c, l[j], v).nodes, l)
           IN /\ Chain(Overwritten(c, l[j], v), l)
              /\ G[j] = [key |-> c.nodes[l[j]].key, val |-> v]
              /\ AgreeBut(E, G, j)
<1> DEFINE i == l[j]
           f == Overwritten(c, i, v)
           n == [c.nodes[i] EXCEPT !.val = v]
           z == [c.nodes EXCEPT ![i] = n]
           E == EntriesOf(c.nodes, l)
           G == EntriesOf(z, l)
<1>1. c.nodes \in Seq(Slot) /\ l \in Seq(Nat) /\ Len(l) \in Nat
      /\ Path(c.nodes, l) /\ Linked(c.nodes, l)
      /\ i \in 1..Len(c.nodes) /\ c.nodes[i] \in Node
      /\ \A a \in 1..Len(l) : l[a] \in 1..Len(c.nodes) /\ c.nodes[l[a]] \in Node
  BY ChainIs
<1>2. n \in Node /\ n.key = c.nodes[i].key /\ n.val = v
      /\ n.prev = c.nodes[i].prev /\ n.next = c.nodes[i].next
  BY <1>1 DEF Node
<1>3. f = [map |-> c.map, nodes |-> z, head |-> c.head, tail |-> c.tail, free |-> c.free]
  <2>1. c = [map |-> c.map, nodes |-> c.nodes, head |-> c.head, tail |-> c.tail, free |-> c.free]
    BY DEF Chain
  <2>2. f = [c EXCEPT !.nodes = z]
    BY DEF Overwritten
  <2> HIDE DEF z
  <2> QED BY <2>1, <2>2
<1> HIDE DEF n
<1> HIDE DEF f
<1>4. z \in Seq(Slot) /\ Len(z) = Len(c.nodes) /\ z[i] = n
      /\ \A s \in 1..Len(c.nodes) : s # i => z[s] = c.nodes[s]
  BY <1>1, <1>2 DEF Slot
<1> HIDE DEF z
<1>5. \A a \in 1..Len(l) : /\ z[l[a]] \in Node /\ z[l[a]].key = c.nodes[l[a]].key
                           /\ z[l[a]].prev = c.nodes[l[a]].prev
                           /\ z[l[a]].next = c.nodes[l[a]].next
  BY <1>1, <1>2, <1>4
<1>6. Path(z, l) /\ Linked(z, l)
  BY <1>1, <1>4, <1>5 DEF Path, Linked
<1>7. Mapped(c.map, z, SlotsOf(l))
  <2>1. \A s \in SlotsOf(l) : z[s].key = c.nodes[s].key
    BY <1>5 DEF SlotsOf
  <2> QED BY <2>1 DEF Chain, Mapped
<1>8. f.map = c.map /\ f.nodes = z /\ f.head = c.head /\ f.tail = c.tail /\ f.free = c.free
      /\ f = [map |-> f.map, nodes |-> f.nodes, head |-> f.head, tail |-> f.tail, free |-> f.free]
  <2> DEFINE r == [map |-> c.map, nodes |-> z, head |-> c.head, tail |-> c.tail, free |-> c.free]
  <2>1. r.map = c.map /\ r.nodes = z /\ r.head = c.head /\ r.tail = c.tail /\ r.free = c.free
        /\ r = [map |-> r.map, nodes |-> r.nodes, head |-> r.head, tail |-> r.tail, free |-> r.free]
    OBVIOUS
  <2>2. f = r
    BY <1>3
  <2> HIDE DEF r
  <2> QED BY <2>1, <2>2, Zenon
<1>9. Chain(f, l)
  BY <1>4, <1>6, <1>7, <1>8 DEF Chain
<1>10. G[j] = [key |-> c.nodes[i].key, val |-> v]
  <2>1. G[j] = [key |-> z[l[j]].key, val |-> z[l[j]].val]
    BY <1>1, EntriesLen
  <2> QED BY <2>1, <1>2, <1>4
<1>11. \A a \in 1..Len(l) : a # j => G[a] = E[a]
  <2> SUFFICES ASSUME NEW a \in 1..Len(l), a # j PROVE G[a] = E[a]
    OBVIOUS
  <2>1. l[a] # i
    BY <1>1 DEF Path
  <2>2. z[l[a]] = c.nodes[l[a]]
    BY <2>1, <1>1, <1>4
  <2>3. G[a] = [key |-> z[l[a]].key, val |-> z[l[a]].val]
        /\ E[a] = [key |-> c.nodes[l[a]].key, val |-> c.nodes[l[a]].val]
    BY <1>1, EntriesLen
  <2> QED BY <2>2, <2>3
<1> HIDE DEF G, E
<1>12. G = EntriesOf(f.nodes, l)
  BY <1>8 DEF G
<1>13. Len(G) = Len(l) /\ Len(E) = Len(l)
  BY <1>1, <1>4, EntriesLen DEF G, E
<1>14. AgreeBut(E, G, j)
  BY <1>1, <1>11, <1>13, DropSame DEF AgreeBut
<1> QED BY <1>9, <1>10, <1>12, <1>14, Zenon DEF f, E, i

LEMMA NewIs == Chain(NewCache, <<>>) /\ EntriesOf(NewCache.nodes, <<>>) = <<>>
<1>1. NewCache.nodes = <<>> /\ NewCache.free = <<>> /\ NewCache.map = <<>>
      /\ NewCache.head = Nil /\ NewCache.tail = Nil
      /\ NewCache = [map |-> NewCache.map, nodes |-> NewCache.nodes, head |-> NewCache.head,
                     tail |-> NewCache.tail, free |-> NewCache.free]
  BY DEF NewCache
<1>2. Len(<<>>) = 0 /\ 1..0 = {} /\ <<>> \in Seq(Nat) /\ <<>> \in Seq(Slot) /\ DOMAIN <<>> = {}
      /\ 0 <= Capacity
  BY CapacityAssumption
<1>3. SlotsOf(<<>>) = {}
  BY <1>2 DEF SlotsOf
<1>4. EntriesOf(<<>>, <<>>) = <<>>
  BY <1>2 DEF EntriesOf
<1>5. Path(<<>>, <<>>) /\ Linked(<<>>, <<>>) /\ HeadOf(<<>>) = Nil /\ TailOf(<<>>) = Nil
  BY <1>2 DEF Path, Linked, HeadOf, TailOf
<1>6. Mapped(<<>>, <<>>, {}) /\ Freed(<<>>, 0, {})
  BY <1>2, <1>3 DEF Mapped, Freed
<1> QED BY <1>1, <1>2, <1>3, <1>4, <1>5, <1>6 DEF Chain

----------------------------------------------------------------------------
(* RecencyCache, read along the path. *)

Entry == [key : CacheKey, val : CacheVal]

LEMMA DropAsSubSeq ==
    ASSUME NEW S, NEW l \in Seq(S), NEW j \in 1..Len(l)
    PROVE  SubSeq(l, 1, j - 1) \o SubSeq(l, j + 1, Len(l)) = Drop(l, j)
<1> DEFINE a == SubSeq(l, 1, j - 1)
           b == SubSeq(l, j + 1, Len(l))
           n == Len(l)
<1>1. n \in Nat /\ j \in 1..n
  OBVIOUS
<1>2. a \in Seq(S) /\ Len(a) = j - 1 /\ \A i \in 1..(j - 1) : a[i] = l[i]
  OBVIOUS
<1>3. b \in Seq(S) /\ Len(b) = n - j /\ \A i \in 1..(n - j) : b[i] = l[i + j]
  OBVIOUS
<1>4. Drop(l, j) = [i \in 1..(n - 1) |-> IF i < j THEN l[i] ELSE l[i + 1]]
  BY DEF Drop
<1> HIDE DEF a, b, n
<1>5. a \o b \in Seq(S) /\ Len(a \o b) = Len(a) + Len(b)
      /\ \A i \in 1..(Len(a) + Len(b)) : (a \o b)[i] = IF i <= Len(a) THEN a[i] ELSE b[i - Len(a)]
  BY <1>2, <1>3, ConcatProperties
<1>6. Len(a) + Len(b) = n - 1
  BY <1>1, <1>2, <1>3
<1>7. \A i \in 1..(n - 1) :
        (IF i <= Len(a) THEN a[i] ELSE b[i - Len(a)]) = IF i < j THEN l[i] ELSE l[i + 1]
  <2> TAKE i \in 1..(n - 1)
  <2>1. CASE i < j
    BY <2>1, <1>1, <1>2
  <2>2. CASE ~ (i < j)
    <3>1. ~ (i <= Len(a)) /\ i - Len(a) = i - (j - 1) /\ i - (j - 1) \in 1..(n - j)
          /\ (i - (j - 1)) + j = i + 1
      BY <2>2, <1>1, <1>2
    <3> QED BY <2>2, <3>1, <1>3
  <2> QED BY <2>1, <2>2
<1> DEFINE g == a \o b
<1>8. g \in Seq(S) /\ Len(g) = n - 1
      /\ \A i \in 1..(n - 1) : g[i] = IF i < j THEN l[i] ELSE l[i + 1]
  BY <1>5, <1>6, <1>7
<1> HIDE DEF g
<1>9. g = Drop(l, j)
  BY <1>4, <1>8
<1> QED BY <1>9 DEF g, a, b, n

LEMMA PushAsConcat ==
    ASSUME NEW S, NEW l \in Seq(S), NEW x \in S
    PROVE  <<x>> \o l = Push(x, l)
<1>1. <<x>> \in Seq(S) /\ Len(<<x>>) = 1 /\ Len(l) \in Nat /\ <<x>>[1] = x
  OBVIOUS
<1> DEFINE h == <<x>>
<1> HIDE DEF h
<1>2. h \in Seq(S) /\ Len(h) = 1 /\ h[1] = x
  BY <1>1 DEF h
<1> DEFINE g == h \o l
<1>3. g \in Seq(S) /\ Len(g) = Len(l) + 1
      /\ \A i \in 1..(Len(l) + 1) : g[i] = IF i <= Len(h) THEN h[i] ELSE l[i - Len(h)]
  <2>1. Len(h) + Len(l) = Len(l) + 1
    BY <1>1, <1>2
  <2> QED BY <1>2, <2>1, ConcatProperties
<1> HIDE DEF g
<1>4. \A i \in 1..(Len(l) + 1) : g[i] = IF i = 1 THEN x ELSE l[i - 1]
  BY <1>1, <1>2, <1>3
<1>5. g = Push(x, l)
  BY <1>3, <1>4 DEF Push
<1> QED BY <1>5 DEF g, h

LEMMA DropLast ==
    ASSUME NEW S, NEW l \in Seq(S), Len(l) # 0
    PROVE  SubSeq(l, 1, Len(l) - 1) = Drop(l, Len(l))
<1> DEFINE n == Len(l)
<1>1. n \in Nat /\ n - 1 \in Nat
  OBVIOUS
<1>2. SubSeq(l, 1, n - 1) = [i \in 1..(n - 1) |-> l[i]]
  OBVIOUS
<1>3. Drop(l, n) = [i \in 1..(n - 1) |-> IF i < n THEN l[i] ELSE l[i + 1]]
  BY DEF Drop
<1>4. \A i \in 1..(n - 1) : l[i] = IF i < n THEN l[i] ELSE l[i + 1]
  BY <1>1
<1> HIDE DEF n
<1>5. SubSeq(l, 1, n - 1) = Drop(l, n)
  BY <1>2, <1>3, <1>4
<1> QED BY <1>5 DEF n

LEMMA EntriesAre ==
    ASSUME NEW l, Chain(cache, l)
    PROVE  /\ Entries = EntriesOf(cache.nodes, l)
           /\ Entries \in Seq(Entry) /\ Len(Entries) = Len(l) /\ Len(l) \in Nat
           /\ DOMAIN Entries = 1..Len(l)
           /\ \A a \in 1..Len(l) : /\ Entries[a].key = cache.nodes[l[a]].key
                                   /\ Entries[a].val = cache.nodes[l[a]].val
                                   /\ Entries[a] = [key |-> cache.nodes[l[a]].key,
                                                    val |-> cache.nodes[l[a]].val]
<1>1. Listed = l /\ l \in Seq(Nat) /\ Len(l) \in Nat /\ DOMAIN l = 1..Len(l)
      /\ \A a \in 1..Len(l) : cache.nodes[l[a]] \in Node
  BY ListIs, ChainIs DEF Listed
<1> DEFINE e(a) == [key |-> cache.nodes[l[a]].key, val |-> cache.nodes[l[a]].val]
<1>2. Entries = EntriesOf(cache.nodes, l) /\ Entries = [a \in 1..Len(l) |-> e(a)]
  BY <1>1 DEF Entries, EntriesOf
<1>3. \A a \in 1..Len(l) : e(a) \in Entry /\ e(a).key = cache.nodes[l[a]].key
                           /\ e(a).val = cache.nodes[l[a]].val
  BY <1>1 DEF Entry, Node
<1>4. \A a \in 1..Len(l) : Entries[a] = e(a)
  BY <1>2
<1> HIDE DEF e
<1>5. Entries \in Seq(Entry) /\ Len(Entries) = Len(l) /\ DOMAIN Entries = 1..Len(l)
  BY <1>1, <1>2, <1>3
<1> QED BY <1>1, <1>2, <1>3, <1>4, <1>5 DEF e

\* A key that is not there.
LEMMA NotThere ==
    ASSUME NEW l, Chain(cache, l), NEW k, k \notin DOMAIN cache.map
    PROVE  Recency!Without(k) = Entries /\ Recency!ValueOf(k) = NoEntry /\ Stored(k) = NoEntry
<1>1. DOMAIN Entries = 1..Len(l) /\ \A a \in 1..Len(l) : Entries[a].key = cache.nodes[l[a]].key
  BY EntriesAre
<1>2. \A a \in 1..Len(l) : cache.nodes[l[a]].key \in DOMAIN cache.map
  BY ChainIs
<1>3. ~ \E i \in DOMAIN Entries : Entries[i].key = k
  BY <1>1, <1>2
<1> QED BY <1>3 DEF Recency!Without, Recency!ValueOf, Stored

\* A key that is.
LEMMA There ==
    ASSUME NEW l, Chain(cache, l), NEW k \in DOMAIN cache.map
    PROVE  \E j \in 1..Len(l) :
             /\ l[j] = cache.map[k] /\ cache.nodes[l[j]].key = k
             /\ Entries[j] = [key |-> k, val |-> Stored(k)]
             /\ Recency!Without(k) = Drop(Entries, j)
             /\ Recency!ValueOf(k) = Stored(k) /\ Stored(k) # NoEntry
<1>1. PICK j \in 1..Len(l) : /\ l[j] = cache.map[k] /\ cache.nodes[l[j]].key = k
                             /\ \A i \in 1..Len(l) : cache.nodes[l[i]].key = k => i = j
  BY Find
<1>2. /\ Entries \in Seq(Entry) /\ Len(Entries) = Len(l) /\ Len(l) \in Nat
      /\ DOMAIN Entries = 1..Len(l)
      /\ \A a \in 1..Len(l) : Entries[a].key = cache.nodes[l[a]].key
  BY EntriesAre
<1>3. Entries[j] = [key |-> k, val |-> Stored(k)]
  <2>1. Entries[j] = [key |-> cache.nodes[l[j]].key, val |-> cache.nodes[l[j]].val]
    BY EntriesAre
  <2> QED BY <1>1, <2>1 DEF Stored
<1>4. Stored(k) # NoEntry
  <2>1. cache.nodes[l[j]] \in Node
    BY ChainIs
  <2>2. cache.nodes[l[j]].val \in CacheVal
    BY <2>1 DEF Node
  <2> QED BY <1>1, <2>2, NoEntryAssumption DEF Stored
<1>5. (\E i \in DOMAIN Entries : Entries[i].key = k)
      /\ (CHOOSE i \in DOMAIN Entries : Entries[i].key = k) = j
  BY <1>1, <1>2
<1>6. Recency!ValueOf(k) = Stored(k)
  <2>1. Recency!ValueOf(k) = Entries[j].val
    BY <1>5 DEF Recency!ValueOf
  <2> QED BY <2>1, <1>3
<1>7. Recency!Without(k) = SubSeq(Entries, 1, j - 1) \o SubSeq(Entries, j + 1, Len(Entries))
  BY <1>5 DEF Recency!Without
<1>8. SubSeq(Entries, 1, j - 1) \o SubSeq(Entries, j + 1, Len(Entries)) = Drop(Entries, j)
  BY <1>2, DropAsSubSeq
<1> QED BY <1>1, <1>3, <1>4, <1>6, <1>7, <1>8

----------------------------------------------------------------------------
(* Every call keeps the invariant and is a call of RecencyCache. *)

AbstractStep == [Recency!RecencyNext]_<<Entries, reply>>

\* What the list is after a call.
LEMMA EntriesAfter ==
    ASSUME NEW m, Chain(cache', m) PROVE Entries' = EntriesOf(cache'.nodes, m)
<1>1. ListOf(cache') = m
  BY ListIs
<1>2. DOMAIN m = 1..Len(m)
  BY DEF Chain, Path
<1> QED BY <1>1, <1>2 DEF Entries, Listed, EntriesOf

LEMMA GetStep ==
    ASSUME NEW l, Chain(cache, l), NEW k \in CacheKey, CacheGet(k)
    PROVE  (\E m : Chain(cache', m)) /\ Recency!UseKey(k)
<1>1. CASE k \in DOMAIN cache.map
  <2>1. PICK j \in 1..Len(l) : /\ l[j] = cache.map[k] /\ cache.nodes[l[j]].key = k
             /\ Entries[j] = [key |-> k, val |-> Stored(k)]
             /\ Recency!Without(k) = Drop(Entries, j)
             /\ Recency!ValueOf(k) = Stored(k) /\ Stored(k) # NoEntry
    BY <1>1, There
  <2>2. Entries \in Seq(Entry) /\ Len(Entries) = Len(l) /\ Entries = EntriesOf(cache.nodes, l)
    BY EntriesAre
  <2>3. cache' = MoveToFront(cache, l[j]) /\ Returns("get", k)
    BY <1>1, <2>1 DEF CacheGet
  <2> DEFINE m == Push(l[j], Drop(l, j))
  <2>4. Chain(cache', m) /\ EntriesOf(cache'.nodes, m) = Push(Entries[j], Drop(Entries, j))
    BY <2>2, <2>3, FrontIs
  <2> HIDE DEF m
  <2>5. Entries' = Push(Entries[j], Drop(Entries, j))
    BY <2>4, EntriesAfter
  <2>6. Drop(Entries, j) \in Seq(Entry) /\ Entries[j] \in Entry
    BY <2>2, DropSeq
  <2>7. Entries' = <<Entries[j]>> \o Drop(Entries, j)
    BY <2>5, <2>6, PushAsConcat
  <2> QED BY <2>1, <2>3, <2>4, <2>7 DEF Recency!UseKey, Recency!Answer, Returns
<1>2. CASE k \notin DOMAIN cache.map
  <2>1. cache' = cache /\ Returns("get", k)
    BY <1>2 DEF CacheGet
  <2>2. Entries' = Entries
    BY <2>1 DEF Entries, Listed
  <2>3. Recency!ValueOf(k) = NoEntry /\ Stored(k) = NoEntry
    BY <1>2, NotThere
  <2> QED BY <2>1, <2>2, <2>3 DEF Recency!UseKey, Recency!Answer, Returns
<1> QED BY <1>1, <1>2

LEMMA RemoveStep ==
    ASSUME NEW l, Chain(cache, l), NEW k \in CacheKey, CacheRemove(k)
    PROVE  (\E m : Chain(cache', m)) /\ Recency!DropKey(k)
<1>1. CASE k \in DOMAIN cache.map
  <2>1. PICK j \in 1..Len(l) : /\ l[j] = cache.map[k] /\ cache.nodes[l[j]].key = k
             /\ Recency!Without(k) = Drop(Entries, j)
             /\ Recency!ValueOf(k) = Stored(k)
    BY <1>1, There
  <2>2. Entries = EntriesOf(cache.nodes, l)
    BY EntriesAre
  <2>3. cache' = RemoveAt(cache, cache.nodes[l[j]].key, l[j]) /\ Returns("remove", k)
    BY <1>1, <2>1 DEF CacheRemove
  <2> DEFINE m == Drop(l, j)
  <2>4. Chain(cache', m) /\ EntriesOf(cache'.nodes, m) = Drop(Entries, j)
    BY <2>2, <2>3, RemoveIs
  <2> HIDE DEF m
  <2>5. Entries' = Drop(Entries, j)
    BY <2>4, EntriesAfter
  <2> QED BY <2>1, <2>3, <2>4, <2>5 DEF Recency!DropKey, Recency!Answer, Returns
<1>2. CASE k \notin DOMAIN cache.map
  <2>1. cache' = cache /\ Returns("remove", k)
    BY <1>2 DEF CacheRemove
  <2>2. Entries' = Entries
    BY <2>1 DEF Entries, Listed
  <2>3. Recency!Without(k) = Entries /\ Recency!ValueOf(k) = NoEntry /\ Stored(k) = NoEntry
    BY <1>2, NotThere
  <2> QED BY <2>1, <2>2, <2>3 DEF Recency!DropKey, Recency!Answer, Returns
<1> QED BY <1>1, <1>2

\* Room for one more entry: the least recently used one goes if the cache is full.
LEMMA RoomIs ==
    ASSUME NEW l, Chain(cache, l)
    PROVE  LET c == IF Cardinality(DOMAIN cache.map) >= Capacity THEN EvictLru(cache) ELSE cache
               E == IF Len(Entries) = Capacity THEN SubSeq(Entries, 1, Capacity - 1) ELSE Entries
           IN /\ \E m : Chain(c, m) /\ EntriesOf(c.nodes, m) = E
              /\ c.free # <<>> \/ Len(c.nodes) < Capacity
              /\ DOMAIN c.map \subseteq DOMAIN cache.map
              /\ E \in Seq(Entry)
<1>1. Cardinality(DOMAIN cache.map) = Len(l)
  BY Counts
<1>2. Entries = EntriesOf(cache.nodes, l) /\ Entries \in Seq(Entry) /\ Len(Entries) = Len(l)
      /\ Len(l) \in Nat
  BY EntriesAre
<1>3. cache.free \in Seq(Nat) /\ cache.nodes \in Seq(Slot) /\ Len(cache.nodes) <= Capacity
      /\ Len(cache.free) + Len(l) = Len(cache.nodes)
  BY DEF Chain, Freed
<1>4. Capacity \in Nat /\ Capacity # 0
  BY CapacityAssumption
<1>5. Len(l) <= Capacity
  BY <1>2, <1>3, <1>4
<1>6. CASE Len(l) >= Capacity
  <2>1. Len(l) = Capacity /\ Len(l) # 0
    BY <1>2, <1>4, <1>5, <1>6
  <2>2. Len(l) \in 1..Len(l)
        /\ EvictLru(cache) = RemoveAt(cache, cache.nodes[l[Len(l)]].key, l[Len(l)])
    BY <2>1, EvictIs
  <2> DEFINE c == EvictLru(cache)
             m == Drop(l, Len(l))
  <2>3. /\ Chain(c, m)
        /\ EntriesOf(c.nodes, m) = Drop(EntriesOf(cache.nodes, l), Len(l))
        /\ DOMAIN c.map = DOMAIN cache.map \ {cache.nodes[l[Len(l)]].key}
        /\ c.free # <<>>
    BY <2>2, RemoveIs
  <2>4. SubSeq(Entries, 1, Len(Entries) - 1) = Drop(Entries, Len(Entries))
        /\ Drop(Entries, Len(Entries)) \in Seq(Entry)
    BY <1>2, <2>1, <2>2, DropLast, DropSeq
  <2> HIDE DEF c, m
  <2>5. EntriesOf(c.nodes, m) = SubSeq(Entries, 1, Capacity - 1)
        /\ SubSeq(Entries, 1, Capacity - 1) \in Seq(Entry)
    BY <1>2, <2>1, <2>3, <2>4
  <2> QED BY <1>1, <1>2, <1>6, <2>1, <2>3, <2>5 DEF c
<1>7. CASE ~ (Len(l) >= Capacity)
  <2>1. Len(Entries) # Capacity
    BY <1>2, <1>4, <1>7
  <2>2. cache.free # <<>> \/ Len(cache.nodes) < Capacity
    BY <1>2, <1>3, <1>4, <1>7
  <2> QED BY <1>1, <1>2, <1>7, <2>1, <2>2
<1> QED BY <1>6, <1>7

LEMMA InsertStep ==
    ASSUME NEW l, Chain(cache, l), NEW k \in CacheKey, NEW v \in CacheVal, CacheInsert(k, v)
    PROVE  (\E m : Chain(cache', m)) /\ Recency!PutKey(k, v)
<1> DEFINE e == [key |-> k, val |-> v]
<1>0. e \in Entry
  BY DEF Entry
<1>1. CASE k \in DOMAIN cache.map
  <2>1. PICK j \in 1..Len(l) : /\ l[j] = cache.map[k] /\ cache.nodes[l[j]].key = k
             /\ Recency!Without(k) = Drop(Entries, j)
             /\ Recency!ValueOf(k) = Stored(k)
    BY <1>1, There
  <2>2. Entries \in Seq(Entry) /\ Len(Entries) = Len(l) /\ Entries = EntriesOf(cache.nodes, l)
        /\ Len(l) \in Nat
    BY EntriesAre
  <2> DEFINE c == Overwritten(cache, l[j], v)
             G == EntriesOf(c.nodes, l)
  <2>3. cache' = MoveToFront(c, l[j]) /\ Returns("insert", k)
    BY <1>1, <2>1 DEF CacheInsert, Overwritten
  <2> HIDE DEF c
  <2>4. Chain(c, l) /\ G[j] = e /\ Drop(G, j) = Drop(Entries, j)
    <3>1. Chain(cache, l) /\ j \in 1..Len(l) /\ v \in CacheVal
      BY <2>1
    <3>2. Chain(c, l)
      BY <3>1, OverwriteIs DEF c
    <3>3. G[j] = [key |-> cache.nodes[l[j]].key, val |-> v]
      BY <3>1, OverwriteIs DEF c, G
    <3>4. AgreeBut(EntriesOf(cache.nodes, l), G, j)
      BY <3>1, OverwriteIs DEF c, G
    <3> QED BY <2>1, <2>2, <3>2, <3>3, <3>4 DEF AgreeBut
  <2> DEFINE m == Push(l[j], Drop(l, j))
  <2>5. Chain(cache', m) /\ EntriesOf(cache'.nodes, m) = Push(G[j], Drop(G, j))
    BY <2>3, <2>4, FrontIs
  <2> HIDE DEF m, G
  <2>8. Drop(Entries, j) \in Seq(Entry) /\ Len(Drop(Entries, j)) = Len(Entries) - 1
    BY <2>2, DropSeq
  <2>9. Entries' = <<e>> \o Drop(Entries, j)
    <3>1. Entries' = Push(e, Drop(Entries, j))
      BY <2>4, <2>5, EntriesAfter
    <3> QED BY <1>0, <2>8, <3>1, PushAsConcat
  <2>10. Len(Drop(Entries, j)) # Capacity
    <3>1. cache.free \in Seq(Nat) /\ Len(cache.nodes) <= Capacity
          /\ Len(cache.free) + Len(l) = Len(cache.nodes)
      BY DEF Chain, Freed
    <3>2. Capacity \in Nat
      BY CapacityAssumption
    <3>3. Len(l) <= Capacity
      BY <2>2, <3>1, <3>2
    <3> QED BY <2>2, <2>8, <3>2, <3>3
  <2> QED BY <2>1, <2>3, <2>5, <2>9, <2>10 DEF Recency!PutKey, Recency!Answer, Returns
<1>2. CASE k \notin DOMAIN cache.map
  <2> DEFINE c == IF Cardinality(DOMAIN cache.map) >= Capacity THEN EvictLru(cache) ELSE cache
             E == IF Len(Entries) = Capacity THEN SubSeq(Entries, 1, Capacity - 1) ELSE Entries
  <2>1. cache' = InsertNew(c, k, v) /\ Returns("insert", k)
    BY <1>2 DEF CacheInsert
  <2>2. /\ \E m : Chain(c, m) /\ EntriesOf(c.nodes, m) = E
        /\ c.free # <<>> \/ Len(c.nodes) < Capacity
        /\ DOMAIN c.map \subseteq DOMAIN cache.map
        /\ E \in Seq(Entry)
    BY RoomIs
  <2>3. Recency!Without(k) = Entries /\ Recency!ValueOf(k) = NoEntry /\ Stored(k) = NoEntry
    BY <1>2, NotThere
  <2> HIDE DEF c, E
  <2>4. PICK n : Chain(c, n) /\ EntriesOf(c.nodes, n) = E
    BY <2>2
  <2>5. k \notin DOMAIN c.map
    BY <1>2, <2>2
  <2>6. PICK m : Chain(cache', m) /\ EntriesOf(cache'.nodes, m) = Push(e, E)
    BY <2>1, <2>2, <2>4, <2>5, InsertIs
  <2>7. Entries' = <<e>> \o E
    <3>1. Entries' = Push(e, E)
      BY <2>6, EntriesAfter
    <3> QED BY <1>0, <2>2, <3>1, PushAsConcat
  <2> QED BY <2>1, <2>3, <2>6, <2>7 DEF Recency!PutKey, Recency!Answer, Returns, E
<1> QED BY <1>1, <1>2

LEMMA ClearStep ==
    ASSUME CacheClear PROVE (\E m : Chain(cache', m)) /\ Recency!DropAll
<1>1. cache' = NewCache /\ reply' = [call |-> "clear"]
  BY DEF CacheClear
<1>2. Chain(cache', <<>>) /\ EntriesOf(cache'.nodes, <<>>) = <<>>
  BY <1>1, NewIs
<1>3. Entries' = <<>>
  BY <1>2, EntriesAfter
<1> QED BY <1>1, <1>2, <1>3 DEF Recency!DropAll

LEMMA CacheStep == CacheInv /\ [CacheNext]_cacheVars => CacheInv' /\ AbstractStep
<1> SUFFICES ASSUME CacheInv, [CacheNext]_cacheVars PROVE CacheInv' /\ AbstractStep
  OBVIOUS
<1>1. PICK l : Chain(cache, l)
  BY DEF CacheInv
<1>2. CASE UNCHANGED cacheVars
  <2>1. cache' = cache /\ reply' = reply
    BY <1>2 DEF cacheVars
  <2>2. Entries' = Entries
    BY <2>1 DEF Entries, Listed
  <2> QED BY <1>1, <2>1, <2>2 DEF CacheInv, AbstractStep
<1>3. ASSUME NEW k \in CacheKey, CacheGet(k) PROVE CacheInv' /\ AbstractStep
  BY <1>1, <1>3, GetStep DEF CacheInv, AbstractStep, Recency!RecencyNext
<1>4. ASSUME NEW k \in CacheKey, CacheRemove(k) PROVE CacheInv' /\ AbstractStep
  BY <1>1, <1>4, RemoveStep DEF CacheInv, AbstractStep, Recency!RecencyNext
<1>5. ASSUME NEW k \in CacheKey, NEW v \in CacheVal, CacheInsert(k, v)
      PROVE  CacheInv' /\ AbstractStep
  BY <1>1, <1>5, InsertStep DEF CacheInv, AbstractStep, Recency!RecencyNext
<1>6. CASE CacheClear
  BY <1>6, ClearStep DEF CacheInv, AbstractStep, Recency!RecencyNext
<1> QED BY <1>2, <1>3, <1>4, <1>5, <1>6 DEF CacheNext

LEMMA CacheStart == CacheInit => CacheInv /\ Recency!RecencyInit
<1> SUFFICES ASSUME CacheInit PROVE CacheInv /\ Recency!RecencyInit
  OBVIOUS
<1>1. cache = NewCache /\ reply = [call |-> "new"]
  BY DEF CacheInit
<1>2. Chain(cache, <<>>) /\ EntriesOf(cache.nodes, <<>>) = <<>>
  BY <1>1, NewIs
<1>3. Entries = <<>>
  BY <1>2, EntriesAre
<1> QED BY <1>1, <1>2, <1>3 DEF CacheInv, Recency!RecencyInit

\* In every reachable state the slots with entries are one path from head to tail,
\* the map leads to them, and all other slots are free.
THEOREM CacheInvariance == CacheSpec => []CacheInv
<1>1. CacheInit => CacheInv
  BY CacheStart
<1>2. CacheInv /\ [CacheNext]_cacheVars => CacheInv'
  BY CacheStep
<1> QED BY <1>1, <1>2, PTL DEF CacheSpec

\* Map, list, tail and free list of the LRU cache always tell the same.
THEOREM CacheIsLinked == CacheSpec => []WellLinked
<1>1. CacheInv => WellLinked
  <2> SUFFICES ASSUME NEW l, Chain(cache, l) PROVE WellLinked
    BY DEF CacheInv
  <2>1. Listed = l
    BY ListIs DEF Listed
  <2>2. DOMAIN l = 1..Len(l) /\ {l[i] : i \in DOMAIN l} = SlotsOf(l)
        /\ (l = <<>> <=> Len(l) = 0)
    BY ChainIs DEF SlotsOf
  <2>3. Cardinality(DOMAIN cache.map) = Len(l) /\ Cardinality(SlotsOf(l)) = Len(l)
    BY Counts
  <2>4. /\ Len(cache.nodes) <= Capacity /\ Len(cache.free) + Len(l) = Len(cache.nodes)
        /\ cache.nodes \in Seq(Slot) /\ DOMAIN cache.nodes = 1..Len(cache.nodes)
        /\ cache.tail = TailOf(l)
    BY DEF Chain
  <2>5. cache.free \in Seq(Nat) /\ DOMAIN cache.free = 1..Len(cache.free)
        /\ SlotsOf(cache.free) = (1..Len(cache.nodes)) \ SlotsOf(l)
    BY DEF Chain, Freed
  <2>6. {cache.free[i] : i \in DOMAIN cache.free} = DOMAIN cache.nodes \ SlotsOf(l)
    BY <2>4, <2>5 DEF SlotsOf
  <2>7. \A k \in DOMAIN cache.map : cache.map[k] \in SlotsOf(l) /\ cache.nodes[cache.map[k]].key = k
    BY ChainIs
  <2>8. \A i \in 1..Len(l) : cache.nodes[l[i]].prev = PrevOf(l, i)
    BY ChainIs
  <2>9. cache.tail = IF l = <<>> THEN Nil ELSE l[Len(l)]
    BY <2>2, <2>4 DEF TailOf
  <2>10. \A i \in DOMAIN l : cache.nodes[l[i]].prev = IF i = 1 THEN Nil ELSE l[i - 1]
    BY <2>2, <2>8 DEF PrevOf
  <2> DEFINE LinkedBy(m) ==
        LET slots == {m[i] : i \in DOMAIN m} IN
        /\ Len(cache.nodes) <= Capacity
        /\ Cardinality(slots) = Len(m)
        /\ Cardinality(DOMAIN cache.map) = Len(m)
        /\ \A k \in DOMAIN cache.map : cache.map[k] \in slots /\ cache.nodes[cache.map[k]].key = k
        /\ cache.tail = (IF m = <<>> THEN Nil ELSE m[Len(m)])
        /\ \A i \in DOMAIN m : cache.nodes[m[i]].prev = (IF i = 1 THEN Nil ELSE m[i - 1])
        /\ {cache.free[i] : i \in DOMAIN cache.free} = DOMAIN cache.nodes \ slots
        /\ Len(cache.free) + Len(m) = Len(cache.nodes)
  <2>11. {l[i] : i \in DOMAIN l} = SlotsOf(l)
    BY <2>2
  <2>12. LinkedBy(l)
    BY <2>3, <2>4, <2>6, <2>7, <2>9, <2>10, <2>11, Zenon
  <2>13. LinkedBy(Listed) <=> WellLinked
    BY DEF WellLinked
  <2> HIDE DEF LinkedBy
  <2> QED BY <2>1, <2>12, <2>13
<1> QED BY <1>1, CacheInvariance, PTL

\* Every call of the LRU cache is a call of RecencyCache: it returns what is stored,
\* a hit counts as a use, and a full cache pushes out the least recently used entry.
THEOREM CacheRefinement == CacheSpec => RefinesRecency
<1>1. CacheInit => Recency!RecencyInit
  BY CacheStart
<1>2. CacheInv /\ [CacheNext]_cacheVars => [Recency!RecencyNext]_<<Entries, reply>>
  BY CacheStep DEF AbstractStep
<1> QED BY <1>1, <1>2, CacheInvariance, PTL DEF CacheSpec, RefinesRecency, Recency!RecencySpec
=============================================================================
