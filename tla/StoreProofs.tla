----------------------------- MODULE StoreProofs -----------------------------
(***************************************************************************)
(* Proofs about the event stores: ModelStore for any number of items,      *)
(* operations, failed flushes and crashes and any segment size,            *)
(* AggregateStore for any number of events, snapshots, failed appends and  *)
(* restarts, and SessionStore for any number of requests, sessions and     *)
(* restarts and any clock.                                                 *)
(***************************************************************************)
EXTENDS ModelStore, AggregateStore, SessionStore, Induction,
        SequenceTheorems, TLAPS

----------------------------------------------------------------------------
(* ModelStore: confirmed operations stay readable, the hash chain is whole, and
   the log tells what is in memory. *)

(* Events of a log. *)

\* Ids of two logs in a row.
LEMMA IdsConcat ==
    ASSUME NEW S, NEW a \in Seq(S), NEW b \in Seq(S)
    PROVE  a \o b \in Seq(S) /\ Ids(a \o b) = Ids(a) \cup Ids(b)
<1>1. /\ a \o b \in Seq(S) /\ Len(a \o b) = Len(a) + Len(b)
      /\ DOMAIN (a \o b) = 1..(Len(a) + Len(b))
      /\ \A i \in 1..Len(a) : (a \o b)[i] = a[i]
      /\ \A i \in 1..Len(b) : (a \o b)[Len(a) + i] = b[i]
  OBVIOUS
<1>2. Ids(a \o b) \subseteq Ids(a) \cup Ids(b)
  <2>1. SUFFICES ASSUME NEW i \in 1..(Len(a) + Len(b))
                 PROVE  (a \o b)[i].id \in Ids(a) \cup Ids(b)
    BY <1>1 DEF Ids
  <2>2. CASE i <= Len(a)
    BY <1>1, <2>2 DEF Ids
  <2>3. CASE i > Len(a)
    <3>1. i - Len(a) \in 1..Len(b) /\ Len(a) + (i - Len(a)) = i
      BY <2>3
    <3>2. (a \o b)[i] = b[i - Len(a)]
      BY <1>1, <3>1
    <3> QED BY <3>1, <3>2 DEF Ids
  <2> QED BY <2>2, <2>3
<1>3. Ids(a) \subseteq Ids(a \o b)
  BY <1>1 DEF Ids
<1>4. Ids(b) \subseteq Ids(a \o b)
  <2>1. ASSUME NEW i \in 1..Len(b) PROVE b[i].id \in Ids(a \o b)
    <3>1. Len(a) + i \in DOMAIN (a \o b) /\ (a \o b)[Len(a) + i] = b[i]
      BY <1>1
    <3> QED BY <3>1 DEF Ids
  <2>2. Ids(b) = {b[i].id : i \in 1..Len(b)}
    BY DEF Ids
  <2> HIDE DEF Ids
  <2> QED BY <2>1, <2>2
<1> QED BY <1>1, <1>2, <1>3, <1>4

\* Part of a log.
LEMMA PartOf ==
    ASSUME NEW S, NEW s \in Seq(S), NEW m \in Nat \ {0}, NEW n \in 0..Len(s)
    PROVE  SubSeq(s, m, n) \in Seq(S)
<1>1. \A i \in m..n : s[i] \in S
  OBVIOUS
<1> QED BY <1>1, SubSeqProperties

\* A log without its first event.
LEMMA IdsTail ==
    ASSUME NEW S, NEW s \in Seq(S), Len(s) > 0
    PROVE  Ids(s) = {s[1].id} \cup Ids(SubSeq(s, 2, Len(s)))
<1> DEFINE t == SubSeq(s, 2, Len(s))
<1>1. /\ DOMAIN t = 1..(Len(s) - 1)
      /\ \A i \in 1..(Len(s) - 1) : t[i] = s[i + 1]
  BY SubSeqProperties
<1>2. Ids(t) \subseteq Ids(s) /\ s[1].id \in Ids(s)
  <2>1. 1 \in DOMAIN s /\ \A i \in 1..(Len(s) - 1) : i + 1 \in DOMAIN s
    OBVIOUS
  <2> QED BY <1>1, <2>1 DEF Ids
<1>3. ASSUME NEW i \in DOMAIN s, i # 1 PROVE s[i].id \in Ids(t)
  <2>1. i - 1 \in 1..(Len(s) - 1) /\ (i - 1) + 1 = i
    BY <1>3
  <2>2. t[i - 1] = s[i]
    BY <1>1, <2>1
  <2> QED BY <1>1, <2>1, <2>2 DEF Ids
<1> QED BY <1>2, <1>3 DEF Ids

\* What a flush takes from the buffer and the batch reaches the file or is glued
\* to the torn line.
LEMMA AllReach ==
    ASSUME NEW S, NEW pending \in Seq(S)
    PROVE  /\ Reaches(pending, Len(pending)) \in Seq(S)
           /\ Ids(pending) \subseteq Ids(Reaches(pending, Len(pending)))
                                       \cup Glued(pending, Len(pending))
<1>1. CASE torn /\ Len(pending) > 0
  <2>1. Reaches(pending, Len(pending)) = SubSeq(pending, 2, Len(pending))
        /\ Glued(pending, Len(pending)) = {pending[1].id}
    BY <1>1 DEF Reaches, Glued
  <2> QED BY <1>1, <2>1, PartOf, IdsTail
<1>2. CASE ~(torn /\ Len(pending) > 0)
  <2>1. SubSeq(pending, 1, Len(pending)) = pending
    OBVIOUS
  <2> QED BY <1>2, <2>1 DEF Reaches
<1> QED BY <1>1, <1>2

LEMMA SomeReach ==
    ASSUME NEW S, NEW pending \in Seq(S), NEW n \in 0..Len(pending)
    PROVE  Reaches(pending, n) \in Seq(S) /\ SubSeq(pending, n + 1, Len(pending)) \in Seq(S)
  BY PartOf DEF Reaches

\* What is glued is one of the pending events.
LEMMA GluedIsPending ==
    ASSUME NEW S, NEW pending \in Seq(S), NEW n \in 0..Len(pending)
    PROVE  Glued(pending, n) \subseteq Ids(pending)
<1>1. n > 0 => 1 \in DOMAIN pending
  OBVIOUS
<1> QED BY <1>1 DEF Glued, Ids

----------------------------------------------------------------------------
(* Types. *)

\* Operations and events up to now.
OpUpTo(n) == {op \in Op : op.id <= n /\ op.val <= n}
EventUpTo(n) == {e \in LogEvent : e.id <= n /\ e.prev <= n /\ e.val <= n}

\* Type correctness, with everything numbered by the operations so far.
Numbered ==
    /\ StoreTypeOK
    /\ handling \in SUBSET OpUpTo(opCount)
    /\ batch \in Seq(EventUpTo(opCount)) /\ buffered \in Seq(EventUpTo(opCount))
    /\ lines \in Seq(EventUpTo(opCount)) /\ oldLines \in Seq(EventUpTo(opCount))

LEMMA Longer ==
    ASSUME NEW m \in Nat, NEW n \in Nat, m <= n
    PROVE  /\ OpUpTo(m) \subseteq OpUpTo(n)
           /\ Seq(EventUpTo(m)) \subseteq Seq(EventUpTo(n))
<1>1. OpUpTo(m) \subseteq OpUpTo(n)
  BY DEF OpUpTo, Op, OpId
<1>2. EventUpTo(m) \subseteq EventUpTo(n)
  BY DEF EventUpTo, LogEvent, OpId
<1>3. \A s \in Seq(EventUpTo(m)) : s \in Seq(EventUpTo(n))
  BY <1>2
<1> QED BY <1>1, <1>3

LEMMA EventsAreTyped ==
    ASSUME NEW n \in Nat, NEW s \in Seq(EventUpTo(n))
    PROVE  s \in Seq(LogEvent)
  BY DEF EventUpTo

\* The event of an operation.
LEMMA EventOf ==
    ASSUME Numbered, NEW op \in handling
    PROVE  [id |-> op.id, prev |-> lastHash, kind |-> op.kind, key |-> op.key,
            val |-> op.val] \in EventUpTo(opCount)
<1>1. op \in Op /\ op.id <= opCount /\ op.val <= opCount
  BY DEF Numbered, OpUpTo
<1>2. lastHash \in 0..opCount /\ opCount \in 0..MaxOps /\ MaxOps \in Nat
  BY StoreAssumption DEF Numbered, StoreTypeOK
<1> QED BY <1>1, <1>2 DEF Op, OpId, EventUpTo, LogEvent

\* What both flushes leave of the log.
LogTyped(n) ==
    /\ batch' \in Seq(EventUpTo(n)) /\ buffered' \in Seq(EventUpTo(n))
    /\ lines' \in Seq(EventUpTo(n)) /\ oldLines' \in Seq(EventUpTo(n))
    /\ half' \in BOOLEAN /\ torn' \in BOOLEAN
    /\ gone' \in SUBSET OpId /\ apart' \in SUBSET ItemKey
    /\ writeErrors' \in 0..MaxWriteErrors

LEMMA IdsAreOps ==
    ASSUME NEW s \in Seq(LogEvent) PROVE Ids(s) \subseteq OpId
<1>1. \A i \in DOMAIN s : s[i] \in LogEvent
  OBVIOUS
<1> QED BY <1>1 DEF Ids, LogEvent

LEMMA FlushTyped ==
    ASSUME Numbered, NEW newBatch \in Seq(EventUpTo(opCount)),
           FlushWorks(newBatch) \/ FlushFails(newBatch)
    PROVE  LogTyped(opCount)
<1> DEFINE E == EventUpTo(opCount)
           pending == buffered \o newBatch
<1>0. opCount \in Nat /\ buffered \in Seq(E) /\ lines \in Seq(E) /\ oldLines \in Seq(E)
  BY StoreAssumption DEF Numbered, StoreTypeOK
<1>1. pending \in Seq(E)
  BY <1>0, IdsConcat
<1>2. Ids(oldLines) \subseteq OpId /\ Ids(pending) \subseteq OpId
  BY <1>0, <1>1, EventsAreTyped, IdsAreOps
<1>3. CASE FlushWorks(newBatch)
  <2> DEFINE disk == lines \o Reaches(pending, Len(pending))
  <2>1. disk \in Seq(E)
    BY <1>0, <1>1, AllReach, IdsConcat
  <2>2. lines' \in Seq(E) /\ oldLines' \in Seq(E)
    <3>1. /\ lines' = IF Rotates(disk) THEN <<>> ELSE disk
          /\ oldLines' = IF Rotates(disk) THEN disk ELSE oldLines
      BY <1>3 DEF FlushWorks
    <3> QED BY <1>0, <2>1, <3>1
  <2>3. Glued(pending, Len(pending)) \subseteq OpId
    <3>1. Len(pending) \in 0..Len(pending)
      BY <1>1
    <3> HIDE DEF pending
    <3> QED BY <1>1, <1>2, <3>1, GluedIsPending
  <2>4. gone' \subseteq gone \cup Ids(oldLines) \cup Glued(pending, Len(pending))
    BY <1>3 DEF FlushWorks
  <2>5. gone' \in SUBSET OpId
    BY <1>2, <2>3, <2>4 DEF Numbered, StoreTypeOK
  <2>6. apart' \in SUBSET ItemKey
    BY <1>3 DEF FlushWorks, Numbered, StoreTypeOK
  <2>7. /\ batch' = <<>> /\ buffered' = <<>> /\ half' \in BOOLEAN /\ torn' \in BOOLEAN
        /\ writeErrors' \in 0..MaxWriteErrors
    BY <1>3 DEF FlushWorks, Numbered, StoreTypeOK
  <2> QED BY <2>2, <2>5, <2>6, <2>7 DEF LogTyped
<1>4. CASE FlushFails(newBatch)
  <2>1. PICK n \in 0..Len(pending) :
          /\ lines' = lines \o Reaches(pending, n)
          /\ gone' = (gone \cup Glued(pending, n)) \ Ids(lines')
          /\ buffered' = SubSeq(pending, n + 1, Len(pending))
          /\ torn' = (torn /\ n = 0)
          /\ half' \in BOOLEAN
    BY <1>4 DEF FlushFails
  <2>2. lines' \in Seq(E) /\ buffered' \in Seq(E)
    BY <1>0, <1>1, <2>1, SomeReach, IdsConcat
  <2>3. gone' \in SUBSET OpId
    BY <1>1, <1>2, <2>1, GluedIsPending DEF Numbered, StoreTypeOK
  <2>4. /\ batch' = newBatch /\ oldLines' = oldLines /\ apart' \in SUBSET ItemKey
        /\ writeErrors' \in 0..MaxWriteErrors
    BY <1>4, StoreAssumption DEF FlushFails, Numbered, StoreTypeOK
  <2> QED BY <1>0, <2>1, <2>2, <2>3, <2>4 DEF LogTyped
<1> QED BY <1>3, <1>4

\* The items replayed from a log.
LEMMA ReplayTyped ==
    ASSUME NEW n \in Nat, NEW s \in Seq(EventUpTo(n)), NEW k \in ItemKey
    PROVE  Replayed(k, s) \in 0..n
<1>1. CASE LastOf(k, s) = {}
  BY <1>1 DEF Replayed, Absent
<1>2. CASE LastOf(k, s) # {}
  <2> DEFINE i == CHOOSE i \in LastOf(k, s) : TRUE
  <2>1. i \in DOMAIN s
    BY <1>2 DEF LastOf
  <2>2. s[i] \in EventUpTo(n)
    BY <2>1
  <2>3. s[i].val \in 0..n
    BY <2>2 DEF EventUpTo, LogEvent, OpId
  <2> QED BY <1>2, <2>3 DEF Replayed
<1> QED BY <1>1, <1>2

LEMMA NumberedInit == ASSUME StoreInit PROVE Numbered
<1>1. \A S : <<>> \in Seq(S)
  OBVIOUS
<1>2. storage \in [ItemKey -> 0..opCount] /\ opCount \in 0..MaxOps /\ lastHash \in 0..opCount
  BY StoreAssumption DEF StoreInit, Absent
<1>3. writeErrors \in 0..MaxWriteErrors /\ crashes \in 0..MaxCrashes
  BY StoreAssumption DEF StoreInit
<1>4. /\ batch \in Seq(LogEvent) /\ buffered \in Seq(LogEvent)
      /\ lines \in Seq(LogEvent) /\ oldLines \in Seq(LogEvent)
  BY <1>1 DEF StoreInit
<1>5. StoreTypeOK
  BY <1>2, <1>3, <1>4 DEF StoreInit, StoreTypeOK
<1> QED BY <1>1, <1>5 DEF StoreInit, Numbered

\* What is changed by an operation that begins.
LEMMA BeginTyped ==
    ASSUME Numbered, NEW op \in OpUpTo(opCount + 1), Begin(op),
           storage' \in [ItemKey -> 0..(opCount + 1)], apart' \in SUBSET ItemKey
    PROVE  Numbered'
<1>1. /\ opCount \in Nat /\ opCount' = opCount + 1 /\ opCount' \in 0..MaxOps
      /\ handling' = handling \cup {op}
      /\ UNCHANGED <<logVars, answered, gone, writeErrors, crashes>>
  BY StoreAssumption DEF Begin, Numbered, StoreTypeOK
<1>2. OpUpTo(opCount) \subseteq OpUpTo(opCount') /\ Seq(EventUpTo(opCount)) \subseteq Seq(EventUpTo(opCount'))
  BY <1>1, Longer
<1>3. handling' \in SUBSET OpUpTo(opCount') /\ handling' \in SUBSET Op
  BY <1>1, <1>2 DEF Numbered, OpUpTo
<1>4. /\ batch' \in Seq(EventUpTo(opCount')) /\ buffered' \in Seq(EventUpTo(opCount'))
      /\ lines' \in Seq(EventUpTo(opCount')) /\ oldLines' \in Seq(EventUpTo(opCount'))
  BY <1>1, <1>2 DEF Numbered, logVars
<1>5. lastHash' \in 0..opCount' /\ half' \in BOOLEAN /\ torn' \in BOOLEAN
  BY <1>1 DEF Numbered, StoreTypeOK, logVars
<1>6. /\ batch' \in Seq(LogEvent) /\ buffered' \in Seq(LogEvent)
      /\ lines' \in Seq(LogEvent) /\ oldLines' \in Seq(LogEvent)
  BY <1>1 DEF Numbered, StoreTypeOK, logVars
<1>7. /\ answered' \in SUBSET OpId /\ gone' \in SUBSET OpId
      /\ writeErrors' \in 0..MaxWriteErrors /\ crashes' \in 0..MaxCrashes
  BY <1>1 DEF Numbered, StoreTypeOK
<1>8. storage' \in [ItemKey -> 0..opCount']
  BY <1>1
<1> QED BY <1>1, <1>3, <1>4, <1>5, <1>6, <1>7, <1>8 DEF Numbered, StoreTypeOK

\* The operations that begin are typed.
LEMMA NewOpTyped ==
    ASSUME Numbered, opCount < MaxOps, NEW kind \in {"Created", "Updated", "Deleted"},
           NEW k \in ItemKey, NEW v \in 1..(opCount + 1), NEW stage \in {"found", "stored"}
    PROVE  /\ NewOp(kind, k, v, stage) \in OpUpTo(opCount + 1)
           /\ NewOp(kind, k, v, stage).key = k /\ NewOp(kind, k, v, stage).id = opCount + 1
<1>1. opCount + 1 \in OpId /\ v \in OpId /\ opCount \in Nat
  BY StoreAssumption DEF Numbered, StoreTypeOK, OpId
<1> QED BY <1>1 DEF NewOp, OpUpTo, Op

LEMMA ChangeTyped ==
    ASSUME Numbered, NEW op, op.key \in ItemKey, NEW n \in Nat, opCount <= n, NEW v \in 0..n,
           Change(op, v)
    PROVE  storage' \in [ItemKey -> 0..n] /\ apart' \in SUBSET ItemKey
<1>1. storage \in [ItemKey -> 0..n]
  BY StoreAssumption DEF Numbered, StoreTypeOK
<1>2. storage' \in [ItemKey -> 0..n]
  BY <1>1 DEF Change
<1> QED BY <1>2 DEF Change, Numbered, StoreTypeOK

LEMMA NumberedNext == ASSUME Numbered, [StoreNext]_storeVars PROVE Numbered'
<1>0. /\ opCount \in Nat /\ opCount \in 0..MaxOps /\ storage \in [ItemKey -> 0..opCount]
      /\ MaxOps \in Nat /\ MaxCrashes \in Nat
      /\ \A op \in handling : op \in OpUpTo(opCount) /\ op.key \in ItemKey /\ op.id \in 1..opCount
  BY StoreAssumption DEF Numbered, StoreTypeOK, OpUpTo, Op, OpId
<1>1. ASSUME NEW k \in ItemKey, CreateItem(k) PROVE Numbered'
  <2> DEFINE op == NewOp("Created", k, opCount + 1, "stored")
  <2>1. Begin(op) /\ Change(op, op.id) /\ opCount < MaxOps
    BY <1>1 DEF CreateItem, Begin
  <2>2. op \in OpUpTo(opCount + 1) /\ op.key = k /\ op.id = opCount + 1
    BY <1>0, <2>1, NewOpTyped
  <2> HIDE DEF op
  <2> QED BY <1>0, <2>1, <2>2, ChangeTyped, BeginTyped
<1>2. ASSUME NEW k \in ItemKey, UpdateItem(k) PROVE Numbered'
  <2> DEFINE op == NewOp("Updated", k, opCount + 1, "stored")
  <2>1. Begin(op) /\ Change(op, op.id) /\ opCount < MaxOps
    BY <1>2 DEF UpdateItem, Begin
  <2>2. op \in OpUpTo(opCount + 1) /\ op.key = k /\ op.id = opCount + 1
    BY <1>0, <2>1, NewOpTyped
  <2> HIDE DEF op
  <2> QED BY <1>0, <2>1, <2>2, ChangeTyped, BeginTyped
<1>3. ASSUME NEW k \in ItemKey, DeleteItem(k) PROVE Numbered'
  <2> DEFINE op == NewOp("Deleted", k, storage[k], "stored")
  <2>1. Begin(op) /\ Change(op, Absent) /\ opCount < MaxOps /\ storage[k] # Absent
    BY <1>3 DEF DeleteItem, Begin
  <2>2. storage[k] \in 1..(opCount + 1)
    BY <1>0, <2>1 DEF Absent
  <2>3. op \in OpUpTo(opCount + 1) /\ op.key = k
    BY <1>0, <2>1, <2>2, NewOpTyped
  <2>4. Absent \in 0..(opCount + 1)
    BY <1>0 DEF Absent
  <2> HIDE DEF op
  <2> QED BY <1>0, <2>1, <2>3, <2>4, ChangeTyped, BeginTyped
<1>4. ASSUME NEW k \in ItemKey, FindItem(k) PROVE Numbered'
  <2> DEFINE op == NewOp("Updated", k, opCount + 1, "found")
  <2>1. Begin(op) /\ UNCHANGED <<storage, apart>> /\ opCount < MaxOps
    BY <1>4 DEF FindItem, Begin
  <2>2. op \in OpUpTo(opCount + 1)
    BY <1>0, <2>1, NewOpTyped
  <2>3. storage' \in [ItemKey -> 0..(opCount + 1)] /\ apart' \in SUBSET ItemKey
    BY <1>0, <2>1 DEF Numbered, StoreTypeOK
  <2> HIDE DEF op
  <2> QED BY <2>1, <2>2, <2>3, BeginTyped
<1>5. ASSUME NEW op \in handling, OverwriteItem(op) PROVE Numbered'
  <2>1. storage' \in [ItemKey -> 0..opCount] /\ apart' \in SUBSET ItemKey
    BY <1>0, <1>5, ChangeTyped DEF OverwriteItem
  <2>2. [op EXCEPT !.stage = "stored"] \in OpUpTo(opCount)
    BY <1>0 DEF OpUpTo, Op
  <2>3. handling' \in SUBSET OpUpTo(opCount) /\ handling' \in SUBSET Op
    BY <1>5, <2>2 DEF OverwriteItem, Numbered, OpUpTo
  <2>4. UNCHANGED <<opCount, logVars, answered, gone, writeErrors, crashes>>
    BY <1>5 DEF OverwriteItem
  <2> QED BY <2>1, <2>3, <2>4 DEF Numbered, StoreTypeOK, logVars
<1>6. ASSUME NEW op \in handling, Abandon(op) PROVE Numbered'
  <2>1. /\ handling' \in SUBSET OpUpTo(opCount) /\ handling' \in SUBSET Op
        /\ apart' \in SUBSET ItemKey
    BY <1>0, <1>6 DEF Abandon, Numbered, StoreTypeOK
  <2> QED BY <1>6, <2>1 DEF Abandon, Numbered, StoreTypeOK, logVars
<1>7. ASSUME NEW op \in handling, PersistEvent(op) PROVE Numbered'
  <2> DEFINE e == [id |-> op.id, prev |-> lastHash, kind |-> op.kind, key |-> op.key,
                   val |-> op.val]
  <2>1. e \in EventUpTo(opCount) /\ e.id = op.id
    BY EventOf
  <2>2. /\ FlushWorks(Append(batch, e)) \/ FlushFails(Append(batch, e))
        /\ handling' = handling \ {op} /\ lastHash' = e.id
        /\ answered' \in {answered, answered \cup {op.id}}
        /\ UNCHANGED <<storage, opCount, crashes>>
    BY <1>7 DEF PersistEvent
  <2>3. Append(batch, e) \in Seq(EventUpTo(opCount))
    BY <2>1 DEF Numbered
  <2> HIDE DEF e
  <2>4. LogTyped(opCount)
    BY <2>2, <2>3, FlushTyped
  <2>5. /\ batch' \in Seq(LogEvent) /\ buffered' \in Seq(LogEvent)
        /\ lines' \in Seq(LogEvent) /\ oldLines' \in Seq(LogEvent)
    BY <1>0, <2>4, EventsAreTyped DEF LogTyped
  <2>6. lastHash' \in 0..opCount /\ answered' \in SUBSET OpId
    BY <1>0, <2>1, <2>2 DEF Numbered, StoreTypeOK, OpId
  <2> QED BY <2>2, <2>4, <2>5, <2>6 DEF LogTyped, Numbered, StoreTypeOK
<1>8. CASE FlushTick
  <2>1. /\ FlushWorks(batch) \/ FlushFails(batch)
        /\ UNCHANGED <<memoryVars, lastHash, answered, crashes>>
    BY <1>8 DEF FlushTick
  <2>2. LogTyped(opCount)
    BY <2>1, FlushTyped DEF Numbered
  <2>3. /\ batch' \in Seq(LogEvent) /\ buffered' \in Seq(LogEvent)
        /\ lines' \in Seq(LogEvent) /\ oldLines' \in Seq(LogEvent)
    BY <1>0, <2>2, EventsAreTyped DEF LogTyped
  <2> QED BY <2>1, <2>2, <2>3 DEF LogTyped, Numbered, StoreTypeOK, memoryVars
<1>9. CASE CrashAndReplay
  <2>1. ReadAll \in Seq(EventUpTo(opCount))
    BY IdsConcat DEF Numbered, ReadAll
  <2>2. storage' \in [ItemKey -> 0..opCount]
    BY <1>0, <1>9, <2>1, ReplayTyped DEF CrashAndReplay
  <2>3. lastHash' \in 0..opCount
    <3>1. CASE ReadAll = <<>>
      BY <1>0, <1>9, <3>1 DEF CrashAndReplay, Absent
    <3>2. CASE ReadAll # <<>>
      <4>1. ReadAll[Len(ReadAll)] \in EventUpTo(opCount)
        BY <2>1, <3>2
      <4> QED BY <1>9, <3>2, <4>1 DEF CrashAndReplay, EventUpTo, LogEvent, OpId
    <3> QED BY <3>1, <3>2
  <2>4. /\ handling' = {} /\ batch' = <<>> /\ buffered' = <<>> /\ half' = FALSE
        /\ torn' \in BOOLEAN /\ apart' = {} /\ crashes < MaxCrashes /\ crashes' = crashes + 1
        /\ UNCHANGED <<opCount, lines, oldLines, answered, gone, writeErrors>>
    BY <1>9 DEF CrashAndReplay
  <2>5. crashes' \in 0..MaxCrashes
    BY <1>0, <2>4 DEF Numbered, StoreTypeOK
  <2>6. /\ batch' \in Seq(EventUpTo(opCount)) /\ buffered' \in Seq(EventUpTo(opCount))
        /\ batch' \in Seq(LogEvent) /\ buffered' \in Seq(LogEvent)
    BY <2>4
  <2>7. StoreTypeOK'
    BY <2>2, <2>3, <2>4, <2>5, <2>6 DEF Numbered, StoreTypeOK
  <2> QED BY <2>4, <2>6, <2>7 DEF Numbered
<1>10. CASE UNCHANGED storeVars
  BY <1>10 DEF storeVars, memoryVars, logVars, Numbered, StoreTypeOK
<1> QED BY <1>1, <1>2, <1>3, <1>4, <1>5, <1>6, <1>7, <1>8, <1>9, <1>10 DEF StoreNext

LEMMA AlwaysNumbered == StoreSpec => []Numbered
<1>1. StoreInit => Numbered
  BY NumberedInit
<1>2. Numbered /\ [StoreNext]_storeVars => Numbered'
  BY NumberedNext
<1> QED BY <1>1, <1>2, PTL DEF StoreSpec

\* Every reachable state has the types, and no item, event or hash is of an
\* operation yet to come.
THEOREM StoreTypeCorrect == StoreSpec => []StoreTypeOK
<1>1. Numbered => StoreTypeOK
  BY DEF Numbered
<1> QED BY <1>1, AlwaysNumbered, PTL

----------------------------------------------------------------------------
(* Confirmed operations stay readable. *)

\* A flush loses nothing without telling: what could be read, and what was gone,
\* still is one of the two; after one that works, so is all that was pending.
LEMMA NothingVanishes ==
    ASSUME Numbered, NEW newBatch \in Seq(EventUpTo(opCount)),
           FlushWorks(newBatch) \/ FlushFails(newBatch)
    PROVE  /\ Ids(ReadAll) \cup gone \subseteq (Ids(ReadAll) \cup gone)'
           /\ FlushWorks(newBatch) => Ids(newBatch) \subseteq (Ids(ReadAll) \cup gone)'
<1> DEFINE E == EventUpTo(opCount)
           pending == buffered \o newBatch
<1>0. /\ opCount \in Nat /\ buffered \in Seq(E) /\ lines \in Seq(E) /\ oldLines \in Seq(E)
      /\ pending \in Seq(E) /\ Ids(pending) = Ids(buffered) \cup Ids(newBatch)
      /\ lines' \in Seq(E) /\ oldLines' \in Seq(E)
  BY StoreAssumption, FlushTyped, IdsConcat DEF Numbered, StoreTypeOK, LogTyped
<1>1. /\ Ids(ReadAll) = Ids(oldLines) \cup Ids(lines)
      /\ Ids(ReadAll)' = Ids(oldLines') \cup Ids(lines')
  <2>1. ReadAll = oldLines \o lines /\ ReadAll' = oldLines' \o lines'
    BY DEF ReadAll
  <2>2. /\ Ids(oldLines \o lines) = Ids(oldLines) \cup Ids(lines)
        /\ Ids(oldLines' \o lines') = Ids(oldLines') \cup Ids(lines')
    BY <1>0, IdsConcat
  <2> QED BY <2>1, <2>2
<1>2. CASE FlushWorks(newBatch)
  <2> DEFINE disk == lines \o Reaches(pending, Len(pending))
             glued == Glued(pending, Len(pending))
  <2>1. Ids(lines) \cup Ids(pending) \subseteq Ids(disk) \cup glued
    <3>1. /\ Reaches(pending, Len(pending)) \in Seq(E)
          /\ Ids(pending) \subseteq Ids(Reaches(pending, Len(pending))) \cup glued
      BY <1>0, AllReach
    <3>2. Ids(disk) = Ids(lines) \cup Ids(Reaches(pending, Len(pending)))
      BY <1>0, <3>1, IdsConcat
    <3> QED BY <3>1, <3>2
  <2>2. /\ \/ Rotates(disk) /\ lines' = <<>> /\ oldLines' = disk
              /\ gone' = (gone \cup Ids(oldLines) \cup glued) \ (Ids(lines') \cup Ids(oldLines'))
           \/ ~Rotates(disk) /\ lines' = disk /\ oldLines' = oldLines
              /\ gone' = (gone \cup glued) \ (Ids(lines') \cup Ids(oldLines'))
    BY <1>2 DEF FlushWorks
  <2> HIDE DEF disk, glued, pending
  <2> QED BY <1>0, <1>1, <2>1, <2>2
<1>3. CASE FlushFails(newBatch) /\ ~FlushWorks(newBatch)
  <2>1. PICK n \in 0..Len(pending) :
          /\ lines' = lines \o Reaches(pending, n)
          /\ gone' = (gone \cup Glued(pending, n)) \ Ids(lines')
    BY <1>3 DEF FlushFails
  <2>2. Ids(lines) \subseteq Ids(lines')
    BY <1>0, <2>1, SomeReach, IdsConcat
  <2>3. oldLines' = oldLines
    BY <1>3 DEF FlushFails
  <2> QED BY <1>1, <1>3, <2>1, <2>2, <2>3
<1> QED BY <1>2, <1>3

LEMMA ConfirmedNext ==
    ASSUME Numbered, ConfirmedIsLogged, [StoreNext]_storeVars
    PROVE  ConfirmedIsLogged'
<1>1. CASE UNCHANGED <<lines, oldLines, gone, answered>>
  BY <1>1 DEF ConfirmedIsLogged, ReadAll, Ids
<1>2. ASSUME NEW k \in ItemKey, CreateItem(k) \/ UpdateItem(k) \/ DeleteItem(k) \/ FindItem(k)
      PROVE  ConfirmedIsLogged'
  BY <1>1, <1>2 DEF CreateItem, UpdateItem, DeleteItem, FindItem, Begin, logVars
<1>3. ASSUME NEW op \in handling, OverwriteItem(op) \/ Abandon(op) PROVE ConfirmedIsLogged'
  BY <1>1, <1>3 DEF OverwriteItem, Abandon, logVars
<1>4. ASSUME NEW op \in handling, PersistEvent(op) PROVE ConfirmedIsLogged'
  <2> DEFINE e == [id |-> op.id, prev |-> lastHash, kind |-> op.kind, key |-> op.key,
                   val |-> op.val]
             newBatch == Append(batch, e)
  <2>1. e \in EventUpTo(opCount) /\ e.id = op.id
    BY EventOf
  <2>2. \/ FlushWorks(newBatch) /\ answered' = answered \cup {op.id}
        \/ FlushFails(newBatch) /\ UNCHANGED answered
    BY <1>4 DEF PersistEvent
  <2> HIDE DEF e
  <2>3. newBatch \in Seq(EventUpTo(opCount))
    BY <2>1 DEF Numbered
  <2>4. op.id \in Ids(newBatch)
    <3>1. Len(newBatch) \in DOMAIN newBatch /\ newBatch[Len(newBatch)] = e
      BY <2>1 DEF Numbered
    <3> QED BY <2>1, <3>1 DEF Ids
  <2> HIDE DEF newBatch
  <2> QED BY <2>2, <2>3, <2>4, NothingVanishes DEF ConfirmedIsLogged
<1>5. CASE FlushTick
  <2>1. /\ FlushWorks(batch) \/ FlushFails(batch)
        /\ answered' = answered
    BY <1>5 DEF FlushTick
  <2> QED BY <2>1, NothingVanishes DEF ConfirmedIsLogged, Numbered
<1>6. CASE CrashAndReplay \/ UNCHANGED storeVars
  BY <1>1, <1>6 DEF CrashAndReplay, storeVars, logVars
<1> QED BY <1>2, <1>3, <1>4, <1>5, <1>6 DEF StoreNext

\* An operation that was answered with success is in the log, unless its line
\* was glued to a torn one or rotated away.
THEOREM ConfirmedStays == StoreSpec => []ConfirmedIsLogged
<1>1. StoreInit => ConfirmedIsLogged
  BY DEF StoreInit, ConfirmedIsLogged
<1>2. Numbered /\ ConfirmedIsLogged /\ [StoreNext]_storeVars => ConfirmedIsLogged'
  BY ConfirmedNext
<1> QED BY <1>1, <1>2, AlwaysNumbered, PTL DEF StoreSpec

----------------------------------------------------------------------------
(* The hash chain. *)

Chained(s) == \A i \in 2..Len(s) : s[i].prev = s[i - 1].id

\* As long as no flush failed, nothing waits between two operations, the last
\* line is whole, and last_event_hash is the one of the last line.
ChainEnds ==
    writeErrors = 0 =>
        /\ batch = <<>> /\ buffered = <<>> /\ ~half /\ ~torn
        /\ Chained(ReadAll)
        /\ ReadAll # <<>> => lastHash = ReadAll[Len(ReadAll)].id

\* One more event at the end.
LEMMA ChainGrows ==
    ASSUME NEW S, NEW s \in Seq(S), NEW e \in S, Chained(s),
           s # <<>> => e.prev = s[Len(s)].id
    PROVE  LET t == s \o <<e>> IN Chained(t) /\ t # <<>> /\ t[Len(t)] = e
<1> DEFINE t == s \o <<e>>
<1>1. /\ Len(t) = Len(s) + 1 /\ t[Len(s) + 1] = e
      /\ \A i \in 1..Len(s) : t[i] = s[i]
  OBVIOUS
<1>2. ASSUME NEW i \in 2..Len(t) PROVE t[i].prev = t[i - 1].id
  <2>1. CASE i <= Len(s)
    BY <1>1, <2>1 DEF Chained
  <2>2. CASE i = Len(s) + 1
    BY <1>1, <2>2
  <2> QED BY <1>1, <2>1, <2>2
<1> QED BY <1>1, <1>2 DEF Chained

\* The end of a chain is a chain.
LEMMA ChainSuffix ==
    ASSUME NEW S, NEW a \in Seq(S), NEW b \in Seq(S), Chained(a \o b)
    PROVE  Chained(b) /\ (b # <<>> => a \o b # <<>> /\ (a \o b)[Len(a \o b)] = b[Len(b)])
<1>1. /\ Len(a \o b) = Len(a) + Len(b) /\ Len(a) \in Nat
      /\ \A i \in 1..Len(b) : (a \o b)[Len(a) + i] = b[i]
  OBVIOUS
<1>2. ASSUME NEW i \in 2..Len(b) PROVE b[i].prev = b[i - 1].id
  <2> DEFINE c == a \o b
             n == Len(a) + i
  <2>1. n \in 2..Len(c) /\ n - 1 = Len(a) + (i - 1) /\ i \in 1..Len(b) /\ i - 1 \in 1..Len(b)
    BY <1>1
  <2>2. c[n] = b[i] /\ c[Len(a) + (i - 1)] = b[i - 1]
    BY <1>1, <2>1
  <2>3. \A j \in 2..Len(c) : c[j].prev = c[j - 1].id
    BY DEF Chained
  <2> HIDE DEF c, n
  <2> QED BY <2>1, <2>2, <2>3
<1>3. b # <<>> => Len(b) \in 1..Len(b)
  OBVIOUS
<1> QED BY <1>1, <1>2, <1>3 DEF Chained

\* An operation's event is flushed.
LEMMA ChainFlush ==
    ASSUME Numbered, ChainEnds, writeErrors = 0, NEW e \in EventUpTo(opCount),
           e.prev = lastHash, lastHash' = e.id, FlushWorks(Append(batch, e))
    PROVE  ChainEnds'
<1> DEFINE E == EventUpTo(opCount)
<1>1. lines \in Seq(E) /\ oldLines \in Seq(E) /\ ReadAll \in Seq(E)
  BY IdsConcat DEF Numbered, ReadAll
<1>2. /\ batch = <<>> /\ buffered = <<>> /\ ~torn
      /\ Chained(ReadAll) /\ (ReadAll # <<>> => e.prev = ReadAll[Len(ReadAll)].id)
  BY DEF ChainEnds
<1>3. buffered \o Append(batch, e) = <<e>>
  <2>1. Append(<<>>, e) = <<e>> /\ <<>> \o <<e>> = <<e>>
    OBVIOUS
  <2> QED BY <1>2, <2>1
<1>4. Reaches(<<e>>, Len(<<e>>)) = <<e>>
  <2>1. Reaches(<<e>>, Len(<<e>>)) = SubSeq(<<e>>, 1, Len(<<e>>))
    BY <1>2 DEF Reaches
  <2>2. \A s \in Seq(E) : SubSeq(s, 1, Len(s)) = s
    OBVIOUS
  <2>3. <<e>> \in Seq(E)
    OBVIOUS
  <2> QED BY <2>1, <2>2, <2>3
<1>5. /\ batch' = <<>> /\ buffered' = <<>> /\ ~half' /\ ~torn'
      /\ \/ lines' = <<>> /\ oldLines' = lines \o <<e>>
         \/ lines' = lines \o <<e>> /\ oldLines' = oldLines
  BY <1>2, <1>3, <1>4 DEF FlushWorks
<1> DEFINE t == ReadAll \o <<e>>
<1>6. Chained(t) /\ t # <<>> /\ t[Len(t)] = e
  BY <1>1, <1>2, ChainGrows
<1>7. t = oldLines \o (lines \o <<e>>)
  <2>1. <<e>> \in Seq(E)
    OBVIOUS
  <2> QED BY <1>1, <2>1, ConcatAssociative DEF ReadAll
<1>8. ReadAll' = t \/ ReadAll' = lines \o <<e>>
  <2>1. lines \o <<e>> \in Seq(E) /\ ReadAll' = oldLines' \o lines'
    BY <1>1 DEF ReadAll
  <2> QED BY <1>5, <1>7, <2>1, ConcatEmptySeq
<1>9. LET f == lines \o <<e>> IN Chained(f) /\ f # <<>> /\ f[Len(f)] = e
  <2>1. lines \o <<e>> \in Seq(E) /\ lines \o <<e>> # <<>>
    BY <1>1
  <2> DEFINE f == lines \o <<e>>
  <2>2. Chained(oldLines \o f) /\ (oldLines \o f)[Len(oldLines \o f)] = e
    BY <1>6, <1>7
  <2> HIDE DEF f
  <2>3. Chained(f) /\ (f # <<>> => (oldLines \o f)[Len(oldLines \o f)] = f[Len(f)])
    BY <1>1, <2>1, <2>2, ChainSuffix DEF f
  <2> QED BY <2>1, <2>2, <2>3 DEF f
<1>10. Chained(ReadAll') /\ (ReadAll' # <<>> => lastHash' = ReadAll'[Len(ReadAll')].id)
  BY <1>6, <1>8, <1>9
<1> QED BY <1>5, <1>10 DEF ChainEnds, Chained

LEMMA ChainNext ==
    ASSUME Numbered, ChainEnds, [StoreNext]_storeVars PROVE ChainEnds'
<1>0. MaxWriteErrors \in Nat /\ writeErrors \in Nat
  BY StoreAssumption DEF Numbered, StoreTypeOK
<1>1. CASE UNCHANGED <<logVars, writeErrors>>
  BY <1>1 DEF ChainEnds, Chained, ReadAll, logVars
<1>2. ASSUME NEW k \in ItemKey, CreateItem(k) \/ UpdateItem(k) \/ DeleteItem(k) \/ FindItem(k)
      PROVE  ChainEnds'
  BY <1>1, <1>2 DEF CreateItem, UpdateItem, DeleteItem, FindItem, Begin
<1>3. ASSUME NEW op \in handling, OverwriteItem(op) \/ Abandon(op) PROVE ChainEnds'
  BY <1>1, <1>3 DEF OverwriteItem, Abandon
<1>4. ASSUME NEW op \in handling, PersistEvent(op) PROVE ChainEnds'
  <2> DEFINE e == [id |-> op.id, prev |-> lastHash, kind |-> op.kind, key |-> op.key,
                   val |-> op.val]
  <2>1. e \in EventUpTo(opCount) /\ e.prev = lastHash
    BY EventOf
  <2>2. /\ lastHash' = e.id
        /\ \/ FlushWorks(Append(batch, e))
           \/ FlushFails(Append(batch, e))
    BY <1>4 DEF PersistEvent
  <2> HIDE DEF e
  <2>3. CASE FlushFails(Append(batch, e))
    BY <1>0, <2>3 DEF FlushFails, ChainEnds
  <2>4. CASE FlushWorks(Append(batch, e))
    <3>1. writeErrors' = writeErrors
      BY <2>4 DEF FlushWorks
    <3> QED BY <2>1, <2>2, <2>4, <3>1, ChainFlush DEF ChainEnds
  <2> QED BY <2>2, <2>3, <2>4
<1>5. CASE FlushTick
  <2>1. CASE FlushFails(batch)
    BY <1>0, <2>1 DEF FlushFails, ChainEnds
  <2>2. CASE FlushWorks(batch)
    BY <1>5, <2>2 DEF FlushTick, FlushWorks, ChainEnds
  <2> QED BY <1>5, <2>1, <2>2 DEF FlushTick
<1>6. CASE CrashAndReplay
  <2>1. /\ batch' = <<>> /\ buffered' = <<>> /\ half' = FALSE /\ torn' = (torn \/ half)
        /\ lastHash' = IF ReadAll = <<>> THEN Absent ELSE ReadAll[Len(ReadAll)].id
        /\ UNCHANGED <<lines, oldLines, writeErrors>>
    BY <1>6 DEF CrashAndReplay
  <2>2. ReadAll' = ReadAll
    BY <2>1 DEF ReadAll
  <2> QED BY <2>1, <2>2 DEF ChainEnds, Chained
<1>7. CASE UNCHANGED storeVars
  BY <1>1, <1>7 DEF storeVars
<1> QED BY <1>2, <1>3, <1>4, <1>5, <1>6, <1>7 DEF StoreNext

\* As long as no flush failed, every readable event is linked to the one before.
THEOREM ChainUnbroken == StoreSpec => []ChainHolds
<1>1. StoreInit => ChainEnds
  BY DEF StoreInit, ChainEnds, Chained, ReadAll
<1>2. Numbered /\ ChainEnds /\ [StoreNext]_storeVars => ChainEnds'
  BY ChainNext
<1>3. ChainEnds => ChainHolds
  BY DEF ChainEnds, Chained, ChainHolds
<1> QED BY <1>1, <1>2, <1>3, AlwaysNumbered, PTL DEF StoreSpec

----------------------------------------------------------------------------
(* The log and the memory. *)

EventsIn(s) == {s[i] : i \in DOMAIN s}
Readable == EventsIn(oldLines) \cup EventsIn(lines)
Logged == Readable \cup EventsIn(batch) \cup EventsIn(buffered)

\* An operation has one event, however often its line is written, and one that
\* is under way has none yet.
OneEventPerOp ==
    /\ \A e, f \in Logged : e.id = f.id => e.key = f.key
    /\ \A op \in handling, e \in Logged : op.id # e.id
    /\ \A op, q \in handling : op.id = q.id => op = q
    /\ \A op \in handling : op.stage = "found" => op.val = op.id

\* What a failed flush left in the BufWriter is still in the batch, too.
KeptInBatch == EventsIn(buffered) \subseteq EventsIn(batch)

\* Nothing that waits is in the file already, as long as the file ends in half a
\* line: no line was written since the crash.
TornIsFresh == torn => \A e \in EventsIn(batch), f \in Readable : e.id # f.id

\* The last event of the entry k in a log tells the value v.
Matches(v, e) == v = e.val \/ (e.kind = "Deleted" /\ v = Absent)
Tells(k, s, v) ==
    \/ ~TellsOf(k, s) /\ v = Absent
    \/ \E i \in DOMAIN s : IsLast(i, k, s) /\ Matches(v, s[i])

\* An item whose memory and log did not go separate ways has at most one change
\* whose event is still to come, and this one is in memory; without one the last
\* event in the batch, or else in the file, is.
StoredOp(op, k) == op.key = k /\ op.stage = "stored"
MemoryTold ==
    \A k \in ItemKey \ apart :
        /\ \A op, q \in handling : StoredOp(op, k) /\ StoredOp(q, k) => op = q
        /\ \A op \in handling : StoredOp(op, k) => Matches(storage[k], op)
        /\ (\A op \in handling : ~StoredOp(op, k)) =>
             Tells(k, IF TellsOf(k, batch) THEN batch ELSE ReadAll, storage[k])

MemoryInv == OneEventPerOp /\ KeptInBatch /\ TornIsFresh /\ MemoryTold

LEMMA EventsConcat ==
    ASSUME NEW S, NEW a \in Seq(S), NEW b \in Seq(S)
    PROVE  EventsIn(a \o b) = EventsIn(a) \cup EventsIn(b)
<1>1. /\ DOMAIN (a \o b) = 1..(Len(a) + Len(b)) /\ DOMAIN a = 1..Len(a) /\ DOMAIN b = 1..Len(b)
      /\ \A i \in 1..Len(a) : (a \o b)[i] = a[i]
      /\ \A i \in 1..Len(b) : (a \o b)[Len(a) + i] = b[i]
      /\ Len(a) \in Nat /\ Len(b) \in Nat
  OBVIOUS
<1> DEFINE c == a \o b
<1> HIDE DEF c
<1>2. ASSUME NEW i \in 1..(Len(a) + Len(b)) PROVE c[i] \in EventsIn(a) \cup EventsIn(b)
  <2>1. CASE i <= Len(a)
    BY <1>1, <2>1 DEF EventsIn, c
  <2>2. CASE i > Len(a)
    <3>1. i - Len(a) \in 1..Len(b) /\ Len(a) + (i - Len(a)) = i
      BY <1>1, <2>2
    <3>2. c[i] = b[i - Len(a)]
      BY <1>1, <3>1 DEF c
    <3> QED BY <1>1, <3>1, <3>2 DEF EventsIn
  <2> QED BY <1>1, <2>1, <2>2
<1>3. ASSUME NEW i \in 1..Len(a) PROVE a[i] \in EventsIn(c)
  BY <1>1, <1>3 DEF EventsIn, c
<1>4. ASSUME NEW i \in 1..Len(b) PROVE b[i] \in EventsIn(c)
  <2>1. Len(a) + i \in DOMAIN c /\ c[Len(a) + i] = b[i]
    BY <1>1 DEF c
  <2> QED BY <2>1 DEF EventsIn
<1>5. EventsIn(c) \subseteq EventsIn(a) \cup EventsIn(b)
  BY <1>1, <1>2 DEF EventsIn, c
<1>6. EventsIn(a) \subseteq EventsIn(c) /\ EventsIn(b) \subseteq EventsIn(c)
  BY <1>1, <1>3, <1>4 DEF EventsIn
<1> QED BY <1>5, <1>6 DEF c

LEMMA EventsOfPart ==
    ASSUME NEW S, NEW s \in Seq(S), NEW m \in Nat \ {0}, NEW n \in 0..Len(s)
    PROVE  EventsIn(SubSeq(s, m, n)) \subseteq EventsIn(s)
<1>1. \A i \in m..n : i \in DOMAIN s /\ s[i] \in S
  OBVIOUS
<1>2. /\ DOMAIN SubSeq(s, m, n) = 1..(IF m <= n THEN n - m + 1 ELSE 0)
      /\ \A i \in 1..(n - m + 1) : SubSeq(s, m, n)[i] = s[m + i - 1]
  BY <1>1, SubSeqProperties
<1>3. ASSUME NEW i \in DOMAIN SubSeq(s, m, n)
      PROVE  \E j \in DOMAIN s : SubSeq(s, m, n)[i] = s[j]
  <2>1. i \in 1..(n - m + 1) /\ m + i - 1 \in m..n
    BY <1>2
  <2> QED BY <1>1, <1>2, <2>1
<1> QED BY <1>3 DEF EventsIn

LEMMA EventsOfAppend ==
    ASSUME NEW S, NEW s \in Seq(S), NEW e \in S
    PROVE  EventsIn(Append(s, e)) = EventsIn(s) \cup {e}
<1>1. /\ DOMAIN Append(s, e) = 1..(Len(s) + 1) /\ DOMAIN s = 1..Len(s)
      /\ Append(s, e)[Len(s) + 1] = e
      /\ \A i \in 1..Len(s) : Append(s, e)[i] = s[i]
      /\ 1..(Len(s) + 1) = (1..Len(s)) \cup {Len(s) + 1}
  OBVIOUS
<1> QED BY <1>1 DEF EventsIn

\* The later of two logs decides, if it has anything to tell.
LEMMA TellsConcat ==
    ASSUME NEW S, NEW a \in Seq(S), NEW b \in Seq(S), NEW k, NEW v,
           Tells(k, IF TellsOf(k, b) THEN b ELSE a, v)
    PROVE  Tells(k, a \o b, v)
<1> DEFINE c == a \o b
<1>1. /\ DOMAIN c = 1..(Len(a) + Len(b)) /\ DOMAIN a = 1..Len(a) /\ DOMAIN b = 1..Len(b)
      /\ \A i \in 1..Len(a) : c[i] = a[i]
      /\ \A i \in 1..Len(b) : c[Len(a) + i] = b[i]
      /\ Len(a) \in Nat /\ Len(b) \in Nat
  OBVIOUS
<1>2. \A i \in DOMAIN c : \/ i \in DOMAIN a /\ c[i] = a[i]
                          \/ i - Len(a) \in DOMAIN b /\ c[i] = b[i - Len(a)]
  BY <1>1
<1> HIDE DEF c
<1>3. ASSUME NEW i \in DOMAIN b, IsLast(i, k, b), Matches(v, b[i]) PROVE Tells(k, c, v)
  <2>1. Len(a) + i \in DOMAIN c /\ c[Len(a) + i] = b[i]
    BY <1>1
  <2>2. ASSUME NEW j \in DOMAIN c, c[j].key = k PROVE j <= Len(a) + i
    <3>1. i \in Nat /\ j \in Nat
      BY <1>1, <2>2
    <3>2. CASE j \in DOMAIN a
      BY <1>1, <3>1, <3>2
    <3>3. CASE j - Len(a) \in DOMAIN b /\ c[j] = b[j - Len(a)]
      <4>1. j - Len(a) <= i
        BY <1>3, <2>2, <3>3 DEF IsLast
      <4> QED BY <1>1, <3>1, <4>1
    <3> QED BY <1>2, <2>2, <3>2, <3>3
  <2>3. IsLast(Len(a) + i, k, c)
    BY <1>3, <2>1, <2>2 DEF IsLast
  <2> QED BY <1>3, <2>1, <2>3 DEF Tells
<1>4. ASSUME NEW i \in DOMAIN a, IsLast(i, k, a), Matches(v, a[i]), ~TellsOf(k, b)
      PROVE  Tells(k, c, v)
  <2>1. i \in DOMAIN c /\ c[i] = a[i]
    BY <1>1
  <2>2. \A j \in DOMAIN c : c[j].key = k => j <= i
    BY <1>2, <1>4 DEF IsLast, TellsOf
  <2>3. IsLast(i, k, c)
    BY <1>4, <2>1, <2>2 DEF IsLast
  <2> QED BY <1>4, <2>1, <2>3 DEF Tells
<1>5. ASSUME ~TellsOf(k, a), ~TellsOf(k, b), v = Absent PROVE Tells(k, c, v)
  <2>1. ~TellsOf(k, c)
    BY <1>2, <1>5 DEF TellsOf
  <2> QED BY <1>5, <2>1 DEF Tells
<1> QED BY <1>3, <1>4, <1>5 DEF Tells, c

\* What two logs tell, the later one tells if it has an event, or if none has.
LEMMA TellsSuffix ==
    ASSUME NEW S, NEW a \in Seq(S), NEW b \in Seq(S), NEW k, NEW v, Tells(k, a \o b, v),
           TellsOf(k, a) => TellsOf(k, b)
    PROVE  Tells(k, b, v)
<1> DEFINE c == a \o b
<1>1. /\ DOMAIN c = 1..(Len(a) + Len(b)) /\ DOMAIN a = 1..Len(a) /\ DOMAIN b = 1..Len(b)
      /\ \A i \in 1..Len(a) : c[i] = a[i]
      /\ \A i \in 1..Len(b) : c[Len(a) + i] = b[i]
      /\ Len(a) \in Nat /\ Len(b) \in Nat
  OBVIOUS
<1>2. \A i \in DOMAIN c : \/ i \in DOMAIN a /\ c[i] = a[i]
                          \/ i - Len(a) \in DOMAIN b /\ c[i] = b[i - Len(a)]
  BY <1>1
<1>3. \A i \in DOMAIN b : Len(a) + i \in DOMAIN c /\ c[Len(a) + i] = b[i] /\ i \in Nat /\ i > 0
  BY <1>1
<1>4. Tells(k, c, v)
  OBVIOUS
<1> HIDE DEF c
<1>5. CASE ~TellsOf(k, c) /\ v = Absent
  <2>1. ~TellsOf(k, b)
    BY <1>3, <1>5 DEF TellsOf
  <2> QED BY <1>5, <2>1 DEF Tells
<1>6. ASSUME NEW i \in DOMAIN c, IsLast(i, k, c), Matches(v, c[i]) PROVE Tells(k, b, v)
  <2>1. TellsOf(k, b)
    BY <1>2, <1>6 DEF IsLast, TellsOf
  <2>2. PICK j \in DOMAIN b : b[j].key = k
    BY <2>1 DEF TellsOf
  <2>3. Len(a) + j <= i /\ i \in Nat
    BY <1>1, <1>3, <1>6, <2>2 DEF IsLast
  <2>4. i - Len(a) \in DOMAIN b /\ c[i] = b[i - Len(a)]
    BY <1>1, <1>2, <1>3, <2>2, <2>3
  <2>5. ASSUME NEW l \in DOMAIN b, b[l].key = k PROVE l <= i - Len(a)
    <3>1. Len(a) + l <= i
      BY <1>3, <1>6, <2>5 DEF IsLast
    <3> QED BY <1>1, <1>3, <2>3, <3>1
  <2>6. IsLast(i - Len(a), k, b)
    BY <1>6, <2>4, <2>5 DEF IsLast
  <2> QED BY <1>6, <2>4, <2>6 DEF Tells
<1> QED BY <1>4, <1>5, <1>6 DEF Tells

LEMMA TellsOfEvents ==
    ASSUME NEW k, NEW s
    PROVE  TellsOf(k, s) <=> \E e \in EventsIn(s) : e.key = k
  BY DEF TellsOf, EventsIn

LEMMA AppendTells ==
    ASSUME NEW S, NEW s \in Seq(S), NEW e \in S, NEW v, Matches(v, e)
    PROVE  TellsOf(e.key, Append(s, e)) /\ Tells(e.key, Append(s, e), v)
<1> DEFINE c == Append(s, e)
           n == Len(s) + 1
<1>1. n \in DOMAIN c /\ c[n] = e /\ \A i \in DOMAIN c : i <= n
  OBVIOUS
<1> HIDE DEF c, n
<1>2. IsLast(n, e.key, c)
  BY <1>1 DEF IsLast
<1>3. TellsOf(e.key, c) /\ Tells(e.key, c, v)
  BY <1>1, <1>2 DEF TellsOf, Tells
<1> QED BY <1>3 DEF c

LEMMA IdsOfEvents ==
    ASSUME NEW s
    PROVE  Ids(s) = {e.id : e \in EventsIn(s)}
  BY DEF Ids, EventsIn

LEMMA ReadableIs ==
    ASSUME Numbered
    PROVE  ReadAll \in Seq(EventUpTo(opCount)) /\ EventsIn(ReadAll) = Readable
  BY EventsConcat, IdsConcat DEF Numbered, ReadAll, Readable

LEMMA ReachEvents ==
    ASSUME NEW S, NEW pending \in Seq(S), NEW n \in 0..Len(pending)
    PROVE  /\ Reaches(pending, n) \in Seq(S)
           /\ EventsIn(Reaches(pending, n)) \subseteq EventsIn(pending)
<1>1. Reaches(pending, n) = SubSeq(pending, 2, n) \/ Reaches(pending, n) = SubSeq(pending, 1, n)
  BY DEF Reaches
<1>2. 1 \in Nat \ {0} /\ 2 \in Nat \ {0}
  OBVIOUS
<1> QED BY <1>1, <1>2, SomeReach, EventsOfPart

\* A batch that is about to be written: the one before, perhaps with an event of
\* an operation that had none.
Ready(newBatch) ==
    /\ newBatch \in Seq(EventUpTo(opCount))
    /\ EventsIn(batch) \subseteq EventsIn(newBatch)
    /\ \A e, f \in Readable \cup EventsIn(newBatch) : e.id = f.id => e.key = f.key
    /\ torn => \A e \in EventsIn(newBatch), f \in Readable : e.id # f.id

\* What is pending is the batch, some of it twice.
LEMMA PendingIsBatch ==
    ASSUME Numbered, KeptInBatch, NEW newBatch, Ready(newBatch)
    PROVE  /\ buffered \o newBatch \in Seq(EventUpTo(opCount))
           /\ EventsIn(buffered \o newBatch) = EventsIn(newBatch)
<1>1. buffered \in Seq(EventUpTo(opCount)) /\ newBatch \in Seq(EventUpTo(opCount))
  BY DEF Numbered, Ready
<1>2. EventsIn(buffered \o newBatch) = EventsIn(buffered) \cup EventsIn(newBatch)
  BY <1>1, EventsConcat
<1> QED BY <1>1, <1>2, IdsConcat DEF KeptInBatch, Ready

\* A flush writes lines of the batch, and keeps what it needs to write them again.
LEMMA FlushEvents ==
    ASSUME Numbered, KeptInBatch, NEW newBatch, Ready(newBatch),
           FlushWorks(newBatch) \/ FlushFails(newBatch)
    PROVE  /\ Logged' \subseteq Readable \cup EventsIn(newBatch)
           /\ KeptInBatch' /\ TornIsFresh'
<1> DEFINE E == EventUpTo(opCount)
           pending == buffered \o newBatch
<1>1. /\ pending \in Seq(E) /\ EventsIn(pending) = EventsIn(newBatch)
      /\ lines \in Seq(E) /\ oldLines \in Seq(E) /\ Len(pending) \in 0..Len(pending)
  BY PendingIsBatch DEF Numbered
<1>2. EventsIn(<<>>) = {}
  BY DEF EventsIn
<1> HIDE DEF pending
<1>3. CASE FlushWorks(newBatch)
  <2> DEFINE disk == lines \o Reaches(pending, Len(pending))
  <2>1. /\ batch' = <<>> /\ buffered' = <<>>
        /\ lines' \in {<<>>, disk} /\ oldLines' \in {oldLines, disk}
    BY <1>3 DEF FlushWorks, pending
  <2>2. EventsIn(disk) \subseteq EventsIn(lines) \cup EventsIn(newBatch)
    BY <1>1, ReachEvents, EventsConcat
  <2> HIDE DEF disk
  <2>3. EventsIn(lines') \cup EventsIn(oldLines') \subseteq Readable \cup EventsIn(newBatch)
    BY <1>2, <2>1, <2>2 DEF Readable
  <2> QED BY <1>2, <2>1, <2>3 DEF Logged, Readable, KeptInBatch, TornIsFresh
<1>4. CASE FlushFails(newBatch)
  <2>1. PICK n \in 0..Len(pending) :
          /\ lines' = lines \o Reaches(pending, n)
          /\ buffered' = SubSeq(pending, n + 1, Len(pending))
          /\ torn' = (torn /\ n = 0)
    BY <1>4 DEF FlushFails, pending
  <2>2. batch' = newBatch /\ oldLines' = oldLines
    BY <1>4 DEF FlushFails
  <2>3. EventsIn(buffered') \subseteq EventsIn(newBatch)
    <3>1. n + 1 \in Nat \ {0}
      OBVIOUS
    <3> QED BY <1>1, <2>1, <3>1, EventsOfPart
  <2>4. EventsIn(lines') \subseteq EventsIn(lines) \cup EventsIn(newBatch)
    BY <1>1, <2>1, ReachEvents, EventsConcat
  <2>5. torn' => torn /\ lines' = lines
    <3>1. ASSUME torn' PROVE lines' = lines
      <4>1. Reaches(pending, 0) = SubSeq(pending, 1, 0)
        BY DEF Reaches
      <4>2. SubSeq(pending, 1, 0) = <<>> /\ lines \o <<>> = lines
        BY <1>1
      <4> QED BY <2>1, <3>1, <4>1, <4>2
    <3> QED BY <2>1, <3>1
  <2>6. KeptInBatch'
    BY <2>2, <2>3 DEF KeptInBatch
  <2>7. TornIsFresh'
    BY <2>2, <2>5 DEF TornIsFresh, Ready, Readable
  <2> QED BY <2>2, <2>3, <2>4, <2>6, <2>7 DEF Logged, Readable
<1> QED BY <1>3, <1>4

\* What the batch, or else the file, tells of an item, they tell after the flush,
\* unless the item is found to be apart.
LEMMA FlushTells ==
    ASSUME Numbered, KeptInBatch, NEW newBatch, Ready(newBatch),
           FlushWorks(newBatch) \/ FlushFails(newBatch),
           NEW k \in ItemKey, k \notin apart', NEW v,
           Tells(k, IF TellsOf(k, newBatch) THEN newBatch ELSE ReadAll, v)
    PROVE  Tells(k, IF TellsOf(k, batch') THEN batch' ELSE ReadAll', v)
<1> DEFINE E == EventUpTo(opCount)
           pending == buffered \o newBatch
<1>1. /\ pending \in Seq(E) /\ EventsIn(pending) = EventsIn(newBatch)
      /\ lines \in Seq(E) /\ oldLines \in Seq(E) /\ newBatch \in Seq(E) /\ buffered \in Seq(E)
      /\ ReadAll \in Seq(E) /\ EventsIn(ReadAll) = Readable
  BY PendingIsBatch, ReadableIs DEF Numbered, Ready
<1>2. ASSUME NEW r \in Seq(E)
      PROVE  oldLines \o (lines \o r) = ReadAll \o r
  <2>1. \A a, b \in Seq(E) : (a \o b) \o r = a \o (b \o r)
    <3> HIDE DEF E
    <3> QED BY ConcatAssociative
  <2>2. oldLines \o (lines \o r) = (oldLines \o lines) \o r
    <3> HIDE DEF E
    <3> QED BY <1>1, <2>1, Zenon
  <2> QED BY <2>2 DEF ReadAll
<1>3. ASSUME NEW r \in Seq(E), EventsIn(r) \subseteq EventsIn(newBatch), ~TellsOf(k, newBatch)
      PROVE  Tells(k, oldLines \o (lines \o r), v)
  <2>1. ~TellsOf(k, r)
    BY <1>3, TellsOfEvents
  <2>2. Tells(k, ReadAll \o r, v)
    BY <1>1, <1>3, <2>1, TellsConcat
  <2> QED BY <1>2, <2>2
<1>4. CASE FlushFails(newBatch)
  <2>1. PICK n \in 0..Len(pending) : lines' = lines \o Reaches(pending, n)
    BY <1>4 DEF FlushFails
  <2>2. batch' = newBatch /\ oldLines' = oldLines
    BY <1>4 DEF FlushFails
  <2>3. CASE TellsOf(k, newBatch)
    BY <2>2, <2>3
  <2>4. CASE ~TellsOf(k, newBatch)
    <3>1. /\ Reaches(pending, n) \in Seq(E)
          /\ EventsIn(Reaches(pending, n)) \subseteq EventsIn(newBatch)
      <4> HIDE DEF pending
      <4> QED BY <1>1, <2>1, ReachEvents
    <3>2. ReadAll' = oldLines \o (lines \o Reaches(pending, n))
      BY <2>1, <2>2 DEF ReadAll
    <3> QED BY <1>3, <2>2, <2>4, <3>1, <3>2
  <2> QED BY <2>3, <2>4
<1>5. CASE FlushWorks(newBatch)
  <2> DEFINE r == Reaches(pending, Len(pending))
             disk == lines \o r
             glued == Glued(pending, Len(pending))
  <2>1. /\ batch' = <<>>
        /\ \/ Rotates(disk) /\ lines' = <<>> /\ oldLines' = disk
              /\ gone' = (gone \cup Ids(oldLines) \cup glued) \ (Ids(lines') \cup Ids(oldLines'))
           \/ ~Rotates(disk) /\ lines' = disk /\ oldLines' = oldLines
              /\ gone' = (gone \cup glued) \ (Ids(lines') \cup Ids(oldLines'))
        /\ \A i \in DOMAIN pending : pending[i].key = k => pending[i].id \notin gone'
        /\ \A i \in DOMAIN oldLines : oldLines[i].key = k => oldLines[i].id \notin gone'
    <3>1. batch' = <<>>
      BY <1>5 DEF FlushWorks
    <3>2. \/ Rotates(disk) /\ lines' = <<>> /\ oldLines' = disk
             /\ gone' = (gone \cup Ids(oldLines) \cup glued) \ (Ids(lines') \cup Ids(oldLines'))
          \/ ~Rotates(disk) /\ lines' = disk /\ oldLines' = oldLines
             /\ gone' = (gone \cup glued) \ (Ids(lines') \cup Ids(oldLines'))
      BY <1>5 DEF FlushWorks
    <3>3. apart' = apart \cup {l \in ItemKey : \E i \in DOMAIN pending :
                                  pending[i].key = l /\ pending[i].id \in gone'}
                         \cup {l \in ItemKey : \E i \in DOMAIN oldLines :
                                  oldLines[i].key = l /\ oldLines[i].id \in gone'}
      BY <1>5 DEF FlushWorks
    <3> QED BY <3>1, <3>2, <3>3
  <2>2. r \in Seq(E) /\ EventsIn(r) \subseteq EventsIn(newBatch)
    <3>1. Len(pending) \in 0..Len(pending)
      BY <1>1
    <3> HIDE DEF pending
    <3> QED BY <1>1, <3>1, ReachEvents
  <2>3. /\ disk \in Seq(E) /\ EventsIn(disk) = EventsIn(lines) \cup EventsIn(r)
        /\ EventsIn(disk) \subseteq Readable \cup EventsIn(newBatch)
    BY <1>1, <2>2, EventsConcat, IdsConcat DEF Readable
  <2>4. ASSUME TellsOf(k, newBatch)
        PROVE  Tells(k, ReadAll \o r, v)
    <3>1. Tells(k, pending, v) /\ TellsOf(k, pending)
      <4>1. Tells(k, pending, v)
        BY <1>1, <2>4, TellsConcat
      <4> QED BY <1>1, <2>4, <4>1, TellsOfEvents
    <3>2. CASE ~(torn /\ Len(pending) > 0)
      <4>1. r = pending
        BY <1>1, <3>2 DEF Reaches
      <4> HIDE DEF r, pending
      <4> QED BY <1>1, <2>2, <3>1, <4>1, TellsConcat
    <3>3. CASE torn /\ Len(pending) > 0
      <4> DEFINE p == pending[1]
      <4>1. r = SubSeq(pending, 2, Len(pending)) /\ glued = {p.id}
        BY <3>3 DEF Reaches, Glued
      <4>2. p \in E /\ p \in EventsIn(pending) /\ 1 \in DOMAIN pending
        <5> HIDE DEF pending
        <5>1. 1 \in DOMAIN pending /\ pending[1] \in E
          BY <1>1, <3>3
        <5> QED BY <5>1 DEF EventsIn
      <4>3. pending = <<p>> \o r
        <5> HIDE DEF pending
        <5>1. pending \in Seq(E) /\ Len(pending) > 0
          BY <1>1, <3>3
        <5>2. pending = <<Head(pending)>> \o Tail(pending)
          BY <5>1
        <5>3. Tail(pending) = SubSeq(pending, 2, Len(pending)) /\ Head(pending) = p
          BY <5>1
        <5> QED BY <4>1, <5>2, <5>3
      <4>4. ASSUME p.key = k PROVE TellsOf(k, r)
        <5>1. p.id \notin gone' /\ p.id \in glued
          BY <2>1, <4>1, <4>2, <4>4
        <5>2. p.id \in Ids(lines') \cup Ids(oldLines')
          BY <2>1, <5>1
        <5>3. PICK f \in EventsIn(disk) \cup EventsIn(oldLines) : f.id = p.id
          <6>1. Ids(<<>>) = {}
            BY DEF Ids
          <6> HIDE DEF disk
          <6>2. p.id \in Ids(disk) \cup Ids(oldLines)
            BY <2>1, <5>2, <6>1
          <6> QED BY <6>2, IdsOfEvents
        <5>4. p \in EventsIn(newBatch)
          BY <1>1, <4>2
        <5>5. f \notin Readable
          BY <3>3, <5>3, <5>4 DEF Ready
        <5>6. f \in EventsIn(r)
          BY <2>3, <5>3, <5>5 DEF Readable
        <5>7. f.key = k
          BY <2>2, <4>4, <5>3, <5>4, <5>6 DEF Ready
        <5> QED BY <5>6, <5>7, TellsOfEvents
      <4> HIDE DEF p, r, pending
      <4>5. <<p>> \in Seq(E) /\ (TellsOf(k, <<p>>) => p.key = k)
        BY <4>2 DEF TellsOf
      <4>6. Tells(k, r, v)
        BY <2>2, <3>1, <4>3, <4>4, <4>5, TellsSuffix
      <4>7. TellsOf(k, r)
        <5>1. EventsIn(pending) = EventsIn(<<p>>) \cup EventsIn(r)
          <6>1. EventsIn(<<p>> \o r) = EventsIn(<<p>>) \cup EventsIn(r)
            <7> DEFINE q == <<p>>
            <7>1. q \in Seq(E) /\ r \in Seq(E)
              BY <2>2, <4>5
            <7> HIDE DEF q, E
            <7>2. EventsIn(q \o r) = EventsIn(q) \cup EventsIn(r)
              BY <7>1, EventsConcat
            <7> QED BY <7>2 DEF q
          <6> QED BY <4>3, <6>1
        <5>2. TellsOf(k, <<p>>) \/ TellsOf(k, r)
          BY <3>1, <5>1, TellsOfEvents
        <5> QED BY <4>4, <4>5, <5>2
      <4> QED BY <1>1, <2>2, <4>6, <4>7, TellsConcat
    <3> QED BY <3>2, <3>3
  <2>5. Tells(k, oldLines \o disk, v)
    <3>1. CASE TellsOf(k, newBatch)
      BY <1>2, <2>2, <2>4, <3>1
    <3>2. CASE ~TellsOf(k, newBatch)
      BY <1>3, <2>2, <3>2
    <3> QED BY <3>1, <3>2
  <2>6. ~TellsOf(k, batch')
    BY <2>1 DEF TellsOf
  <2>7. CASE ~Rotates(disk)
    BY <2>1, <2>5, <2>6, <2>7 DEF ReadAll
  <2>8. CASE Rotates(disk)
    <3>1. ASSUME TellsOf(k, oldLines) PROVE TellsOf(k, disk)
      <4>1. PICK i \in DOMAIN oldLines : oldLines[i].key = k
        BY <3>1 DEF TellsOf
      <4>2. oldLines[i] \in EventsIn(oldLines) /\ oldLines[i].id \in Ids(oldLines)
        BY DEF EventsIn, Ids
      <4>3. oldLines[i].id \in Ids(<<>>) \cup Ids(disk)
        BY <2>1, <2>8, <4>1, <4>2
      <4>4. PICK f \in EventsIn(disk) : f.id = oldLines[i].id
        <5>1. Ids(<<>>) = {}
          BY DEF Ids
        <5> HIDE DEF disk
        <5> QED BY <4>3, <5>1, IdsOfEvents
      <4>5. f.key = k
        BY <2>3, <4>1, <4>2, <4>4 DEF Ready, Readable
      <4> QED BY <4>5, TellsOfEvents
    <3>2. Tells(k, disk, v)
      <4> HIDE DEF disk
      <4> QED BY <1>1, <2>3, <2>5, <3>1, TellsSuffix
    <3>3. ReadAll' = disk
      <4>1. disk \o <<>> = disk
        <5> HIDE DEF disk
        <5> QED BY <2>3
      <4> QED BY <2>1, <2>8, <4>1 DEF ReadAll
    <3> QED BY <2>6, <3>2, <3>3
  <2> QED BY <2>7, <2>8
<1> QED BY <1>4, <1>5

\* One operation changes an item in memory, while it is under way.
LEMMA ChangeTold ==
    ASSUME Numbered, MemoryInv, NEW op, op.key \in ItemKey, op.stage = "stored", NEW v,
           Matches(v, op), Change(op, v), NEW H \in SUBSET handling, handling' = H \cup {op},
           \A q \in handling \ H : q.stage = "found", UNCHANGED logVars
    PROVE  MemoryTold'
<1>1. /\ storage' = [storage EXCEPT ![op.key] = v] /\ storage \in [ItemKey -> 0..opCount]
      /\ apart' = IF Overlaps(op.key) THEN apart \cup {op.key} ELSE apart
      /\ ReadAll' = ReadAll /\ batch' = batch
  BY DEF Change, Numbered, StoreTypeOK, logVars, ReadAll
<1>2. SUFFICES ASSUME NEW k \in ItemKey, k \notin apart'
               PROVE  /\ \A q, w \in handling' : StoredOp(q, k) /\ StoredOp(w, k) => q = w
                      /\ \A q \in handling' : StoredOp(q, k) => Matches(storage'[k], q)
                      /\ (\A q \in handling' : ~StoredOp(q, k)) =>
                           Tells(k, IF TellsOf(k, batch') THEN batch' ELSE ReadAll', storage'[k])
  BY DEF MemoryTold
<1>3. k \in ItemKey \ apart
  BY <1>1, <1>2
<1>4. CASE k = op.key
  <2>1. \A q \in handling : ~StoredOp(q, k)
    BY <1>1, <1>2, <1>4 DEF Overlaps, StoredOp
  <2>2. storage'[k] = v
    BY <1>1, <1>4
  <2>3. StoredOp(op, k)
    BY <1>4 DEF StoredOp
  <2>4. \A q \in handling' : StoredOp(q, k) => q = op
    BY <2>1
  <2> QED BY <2>2, <2>3, <2>4
<1>5. CASE k # op.key
  <2>1. ~StoredOp(op, k) /\ storage'[k] = storage[k]
    BY <1>1, <1>5 DEF StoredOp
  <2>2. \A q \in handling : StoredOp(q, k) => q \in H
    BY DEF StoredOp
  <2> QED BY <1>1, <1>3, <2>1, <2>2 DEF MemoryInv, MemoryTold
<1> QED BY <1>4, <1>5

\* An operation that begins has a number of its own.
LEMMA BeginKeeps ==
    ASSUME Numbered, MemoryInv, NEW op, Begin(op), op.id = opCount + 1,
           op.stage = "found" => op.val = op.id
    PROVE  /\ OneEventPerOp' /\ KeptInBatch' /\ TornIsFresh'
           /\ UNCHANGED logVars /\ handling' = handling \cup {op}
<1>1. /\ UNCHANGED logVars /\ handling' = handling \cup {op}
      /\ UNCHANGED <<batch, buffered, lines, oldLines, torn>>
  BY DEF Begin, logVars
<1>2. Logged' = Logged /\ Readable' = Readable
  BY <1>1 DEF Logged, Readable
<1>3. opCount \in Nat /\ \A q \in handling : q.id \in Nat /\ q.id <= opCount
  BY StoreAssumption DEF Numbered, StoreTypeOK, OpUpTo, Op, OpId
<1>4. \A e \in Logged : e.id \in Nat /\ e.id <= opCount
  <2>1. ASSUME NEW s \in Seq(EventUpTo(opCount)), NEW e \in EventsIn(s)
        PROVE  e.id \in Nat /\ e.id <= opCount
    BY <2>1 DEF EventsIn, EventUpTo, LogEvent, OpId
  <2> QED BY <2>1 DEF Logged, Readable, Numbered
<1>5. OneEventPerOp'
  BY <1>1, <1>2, <1>3, <1>4 DEF MemoryInv, OneEventPerOp
<1>6. KeptInBatch' /\ TornIsFresh'
  BY <1>1, <1>2 DEF MemoryInv, KeptInBatch, TornIsFresh
<1> QED BY <1>1, <1>5, <1>6

\* A flush, with the event of an operation that ends or without one.
LEMMA FlushKeeps ==
    ASSUME Numbered, MemoryInv, NEW newBatch, Ready(newBatch),
           FlushWorks(newBatch) \/ FlushFails(newBatch),
           handling' \subseteq handling, storage' = storage,
           \A op \in handling', e \in EventsIn(newBatch) : op.id # e.id,
           \A k \in ItemKey \ apart :
               (\A op \in handling' : ~StoredOp(op, k)) =>
                    Tells(k, IF TellsOf(k, newBatch) THEN newBatch ELSE ReadAll, storage[k])
    PROVE  MemoryInv'
<1>1. /\ Logged' \subseteq Readable \cup EventsIn(newBatch)
      /\ KeptInBatch' /\ TornIsFresh'
  BY FlushEvents DEF MemoryInv
<1>2. OneEventPerOp'
  BY <1>1 DEF MemoryInv, OneEventPerOp, Ready, Logged
<1>3. apart \subseteq apart'
  BY DEF FlushWorks, FlushFails
<1>4. MemoryTold'
  <2>1. SUFFICES ASSUME NEW k \in ItemKey, k \notin apart'
                 PROVE  /\ \A q, w \in handling' : StoredOp(q, k) /\ StoredOp(w, k) => q = w
                        /\ \A q \in handling' : StoredOp(q, k) => Matches(storage[k], q)
                        /\ (\A q \in handling' : ~StoredOp(q, k)) =>
                             Tells(k, IF TellsOf(k, batch') THEN batch' ELSE ReadAll', storage[k])
    BY DEF MemoryTold
  <2>2. k \in ItemKey \ apart
    BY <1>3, <2>1
  <2>3. ASSUME \A q \in handling' : ~StoredOp(q, k)
        PROVE  Tells(k, IF TellsOf(k, batch') THEN batch' ELSE ReadAll', storage[k])
    BY <2>1, <2>2, <2>3, FlushTells DEF MemoryInv
  <2> QED BY <2>2, <2>3 DEF MemoryInv, MemoryTold
<1> QED BY <1>1, <1>2, <1>4 DEF MemoryInv

\* What is replayed is what the log tells, a deletion apart: the item is back.
LEMMA ReplayTells ==
    ASSUME NEW S, NEW s \in Seq(S), NEW k
    PROVE  Tells(k, s, Replayed(k, s))
<1>1. LastOf(k, s) = {i \in DOMAIN s : IsLast(i, k, s)}
  BY DEF LastOf, IsLast
<1>2. CASE LastOf(k, s) # {}
  <2> DEFINE i == CHOOSE i \in LastOf(k, s) : TRUE
  <2>1. i \in LastOf(k, s)
    BY <1>2
  <2>2. Replayed(k, s) = s[i].val
    BY <1>2 DEF Replayed
  <2> HIDE DEF i
  <2> QED BY <1>1, <2>1, <2>2 DEF Tells, Matches
<1>3. CASE LastOf(k, s) = {}
  <2> DEFINE T == {i \in DOMAIN s : s[i].key = k}
  <2>1. T = {}
    <3>1. SUFFICES ASSUME T # {} PROVE FALSE
      OBVIOUS
    <3>2. Len(s) \in Nat /\ T \in SUBSET (1..Len(s))
      OBVIOUS
    <3>3. PICK i \in T : \A j \in T : j <= i
      <4> HIDE DEF T
      <4> QED BY <3>1, <3>2, LastPosition
    <3>4. IsLast(i, k, s)
      BY <3>3 DEF IsLast
    <3> QED BY <1>1, <1>3, <3>4 DEF IsLast
  <2>2. ~TellsOf(k, s)
    BY <2>1 DEF TellsOf
  <2> QED BY <1>3, <2>2 DEF Tells, Replayed
<1> QED BY <1>2, <1>3

LEMMA MemoryNext ==
    ASSUME Numbered, MemoryInv, [StoreNext]_storeVars
    PROVE  MemoryInv'
<1>0. /\ opCount \in Nat /\ storage \in [ItemKey -> 0..opCount]
      /\ \A op \in handling : op.key \in ItemKey
  BY StoreAssumption DEF Numbered, StoreTypeOK, OpUpTo, Op
<1>1. ASSUME NEW k \in ItemKey, CreateItem(k) \/ UpdateItem(k) PROVE MemoryInv'
  <2>1. PICK kind \in {"Created", "Updated"} :
          LET op == NewOp(kind, k, opCount + 1, "stored") IN Begin(op) /\ Change(op, op.id)
    BY <1>1 DEF CreateItem, UpdateItem
  <2> DEFINE op == NewOp(kind, k, opCount + 1, "stored")
  <2>2. op.id = opCount + 1 /\ op.key = k /\ op.stage = "stored" /\ Matches(op.id, op)
    BY DEF NewOp, Matches
  <2>3. Begin(op) /\ Change(op, op.id)
    BY <2>1
  <2> HIDE DEF op
  <2>4. /\ OneEventPerOp' /\ KeptInBatch' /\ TornIsFresh'
        /\ UNCHANGED logVars /\ handling' = handling \cup {op}
    BY <2>2, <2>3, BeginKeeps
  <2>5. MemoryTold'
    BY <2>2, <2>3, <2>4, ChangeTold
  <2> QED BY <2>4, <2>5 DEF MemoryInv
<1>2. ASSUME NEW k \in ItemKey, DeleteItem(k) PROVE MemoryInv'
  <2> DEFINE op == NewOp("Deleted", k, storage[k], "stored")
  <2>1. op.id = opCount + 1 /\ op.key = k /\ op.stage = "stored" /\ Matches(Absent, op)
    BY DEF NewOp, Matches
  <2>2. Begin(op) /\ Change(op, Absent)
    BY <1>2 DEF DeleteItem
  <2> HIDE DEF op
  <2>3. /\ OneEventPerOp' /\ KeptInBatch' /\ TornIsFresh'
        /\ UNCHANGED logVars /\ handling' = handling \cup {op}
    BY <2>1, <2>2, BeginKeeps
  <2>4. MemoryTold'
    BY <2>1, <2>2, <2>3, ChangeTold
  <2> QED BY <2>3, <2>4 DEF MemoryInv
<1>3. ASSUME NEW k \in ItemKey, FindItem(k) PROVE MemoryInv'
  <2> DEFINE op == NewOp("Updated", k, opCount + 1, "found")
  <2>1. op.id = opCount + 1 /\ op.stage = "found" /\ op.val = op.id
    BY DEF NewOp
  <2>2. Begin(op) /\ UNCHANGED <<storage, apart>>
    BY <1>3 DEF FindItem
  <2> HIDE DEF op
  <2>3. /\ OneEventPerOp' /\ KeptInBatch' /\ TornIsFresh'
        /\ UNCHANGED logVars /\ handling' = handling \cup {op}
    BY <2>1, <2>2, BeginKeeps
  <2>4. ReadAll' = ReadAll /\ batch' = batch /\ \A l : ~StoredOp(op, l)
    BY <2>1, <2>3 DEF logVars, ReadAll, StoredOp
  <2>5. MemoryTold'
    BY <2>2, <2>3, <2>4 DEF MemoryInv, MemoryTold
  <2> QED BY <2>3, <2>5 DEF MemoryInv
<1>4. ASSUME NEW op \in handling, OverwriteItem(op) PROVE MemoryInv'
  <2> DEFINE new == [op EXCEPT !.stage = "stored"]
             H == handling \ {op}
  <2>1. /\ op.stage = "found" /\ handling' = H \cup {new} /\ Change(op, op.id)
        /\ UNCHANGED logVars
    BY <1>4 DEF OverwriteItem
  <2>2. /\ new.id = op.id /\ new.key = op.key /\ new.val = op.val /\ new.kind = op.kind
        /\ new.stage = "stored" /\ op.key \in ItemKey
    BY <1>0 DEF Numbered, OpUpTo, Op
  <2> HIDE DEF new
  <2>3. Change(new, op.id)
    BY <2>1, <2>2 DEF Change
  <2>4. Matches(op.id, new)
    BY <2>1, <2>2 DEF MemoryInv, OneEventPerOp, Matches
  <2>5. MemoryTold'
    BY <2>1, <2>2, <2>3, <2>4, ChangeTold
  <2>6. /\ UNCHANGED <<batch, buffered, lines, oldLines, torn>>
        /\ Logged' = Logged /\ Readable' = Readable
    BY <2>1 DEF logVars, Logged, Readable
  <2>7. OneEventPerOp'
    BY <2>1, <2>2, <2>6 DEF MemoryInv, OneEventPerOp
  <2> QED BY <2>5, <2>6, <2>7 DEF MemoryInv, KeptInBatch, TornIsFresh
<1>5. ASSUME NEW op \in handling, Abandon(op) PROVE MemoryInv'
  <2>1. /\ handling' = handling \ {op} /\ UNCHANGED <<storage, logVars>>
        /\ apart' = IF op.stage = "stored" THEN apart \cup {op.key} ELSE apart
    BY <1>5 DEF Abandon
  <2>2. /\ UNCHANGED <<batch, buffered, lines, oldLines, torn>>
        /\ Logged' = Logged /\ Readable' = Readable /\ ReadAll' = ReadAll
    BY <2>1 DEF logVars, Logged, Readable, ReadAll
  <2>3. OneEventPerOp' /\ KeptInBatch' /\ TornIsFresh'
    BY <2>1, <2>2 DEF MemoryInv, OneEventPerOp, KeptInBatch, TornIsFresh
  <2>4. \A k \in ItemKey \ apart' : k \in ItemKey \ apart /\ ~StoredOp(op, k)
    BY <2>1 DEF StoredOp
  <2>5. MemoryTold'
    BY <2>1, <2>2, <2>4 DEF MemoryInv, MemoryTold
  <2> QED BY <2>3, <2>5 DEF MemoryInv
<1>6. ASSUME NEW op \in handling, PersistEvent(op) PROVE MemoryInv'
  <2> DEFINE e == [id |-> op.id, prev |-> lastHash, kind |-> op.kind, key |-> op.key,
                   val |-> op.val]
             newBatch == Append(batch, e)
  <2>1. /\ e \in EventUpTo(opCount) /\ e.id = op.id /\ e.key = op.key /\ e.val = op.val
        /\ e.kind = op.kind
    BY EventOf
  <2>2. /\ op.stage = "stored" /\ handling' = handling \ {op} /\ storage' = storage
        /\ FlushWorks(newBatch) \/ FlushFails(newBatch)
    BY <1>6 DEF PersistEvent
  <2> HIDE DEF e
  <2>3. newBatch \in Seq(EventUpTo(opCount)) /\ EventsIn(newBatch) = EventsIn(batch) \cup {e}
    BY <2>1, EventsOfAppend DEF Numbered
  <2>4. \A f \in Logged : f.id # e.id
    BY <2>1 DEF MemoryInv, OneEventPerOp
  <2>5. Ready(newBatch)
    BY <2>3, <2>4 DEF Ready, MemoryInv, OneEventPerOp, TornIsFresh, Logged
  <2>6. \A q \in handling', f \in EventsIn(newBatch) : q.id # f.id
    BY <2>1, <2>2, <2>3 DEF MemoryInv, OneEventPerOp, Logged
  <2>7. ASSUME NEW k \in ItemKey \ apart, \A q \in handling' : ~StoredOp(q, k)
        PROVE  Tells(k, IF TellsOf(k, newBatch) THEN newBatch ELSE ReadAll, storage[k])
    <3>1. CASE op.key = k
      <4>1. StoredOp(op, k)
        BY <2>2, <3>1 DEF StoredOp
      <4>2. Matches(storage[k], e)
        BY <2>1, <4>1 DEF MemoryInv, MemoryTold, Matches
      <4> QED BY <2>1, <3>1, <4>2, AppendTells DEF Numbered
    <3>2. CASE op.key # k
      <4>1. \A q \in handling : ~StoredOp(q, k)
        BY <2>2, <2>7, <3>2 DEF StoredOp
      <4>2. Tells(k, IF TellsOf(k, batch) THEN batch ELSE ReadAll, storage[k])
        BY <4>1 DEF MemoryInv, MemoryTold
      <4>3. TellsOf(k, newBatch) <=> TellsOf(k, batch)
        BY <2>1, <2>3, <3>2, TellsOfEvents
      <4>4. CASE TellsOf(k, batch)
        <5>1. <<e>> \in Seq(EventUpTo(opCount)) /\ ~TellsOf(k, <<e>>)
          BY <2>1, <3>2 DEF TellsOf
        <5>2. newBatch = batch \o <<e>> /\ batch \in Seq(EventUpTo(opCount))
          BY <2>1 DEF Numbered
        <5>3. Tells(k, batch \o <<e>>, storage[k])
          BY <4>2, <4>4, <5>1, <5>2, TellsConcat
        <5> QED BY <4>3, <4>4, <5>2, <5>3
      <4>5. CASE ~TellsOf(k, batch)
        BY <4>2, <4>3, <4>5
      <4> QED BY <4>4, <4>5
    <3> QED BY <3>1, <3>2
  <2> HIDE DEF newBatch
  <2> QED BY <2>2, <2>5, <2>6, <2>7, FlushKeeps
<1>7. CASE FlushTick
  <2>1. /\ FlushWorks(batch) \/ FlushFails(batch)
        /\ UNCHANGED <<handling, storage>>
    BY <1>7 DEF FlushTick, memoryVars
  <2>2. Ready(batch)
    BY DEF Ready, MemoryInv, OneEventPerOp, TornIsFresh, Logged, Numbered
  <2>3. \A op \in handling, e \in EventsIn(batch) : op.id # e.id
    BY DEF MemoryInv, OneEventPerOp, Logged
  <2> QED BY <2>1, <2>2, <2>3, FlushKeeps DEF MemoryInv, MemoryTold
<1>8. CASE CrashAndReplay
  <2>1. /\ storage' = [k \in ItemKey |-> Replayed(k, ReadAll)]
        /\ handling' = {} /\ batch' = <<>> /\ buffered' = <<>>
        /\ UNCHANGED <<lines, oldLines>>
    BY <1>8 DEF CrashAndReplay
  <2>2. /\ EventsIn(<<>>) = {} /\ \A k : ~TellsOf(k, <<>>)
    BY DEF EventsIn, TellsOf
  <2>3. ReadAll' = ReadAll /\ Readable' = Readable /\ Logged' \subseteq Logged
    BY <2>1, <2>2 DEF ReadAll, Readable, Logged
  <2>4. OneEventPerOp' /\ KeptInBatch' /\ TornIsFresh'
    BY <2>1, <2>2, <2>3 DEF MemoryInv, OneEventPerOp, KeptInBatch, TornIsFresh
  <2>5. \A k \in ItemKey : Tells(k, ReadAll, storage'[k])
    BY <2>1, ReadableIs, ReplayTells
  <2>6. MemoryTold'
    BY <2>1, <2>2, <2>3, <2>5 DEF MemoryTold
  <2> QED BY <2>4, <2>6 DEF MemoryInv
<1>9. CASE UNCHANGED storeVars
  <2>1. UNCHANGED <<handling, storage, apart, batch, buffered, lines, oldLines, torn>>
    BY <1>9 DEF storeVars, memoryVars, logVars
  <2>2. Logged' = Logged /\ Readable' = Readable /\ ReadAll' = ReadAll
    BY <2>1 DEF Logged, Readable, ReadAll
  <2> QED BY <2>1, <2>2 DEF MemoryInv, OneEventPerOp, KeptInBatch, TornIsFresh, MemoryTold
<1> QED BY <1>1, <1>2, <1>3, <1>4, <1>5, <1>6, <1>7, <1>8, <1>9 DEF StoreNext

LEMMA AlwaysMemoryInv == StoreSpec => []MemoryInv
<1>1. StoreInit => MemoryInv
  <2>1. SUFFICES ASSUME StoreInit PROVE MemoryInv
    OBVIOUS
  <2>2. /\ handling = {} /\ batch = <<>> /\ buffered = <<>> /\ lines = <<>> /\ oldLines = <<>>
        /\ torn = FALSE /\ storage = [k \in ItemKey |-> Absent]
    BY <2>1 DEF StoreInit
  <2>3. Logged = {} /\ Readable = {} /\ ReadAll = <<>> /\ \A k : ~TellsOf(k, <<>>)
    BY <2>2 DEF Logged, Readable, EventsIn, ReadAll, TellsOf
  <2> QED BY <2>2, <2>3 DEF MemoryInv, OneEventPerOp, KeptInBatch, TornIsFresh, MemoryTold,
             EventsIn, Tells
<1>2. Numbered /\ MemoryInv /\ [StoreNext]_storeVars => MemoryInv'
  BY MemoryNext
<1> QED BY <1>1, <1>2, AlwaysNumbered, PTL DEF StoreSpec

\* The log follows the memory: once an item's operations are through and nothing
\* waits for a flush, its last readable event is its last change.  The handlers
\* change the item first and append the event later, flushes fail half-way and
\* write lines twice, segments are removed and the process crashes; none of this
\* makes the log tell another story of an item whose operations did not overlap,
\* were not dropped half-way and lost no line.
THEOREM MemoryIsLogged == StoreSpec => []LogFollowsMemory
<1>1. Numbered /\ MemoryInv => LogFollowsMemory
  <2>1. SUFFICES ASSUME Numbered, MemoryInv, NEW k \in ItemKey,
                        batch = <<>>, k \notin apart, ~Overlaps(k)
                 PROVE  IF LastOf(k, ReadAll) = {} THEN storage[k] = Absent
                        ELSE \A i \in LastOf(k, ReadAll) :
                               \/ storage[k] = ReadAll[i].val
                               \/ ReadAll[i].kind = "Deleted" /\ storage[k] = Absent
    BY DEF LogFollowsMemory
  <2>2. Tells(k, ReadAll, storage[k])
    <3>1. ~TellsOf(k, batch) /\ \A op \in handling : ~StoredOp(op, k)
      BY <2>1 DEF TellsOf, Overlaps, StoredOp
    <3> QED BY <2>1, <3>1 DEF MemoryInv, MemoryTold
  <2>3. LastOf(k, ReadAll) = {i \in DOMAIN ReadAll : IsLast(i, k, ReadAll)}
    BY DEF LastOf, IsLast
  <2>4. CASE ~TellsOf(k, ReadAll) /\ storage[k] = Absent
    BY <2>3, <2>4 DEF TellsOf, IsLast
  <2>5. ASSUME NEW i \in DOMAIN ReadAll, IsLast(i, k, ReadAll), Matches(storage[k], ReadAll[i])
        PROVE  /\ LastOf(k, ReadAll) # {}
               /\ \A j \in LastOf(k, ReadAll) : Matches(storage[k], ReadAll[j])
    <3>1. DOMAIN ReadAll \subseteq Nat
      BY <2>1, ReadableIs
    <3>2. \A j \in LastOf(k, ReadAll) : j = i
      <4>1. SUFFICES ASSUME NEW j \in LastOf(k, ReadAll) PROVE j = i
        OBVIOUS
      <4>2. IsLast(j, k, ReadAll) /\ j <= i /\ i <= j
        BY <2>3, <2>5, <4>1 DEF IsLast
      <4> QED BY <2>3, <2>5, <3>1, <4>2
    <3> QED BY <2>3, <2>5, <3>2
  <2> QED BY <2>2, <2>4, <2>5 DEF Tells, Matches
<1> QED BY <1>1, AlwaysNumbered, AlwaysMemoryInv, PTL

----------------------------------------------------------------------------
(* AggregateStore: recovery from a snapshot skips no event that is not in it. *)

(* Types. *)

LEMMA AggregateTypeInit == ASSUME AggregateInit PROVE AggregateTypeOK
<1>1. <<>> \in Seq(EventNo)
  OBVIOUS
<1>2. /\ appended \in 0..MaxAppends /\ eventCount \in 0..appended /\ saved \in 0..MaxSnapshots
      /\ appendErrors \in 0..MaxAppendErrors /\ reopens \in 0..MaxReopens
  BY AggregateAssumption DEF AggregateInit
<1> QED BY <1>1, <1>2 DEF AggregateInit, AggregateTypeOK

\* The files and the buffers after an append that works or fails.
LEMMA FileTyped ==
    ASSUME AggregateTypeOK, AppendEvent \/ AppendFails
    PROVE  /\ file' \in Seq(EventNo) /\ unsent' \in Seq(EventNo) /\ unflushed' \in Seq(EventNo)
           /\ Len(file') >= Len(file)
           /\ \A i \in 1..Len(file) : file'[i] = file[i]
           /\ appended' = appended + 1 /\ appended' \in 0..MaxAppends /\ opened' = TRUE
<1>1. /\ appended < MaxAppends /\ appended' = appended + 1 /\ opened' = TRUE
      /\ appended \in 0..MaxAppends
  BY DEF AppendEvent, AppendFails, AggregateTypeOK
<1>2. appended + 1 \in EventNo /\ appended' \in 0..MaxAppends
  BY <1>1, AggregateAssumption DEF EventNo
<1>3. file \in Seq(EventNo) /\ unsent \in Seq(EventNo) /\ unflushed \in Seq(EventNo)
  BY DEF AggregateTypeOK
<1>4. Append(unflushed, appended + 1) \in Seq(EventNo)
  BY <1>2, <1>3
<1>5. \A s \in Seq(EventNo) : /\ file \o s \in Seq(EventNo) /\ Len(file \o s) >= Len(file)
                              /\ \A i \in 1..Len(file) : (file \o s)[i] = file[i]
  BY <1>3
<1>6. CASE AppendEvent
  <2> DEFINE s == unsent \o Append(unflushed, appended + 1)
  <2>1. s \in Seq(EventNo)
    BY <1>3, <1>4
  <2>2. /\ file' = (file \o unsent) \o Append(unflushed, appended + 1)
        /\ unsent' = <<>> /\ unflushed' = <<>>
    BY <1>6 DEF AppendEvent
  <2>3. file' = file \o s
    <3>1. (file \o unsent) \o Append(unflushed, appended + 1)
            = file \o (unsent \o Append(unflushed, appended + 1))
      <4> DEFINE u == Append(unflushed, appended + 1)
      <4>1. u \in Seq(EventNo)
        BY <1>4
      <4> HIDE DEF u
      <4>2. (file \o unsent) \o u = file \o (unsent \o u)
        BY <1>3, <4>1, ConcatAssociative, SMTT(30)
      <4> QED BY <4>2 DEF u
    <3>2. file' = (file \o unsent) \o Append(unflushed, appended + 1)
      BY <2>2
    <3> QED BY <3>1, <3>2
  <2>4. <<>> \in Seq(EventNo)
    OBVIOUS
  <2> HIDE DEF s
  <2> QED BY <1>1, <1>2, <1>5, <2>1, <2>2, <2>3, <2>4
<1>7. CASE AppendFails
  <2> DEFINE all == unsent \o Append(unflushed, appended + 1)
  <2>1. all \in Seq(EventNo)
    BY <1>3, <1>4
  <2>2. PICK n \in 0..Len(all) : /\ file' = file \o SubSeq(all, 1, n)
                                 /\ unsent' = SubSeq(all, n + 1, Len(all))
    BY <1>7 DEF AppendFails
  <2>3. unflushed' = Append(unflushed, appended + 1)
    BY <1>7 DEF AppendFails
  <2>4. SubSeq(all, 1, n) \in Seq(EventNo) /\ SubSeq(all, n + 1, Len(all)) \in Seq(EventNo)
    BY <2>1, SubSeqProperties
  <2> HIDE DEF all
  <2> QED BY <1>1, <1>2, <1>4, <1>5, <2>2, <2>3, <2>4
<1> QED BY <1>6, <1>7

\* What a snapshot holds was appended before, and counts stay within the file: an
\* append that fails may leave lines in the file that are not counted.
CountsInFile ==
    /\ eventCount <= Len(file)
    /\ snapshot.kind = "whole" => snapshot.count <= Len(file) /\ snapshot.state \subseteq 1..appended

LEMMA EventNumbers ==
    /\ \A s \in Snapshots : s.kind = "whole" /\ s.count \in 0..MaxAppends
    /\ NoSnapshot.kind = "none" /\ TornSnapshot.kind = "torn"
  BY DEF Snapshots, NoSnapshot, TornSnapshot

LEMMA AggregateTypeNext ==
    ASSUME AggregateTypeOK, CountsInFile, [AggregateNext]_aggregateVars PROVE AggregateTypeOK'
<1>1. CASE AppendEvent
  <2>1. eventCount' \in 0..appended' /\ inState' \subseteq 1..appended'
    BY <1>1, AggregateAssumption DEF AppendEvent, AggregateTypeOK
  <2> QED BY <1>1, <2>1, FileTyped DEF AppendEvent, AggregateTypeOK
<1>2. CASE AppendFails
  <2>1. eventCount' \in 0..appended' /\ inState' \subseteq 1..appended'
    BY <1>2, AggregateAssumption DEF AppendFails, AggregateTypeOK
  <2>2. appendErrors' \in 0..MaxAppendErrors
    BY <1>2, AggregateAssumption DEF AppendFails, AggregateTypeOK
  <2> QED BY <1>2, <2>1, <2>2, FileTyped DEF AppendFails, AggregateTypeOK
<1>3. CASE SaveSnapshot
  <2>1. saved' \in 0..MaxSnapshots
    BY <1>3, AggregateAssumption DEF SaveSnapshot, AggregateTypeOK
  <2>2. snapshot' \in Snapshots
    <3>1. eventCount \in 0..MaxAppends /\ inState \in SUBSET EventNo
      BY AggregateAssumption DEF AggregateTypeOK, EventNo
    <3> QED BY <1>3, <3>1 DEF SaveSnapshot, Snapshots
  <2> QED BY <1>3, <2>1, <2>2 DEF SaveSnapshot, AggregateTypeOK
<1>4. CASE Reopen
  <2>1. /\ reopens' \in 0..MaxReopens /\ saved' \in 0..MaxSnapshots
        /\ snapshot' \in Snapshots \cup {NoSnapshot, TornSnapshot}
        /\ eventCount' \in 0..appended
    BY <1>4, AggregateAssumption DEF Reopen, AggregateTypeOK
  <2>2. unsent' \in Seq(EventNo) /\ unflushed' \in Seq(EventNo)
    <3>1. unsent' = <<>> /\ unflushed' = <<>>
      BY <1>4 DEF Reopen
    <3> QED BY <3>1
  <2>3. inState' \subseteq 1..appended'
    BY <1>4 DEF Reopen, Recovered, CountsInFile
  <2> QED BY <1>4, <2>1, <2>2, <2>3 DEF Reopen, AggregateTypeOK
<1>5. CASE DeleteSnapshot
  BY <1>5 DEF DeleteSnapshot, AggregateTypeOK
<1>6. CASE UNCHANGED aggregateVars
  BY <1>6 DEF aggregateVars, AggregateTypeOK
<1> QED BY <1>1, <1>2, <1>3, <1>4, <1>5, <1>6 DEF AggregateNext

LEMMA CountsNext ==
    ASSUME AggregateTypeOK, CountsInFile, [AggregateNext]_aggregateVars PROVE CountsInFile'
<1>0. /\ appended \in Nat /\ eventCount \in Nat /\ Len(file) \in Nat
      /\ snapshot \in Snapshots \cup {NoSnapshot, TornSnapshot}
      /\ snapshot.kind = "whole" => snapshot.count \in Nat
  BY AggregateAssumption, EventNumbers DEF AggregateTypeOK
<1>1. CASE AppendEvent
  <2>1. Len(file') >= Len(file) + 1 /\ appended' = appended + 1
    <3>1. /\ file \in Seq(EventNo) /\ unsent \in Seq(EventNo)
          /\ Append(unflushed, appended + 1) \in Seq(EventNo)
          /\ Len(Append(unflushed, appended + 1)) = Len(unflushed) + 1
          /\ Len(unsent) \in Nat /\ Len(unflushed) \in Nat
      BY <1>1, AggregateAssumption DEF AppendEvent, AggregateTypeOK, EventNo
    <3>2. file' = (file \o unsent) \o Append(unflushed, appended + 1)
      BY <1>1 DEF AppendEvent
    <3>3. Len(file') = (Len(file) + Len(unsent)) + (Len(unflushed) + 1)
      BY <3>1, <3>2
    <3> QED BY <1>0, <1>1, <3>1, <3>3 DEF AppendEvent
  <2>2. Len(file') \in Nat
    BY <1>1, FileTyped
  <2> QED BY <1>0, <1>1, <2>1, <2>2 DEF AppendEvent, CountsInFile
<1>2. CASE AppendFails
  <2>1. Len(file') >= Len(file) /\ Len(file') \in Nat /\ appended' = appended + 1
    BY <1>2, FileTyped
  <2> QED BY <1>0, <1>2, <2>1 DEF AppendFails, CountsInFile
<1>3. CASE SaveSnapshot
  BY <1>3 DEF SaveSnapshot, CountsInFile, AggregateTypeOK
<1>4. CASE Reopen
  <2>1. /\ eventCount' = 0 /\ UNCHANGED <<appended, file>>
        /\ snapshot' = snapshot \/ snapshot' = TornSnapshot
    BY <1>4 DEF Reopen
  <2>2. CASE snapshot' = snapshot
    BY <1>0, <2>1, <2>2 DEF CountsInFile
  <2>3. CASE snapshot' = TornSnapshot
    BY <1>0, <2>1, <2>3, EventNumbers DEF CountsInFile
  <2> QED BY <2>1, <2>2, <2>3
<1>5. CASE DeleteSnapshot
  BY <1>5, EventNumbers DEF DeleteSnapshot, CountsInFile
<1>6. CASE UNCHANGED aggregateVars
  BY <1>6 DEF aggregateVars, CountsInFile
<1> QED BY <1>1, <1>2, <1>3, <1>4, <1>5, <1>6 DEF AggregateNext

LEMMA AlwaysCounted == AggregateSpec => [](AggregateTypeOK /\ CountsInFile)
<1>1. ASSUME AggregateInit PROVE AggregateTypeOK /\ CountsInFile
  <2>1. eventCount = 0 /\ Len(file) = 0 /\ snapshot.kind = "none"
    BY <1>1, EventNumbers DEF AggregateInit
  <2> QED BY <1>1, <2>1, AggregateTypeInit DEF CountsInFile
<1>2. AggregateTypeOK /\ CountsInFile /\ [AggregateNext]_aggregateVars
        => (AggregateTypeOK /\ CountsInFile)'
  BY AggregateTypeNext, CountsNext
<1> QED BY <1>1, <1>2, PTL DEF AggregateSpec

\* Every reachable state has the types.
THEOREM AggregateTypeCorrect == AggregateSpec => []AggregateTypeOK
  BY AlwaysCounted, PTL

----------------------------------------------------------------------------
(* Recovery. *)

\* The lines a recovery starts behind, and the state it starts from.
Skip == IF snapshot.kind = "whole" THEN snapshot.count ELSE 0
Base == IF snapshot.kind = "whole" THEN snapshot.state ELSE {}

\* Every event of the application's state is in the snapshot or behind it.
Behind ==
    \A n \in inState : n \in Base \/ \E i \in (Skip + 1)..Len(file) : file[i] = n

LEMMA BehindIsRecovered ==
    ASSUME AggregateTypeOK, Behind PROVE inState \subseteq Recovered(TRUE)
<1>1. Skip \in Nat /\ Len(file) \in Nat /\ file \in Seq(EventNo)
  BY AggregateAssumption, EventNumbers DEF AggregateTypeOK, Skip
<1> DEFINE t == SubSeq(file, Skip + 1, Len(file))
<1>2. ASSUME NEW i \in (Skip + 1)..Len(file) PROVE file[i] \in In(t)
  <2>1. /\ DOMAIN t = 1..(Len(file) - Skip)
        /\ \A j \in 1..(Len(file) - Skip) : t[j] = file[Skip + j]
    BY <1>1, <1>2
  <2>2. i - Skip \in 1..(Len(file) - Skip) /\ Skip + (i - Skip) = i
    BY <1>1
  <2> QED BY <2>1, <2>2 DEF In
<1>3. Recovered(TRUE) = Base \cup In(t)
  BY DEF Recovered, Skip, Base
<1> QED BY <1>2, <1>3 DEF Behind

LEMMA BehindNext ==
    ASSUME AggregateTypeOK, CountsInFile, Behind, [AggregateNext]_aggregateVars
    PROVE  Behind'
<1>0. /\ Len(file) \in Nat /\ Skip \in Nat /\ Skip <= Len(file) /\ eventCount \in Nat
      /\ appended \in Nat /\ snapshot \in Snapshots \cup {NoSnapshot, TornSnapshot}
  BY AggregateAssumption, EventNumbers DEF AggregateTypeOK, CountsInFile, Skip
<1>1. CASE AppendEvent
  <2>1. /\ \A i \in 1..Len(file) : file'[i] = file[i]
        /\ Skip' = Skip /\ Base' = Base /\ inState' = inState \cup {appended + 1}
    BY <1>1, FileTyped DEF AppendEvent, Skip, Base
  <2>2. Len(file') \in Nat /\ Len(file') > Len(file) /\ file'[Len(file')] = appended + 1
    <3>1. /\ file \in Seq(EventNo) /\ unsent \in Seq(EventNo) /\ unflushed \in Seq(EventNo)
          /\ appended + 1 \in EventNo
      BY <1>1, AggregateAssumption DEF AppendEvent, AggregateTypeOK, EventNo
    <3> DEFINE a == file \o unsent
               b == Append(unflushed, appended + 1)
    <3>2. /\ a \in Seq(EventNo) /\ b \in Seq(EventNo) /\ Len(a) >= Len(file)
          /\ Len(b) = Len(unflushed) + 1 /\ b[Len(b)] = appended + 1
          /\ Len(a) \in Nat /\ Len(b) \in Nat /\ Len(b) > 0
      BY <3>1
    <3>3. file' = a \o b
      BY <1>1 DEF AppendEvent
    <3> HIDE DEF a, b
    <3>4. Len(file') = Len(a) + Len(b) /\ file'[Len(a) + Len(b)] = b[Len(b)]
      <4>1. /\ Len(a \o b) = Len(a) + Len(b)
            /\ \A i \in 1..Len(b) : (a \o b)[Len(a) + i] = b[i]
        BY <3>2
      <4>2. Len(b) \in 1..Len(b)
        BY <3>2
      <4> QED BY <3>3, <4>1, <4>2
    <3> QED BY <1>0, <3>2, <3>4
  <2>3. \A n \in inState : n \in Base \/ \E i \in (Skip + 1)..Len(file') : file'[i] = n
    BY <1>0, <2>1, <2>2 DEF Behind
  <2>4. Len(file') \in (Skip + 1)..Len(file')
    BY <1>0, <2>2
  <2> QED BY <2>1, <2>2, <2>3, <2>4 DEF Behind
<1>2. CASE AppendFails
  <2>1. /\ Len(file') \in Nat /\ Len(file') >= Len(file)
        /\ \A i \in 1..Len(file) : file'[i] = file[i]
        /\ Skip' = Skip /\ Base' = Base /\ inState' = inState
    BY <1>2, FileTyped DEF AppendFails, Skip, Base
  <2> QED BY <1>0, <2>1 DEF Behind
<1>3. CASE SaveSnapshot
  <2>1. inState' = inState /\ Base' = inState
    BY <1>3 DEF SaveSnapshot, Base
  <2> QED BY <2>1 DEF Behind
<1>4. CASE Reopen
  <2>1. CASE snapshot' = snapshot
    <3>1. inState' \subseteq Base /\ Base' = Base
      BY <1>4, <2>1 DEF Reopen, Recovered, Base
    <3> QED BY <3>1 DEF Behind
  <2>2. CASE snapshot' = TornSnapshot
    BY <1>4, <2>2, EventNumbers DEF Reopen, Behind
  <2> QED BY <1>4, <2>1, <2>2 DEF Reopen
<1>5. CASE DeleteSnapshot
  <2>1. UNCHANGED <<file, inState>> /\ Skip' = Skip /\ Base' = Base
    BY <1>5, EventNumbers DEF DeleteSnapshot, Skip, Base
  <2> QED BY <2>1 DEF Behind
<1>6. CASE UNCHANGED aggregateVars
  BY <1>6 DEF aggregateVars, Behind, Skip, Base
<1> QED BY <1>1, <1>2, <1>3, <1>4, <1>5, <1>6 DEF AggregateNext

\* The events that recovery skips are in the snapshot, whatever failed appends
\* and restarts did to the counts.
THEOREM RecoveryIsComplete == AggregateSpec => []RecoverySkipsNothing
<1>1. AggregateInit => Behind
  BY DEF AggregateInit, Behind
<1>2. AggregateTypeOK /\ CountsInFile /\ Behind /\ [AggregateNext]_aggregateVars => Behind'
  BY BehindNext
<1>3. AggregateTypeOK /\ Behind => RecoverySkipsNothing
  BY BehindIsRecovered DEF RecoverySkipsNothing
<1> QED BY <1>1, <1>2, <1>3, AlwaysCounted, PTL DEF AggregateSpec

----------------------------------------------------------------------------
(* SessionStore: a session that was logged out stays out, and the valid ones
   survive restarts and clean-ups. *)

(* Replay. *)

NoSessions == [t \in SessionId |-> Gone]

\* s is what a replay at now makes of the first n lines, one after the other.
ReplayRun(s, evs, now, n) ==
    s = [i \in 0..n |-> IF i = 0 THEN NoSessions ELSE ReplayLine(s[i - 1], evs[i], now)]

LEMMA ReplayExists ==
    ASSUME NEW evs, NEW now, NEW n \in Nat
    PROVE  \E s : ReplayRun(s, evs, now, n)
<1> DEFINE S == {m \in Nat : \E s : ReplayRun(s, evs, now, m)}
<1>1. 0 \in S
  <2> DEFINE s == [i \in 0..0 |-> NoSessions]
  <2>1. s = [i \in 0..0 |-> IF i = 0 THEN NoSessions ELSE ReplayLine(s[i - 1], evs[i], now)]
    OBVIOUS
  <2> QED BY <2>1 DEF ReplayRun
<1>2. ASSUME NEW m \in Nat, m \in S PROVE m + 1 \in S
  <2>1. PICK s : ReplayRun(s, evs, now, m)
    BY <1>2
  <2> DEFINE z == [i \in 0..(m + 1) |->
                     IF i = m + 1 THEN ReplayLine(s[m], evs[m + 1], now) ELSE s[i]]
  <2>2. \A i \in 0..m : z[i] = s[i]
    OBVIOUS
  <2>3. ASSUME NEW i \in 0..(m + 1)
        PROVE  z[i] = IF i = 0 THEN NoSessions ELSE ReplayLine(z[i - 1], evs[i], now)
    <3>1. CASE i = m + 1
      <4>1. i # 0 /\ i - 1 = m /\ m \in 0..m
        BY <3>1
      <4>2. z[i - 1] = s[m]
        BY <2>2, <4>1
      <4>3. z[i] = ReplayLine(s[m], evs[m + 1], now)
        BY <3>1
      <4> QED BY <3>1, <4>1, <4>2, <4>3
    <3>2. CASE i # m + 1
      <4>1. i \in 0..m /\ z[i] = s[i]
        BY <3>2, <2>2
      <4>2. s[i] = IF i = 0 THEN NoSessions ELSE ReplayLine(s[i - 1], evs[i], now)
        BY <2>1, <4>1 DEF ReplayRun
      <4>3. i # 0 => i - 1 \in 0..m
        BY <4>1
      <4> QED BY <2>2, <4>1, <4>2, <4>3
    <3> QED BY <3>1, <3>2
  <2>4. z = [i \in 0..(m + 1) |-> IF i = 0 THEN NoSessions ELSE ReplayLine(z[i - 1], evs[i], now)]
    BY <2>3
  <2>5. ReplayRun(z, evs, now, m + 1)
    BY <2>4 DEF ReplayRun
  <2> QED BY <2>5
<1>3. Nat \subseteq S
  <2> HIDE DEF S
  <2> QED BY <1>1, <1>2, SetInduction
<1> QED BY <1>3

SameLines(evs, evs2, n) == \A i \in 1..n : evs[i] = evs2[i]

\* Two replays of logs that are equal up to n are equal up to n.
LEMMA ReplayUnique ==
    ASSUME NEW evs, NEW evs2, NEW now, NEW m \in Nat, NEW n \in Nat, n <= m,
           SameLines(evs, evs2, n),
           NEW s, NEW z, ReplayRun(s, evs, now, n), ReplayRun(z, evs2, now, m)
    PROVE  \A i \in 0..n : s[i] = z[i]
<1> DEFINE S == {i \in Nat : i \in 0..n => s[i] = z[i]}
<1>1. 0 \in S
  BY DEF ReplayRun
<1>2. ASSUME NEW i \in Nat, i \in S PROVE i + 1 \in S
  <2>1. SUFFICES ASSUME i + 1 \in 0..n PROVE s[i + 1] = z[i + 1]
    OBVIOUS
  <2>2. i \in 0..n /\ i + 1 # 0 /\ (i + 1) - 1 = i /\ i + 1 \in 1..n /\ i + 1 \in 0..m
    BY <2>1
  <2>3. s[i] = z[i] /\ evs[i + 1] = evs2[i + 1]
    BY <1>2, <2>2 DEF SameLines
  <2>4. s[i + 1] = ReplayLine(s[i], evs[i + 1], now)
    BY <2>1, <2>2 DEF ReplayRun
  <2>5. z[i + 1] = ReplayLine(z[i], evs2[i + 1], now)
    BY <2>1, <2>2 DEF ReplayRun
  <2> QED BY <2>3, <2>4, <2>5
<1>3. Nat \subseteq S
  <2> HIDE DEF S
  <2> QED BY <1>1, <1>2, SetInduction
<1> QED BY <1>3

\* What PersistentSessionStore::new computes is the end of the only replay.
LEMMA ReplayIs ==
    ASSUME NEW evs \in Seq(SessionEvent), NEW now, NEW s, ReplayRun(s, evs, now, Len(evs))
    PROVE  ReplayedSessions(evs, now) = s[Len(evs)]
<1> DEFINE z == CHOOSE z : ReplayRun(z, evs, now, Len(evs))
<1>1. ReplayedSessions(evs, now) = z[Len(evs)]
  BY DEF ReplayedSessions, ReplayRun, NoSessions
<1>2. ReplayRun(z, evs, now, Len(evs))
  OBVIOUS
<1>3. Len(evs) \in Nat /\ Len(evs) \in 0..Len(evs) /\ SameLines(evs, evs, Len(evs))
  BY DEF SameLines
<1> HIDE DEF z
<1> QED BY <1>1, <1>2, <1>3, ReplayUnique

LEMMA ReplayAppend ==
    ASSUME NEW evs \in Seq(SessionEvent), NEW e \in SessionEvent, NEW now
    PROVE  ReplayedSessions(Append(evs, e), now) = ReplayLine(ReplayedSessions(evs, now), e, now)
<1> DEFINE n == Len(evs)
           evs2 == Append(evs, e)
<1>1. n \in Nat /\ evs2 \in Seq(SessionEvent) /\ Len(evs2) = n + 1 /\ evs2[n + 1] = e
      /\ \A i \in 1..n : evs[i] = evs2[i]
  OBVIOUS
<1>2. n + 1 \in Nat /\ n <= n + 1 /\ n \in 0..n /\ n + 1 \in 0..(n + 1) /\ (n + 1) - 1 = n
      /\ n + 1 # 0
  BY <1>1
<1> HIDE DEF n, evs2
<1>3. PICK s : ReplayRun(s, evs, now, n)
  BY <1>1, ReplayExists
<1>4. PICK z : ReplayRun(z, evs2, now, n + 1)
  BY <1>1, <1>2, ReplayExists
<1>5. s[n] = z[n]
  <2>1. SameLines(evs, evs2, n)
    BY <1>1 DEF SameLines
  <2>2. n \in Nat /\ n + 1 \in Nat /\ n <= n + 1
    BY <1>1, <1>2
  <2>3. \A i \in 0..n : s[i] = z[i]
    BY <1>3, <1>4, <2>1, <2>2, ReplayUnique
  <2> QED BY <1>2, <2>3
<1>6. z[n + 1] = ReplayLine(z[n], evs2[n + 1], now)
  BY <1>4, <1>2 DEF ReplayRun
<1>7. ReplayedSessions(evs, now) = s[n]
  BY <1>3, ReplayIs DEF n
<1>8. ReplayedSessions(evs2, now) = z[n + 1]
  BY <1>1, <1>4, ReplayIs
<1>9. ReplayedSessions(evs2, now) = ReplayLine(ReplayedSessions(evs, now), e, now)
  BY <1>1, <1>5, <1>6, <1>7, <1>8
<1> QED BY <1>9 DEF evs2

LEMMA ReplayEmpty ==
    ASSUME NEW now PROVE ReplayedSessions(<<>>, now) = NoSessions
<1>1. <<>> \in Seq(SessionEvent) /\ Len(<<>>) = 0 /\ 0 \in Nat /\ 0 \in 0..0
  OBVIOUS
<1>2. PICK s : ReplayRun(s, <<>>, now, 0)
  BY <1>1, ReplayExists
<1> QED BY <1>1, <1>2, ReplayIs DEF ReplayRun

Expiries == [SessionId -> Expiry \cup {Gone}]

\* A replay gives back what the log says, except that a session that was deleted
\* may be there until now.
LEMMA ReplayTime ==
    ASSUME NEW evs \in Seq(SessionEvent), NEW now \in Clock
    PROVE  /\ ReplayedSessions(evs, 0) \in Expiries /\ ReplayedSessions(evs, now) \in Expiries
           /\ \A t \in SessionId :
                /\ \/ ReplayedSessions(evs, now)[t] = ReplayedSessions(evs, 0)[t]
                   \/ ReplayedSessions(evs, 0)[t] = Gone /\ ReplayedSessions(evs, now)[t] = now
                /\ (\A j \in DOMAIN evs : evs[j].id # t) => ReplayedSessions(evs, now)[t] = Gone
<1>0. Len(evs) \in Nat /\ Len(evs) \in 0..Len(evs) /\ DOMAIN evs = 1..Len(evs)
      /\ now \in Expiry /\ 0 \in Expiry \cup {Gone}
  BY SessionAssumption DEF Clock, Expiry, Gone
<1>1. PICK s : ReplayRun(s, evs, now, Len(evs))
  BY <1>0, ReplayExists
<1>2. PICK z : ReplayRun(z, evs, 0, Len(evs))
  BY <1>0, ReplayExists
<1> DEFINE Same(i) ==
             /\ z[i] \in Expiries /\ s[i] \in Expiries
             /\ \A t \in SessionId :
                  /\ s[i][t] = z[i][t] \/ (z[i][t] = Gone /\ s[i][t] = now)
                  /\ (\A j \in 1..i : evs[j].id # t) => s[i][t] = Gone
           S == {i \in Nat : i <= Len(evs) => Same(i)}
<1>3. 0 \in S
  <2>1. s[0] = NoSessions /\ z[0] = NoSessions
    BY <1>0, <1>1, <1>2 DEF ReplayRun
  <2>2. NoSessions \in Expiries /\ \A t \in SessionId : NoSessions[t] = Gone
    BY DEF NoSessions, Expiries
  <2> QED BY <2>1, <2>2
<1>4. ASSUME NEW i \in Nat, i \in S PROVE i + 1 \in S
  <2>1. SUFFICES ASSUME i + 1 <= Len(evs) PROVE Same(i + 1)
    OBVIOUS
  <2>2. i + 1 \in 0..Len(evs) /\ (i + 1) - 1 = i /\ i + 1 # 0 /\ i + 1 \in 1..Len(evs) /\ Same(i)
    BY <1>0, <1>4, <2>1
  <2> DEFINE e == evs[i + 1]
  <2>3. e \in SessionEvent
    BY <2>2
  <2>4. /\ e.id \in SessionId /\ e.expires \in Expiry \cup {Gone}
        /\ e.kind = "deleted" => e.expires = Gone
    BY <2>3 DEF SessionEvent
  <2>5. e.kind = "deleted" \/ e.expires \in Expiry
    BY <2>3 DEF SessionEvent
  <2>6. /\ s[i + 1] = [s[i] EXCEPT ![e.id] = IF e.kind = "deleted" THEN now ELSE e.expires]
        /\ z[i + 1] = [z[i] EXCEPT ![e.id] = IF e.kind = "deleted" THEN 0 ELSE e.expires]
    BY <1>1, <1>2, <2>2 DEF ReplayRun, ReplayLine
  <2> HIDE DEF e
  <2>7. s[i + 1] \in Expiries /\ z[i + 1] \in Expiries
    BY <1>0, <2>2, <2>4, <2>5, <2>6 DEF Expiries
  <2>8. ASSUME NEW t \in SessionId
        PROVE  s[i + 1][t] = z[i + 1][t] \/ (z[i + 1][t] = Gone /\ s[i + 1][t] = now)
    <3>1. CASE t = e.id
      BY <2>2, <2>4, <2>6, <3>1 DEF Expiries, Gone
    <3>2. CASE t # e.id
      BY <2>2, <2>6, <3>2 DEF Expiries
    <3> QED BY <3>1, <3>2
  <2>9. ASSUME NEW t \in SessionId, \A j \in 1..(i + 1) : evs[j].id # t
        PROVE  s[i + 1][t] = Gone
    <3>1. e.id # t
      BY <2>2, <2>9 DEF e
    <3>2. \A j \in 1..i : evs[j].id # t
      BY <2>9
    <3> QED BY <2>2, <2>6, <3>1, <3>2 DEF Expiries
  <2> QED BY <2>7, <2>8, <2>9
<1>5. Nat \subseteq S
  <2> HIDE DEF S
  <2> QED BY <1>3, <1>4, SetInduction
<1>6. Same(Len(evs))
  BY <1>0, <1>5
<1>7. ReplayedSessions(evs, now) = s[Len(evs)] /\ ReplayedSessions(evs, 0) = z[Len(evs)]
  BY <1>1, <1>2, ReplayIs
<1> QED BY <1>0, <1>6, <1>7

----------------------------------------------------------------------------
(* The inductive invariant. *)

\* What the log says of each session whatever the time: its expiry, or Gone.
LoggedExpiries == ReplayedSessions(sessionLog, 0)

InHands(r, t) == request[r] # NoRequest /\ TokenOf(request[r]) = t
StepOf(r, step) == request[r].step = step
Writing(r, why) == request[r].step \in {"writes", "applied"} /\ request[r].for = why
Deletes(r) == Writing(r, "logout") \/ Writing(r, "expire")

\* The expiry a request has in its hands.
ExpiryIn(q) == IF q.step = "read" THEN q.expires ELSE q.event.expires

NotInLog(t) == \A i \in DOMAIN sessionLog : sessionLog[i].id # t

\* The event of a request is of the kind its purpose asks for.
SessionKinds ==
    \A r \in Request :
        /\ Writing(r, "login") => request[r].event.kind = "created"
        /\ Writing(r, "touch") => request[r].event.kind \in {"created", "updated"}
        /\ Deletes(r) => request[r].event.kind = "deleted"

\* A token that a login has not stored yet is nowhere else.
LoginIsFresh ==
    \A r \in Request, t \in SessionId :
        (Writing(r, "login") /\ StepOf(r, "writes") /\ InHands(r, t)) =>
            /\ session[t] = Gone /\ t \notin expired /\ deleting # t /\ NotInLog(t)
            /\ \A p \in Request \ {r} : ~InHands(p, t)

\* A token is in the log, or with a request that will write it there.
Known(t) == ~NotInLog(t) \/ \E r \in Request : StepOf(r, "applied") /\ InHands(r, t)

AllKnown ==
    \A t \in SessionId :
        (\/ session[t] # Gone \/ t \in expired \/ deleting = t
         \/ \E r \in Request : InHands(r, t) /\ ~(Writing(r, "login") /\ StepOf(r, "writes")))
            => Known(t)

\* All that deal with a session since the last restart know the same expiry, and
\* the cleanup has collected none that is not over.
SameExpiry ==
    /\ \A r \in Request, t \in SessionId :
         (InHands(r, t) /\ ~Deletes(r)) =>
             /\ session[t] \in {Gone, ExpiryIn(request[r])}
             /\ t \in expired => ExpiryIn(request[r]) <= clock
             /\ \A p \in Request : (InHands(p, t) /\ ~Deletes(p)) =>
                  ExpiryIn(request[p]) = ExpiryIn(request[r])
    /\ \A t \in expired : session[t] <= clock

\* As long as no deletion met another request, whoever deletes a session is the
\* last to have it, and all others find it in the map.
Undisturbed ==
    \A t \in SessionId \ overlapped :
        /\ deleting = t => session[t] = Gone /\ \A r \in Request : ~InHands(r, t)
        /\ \A r \in Request : InHands(r, t) =>
             /\ Writing(r, "touch") => request[r].event.kind = "updated"
             /\ IF Deletes(r) /\ StepOf(r, "applied")
                THEN session[t] = Gone /\ \A p \in Request \ {r} : ~InHands(p, t)
                ELSE (Writing(r, "login") /\ StepOf(r, "writes")) \/ session[t] # Gone

\* Then the map and the log agree, except while a login or a deletion is between
\* the two.  What a restart brought back of a deleted session is over already.
MapAgrees ==
    \A t \in SessionId \ overlapped :
        \/ deleting = t
        \/ \E r \in Request : /\ InHands(r, t)
                              /\ Writing(r, "login") \/ (Deletes(r) /\ StepOf(r, "applied"))
        \/ session[t] = LoggedExpiries[t]
        \/ LoggedExpiries[t] = Gone /\ session[t] <= clock

\* After a logout nobody writes the session again.
LoggedOutIsGone ==
    \A t \in loggedOut \ overlapped :
        /\ LoggedExpiries[t] = Gone /\ session[t] <= clock /\ ~NotInLog(t)
        /\ \A r \in Request : InHands(r, t) => ~Writing(r, "login") /\ ~Writing(r, "touch")

SessionInv ==
    /\ SessionTypeOK /\ SessionKinds /\ LoginIsFresh /\ AllKnown /\ SameExpiry
    /\ Undisturbed /\ MapAgrees /\ LoggedOutIsGone

LEMMA Shape ==
    ASSUME SessionTypeOK, NEW r \in Request
    PROVE  \/ request[r] = NoRequest /\ request[r].step = "idle"
           \/ /\ request[r] # NoRequest /\ request[r].step = "read"
              /\ request[r].for \in {"touch", "logout"} /\ request[r].id \in SessionId
              /\ request[r].expires \in Expiry /\ TokenOf(request[r]) = request[r].id
           \/ /\ request[r] # NoRequest /\ request[r].step \in {"writes", "applied"}
              /\ request[r].for \in {"login", "touch", "logout", "expire"}
              /\ request[r].event \in SessionEvent /\ TokenOf(request[r]) = request[r].event.id
              /\ request[r].event.id \in SessionId
<1>1. request[r] \in Requests
  BY DEF SessionTypeOK
<1>2. CASE request[r] = NoRequest
  BY <1>2 DEF NoRequest
<1>3. CASE request[r] \in [step : {"read"}, for : {"touch", "logout"}, id : SessionId, expires : Expiry]
  BY <1>3 DEF NoRequest, TokenOf
<1>4. CASE request[r] \in [step : {"writes", "applied"}, for : {"login", "touch", "logout", "expire"},
                           event : SessionEvent]
  <2>1. request[r].event \in SessionEvent
    BY <1>4
  <2>2. request[r].event.id \in SessionId
    BY <2>1 DEF SessionEvent
  <2> QED BY <1>4, <2>1, <2>2 DEF NoRequest, TokenOf
<1> QED BY <1>1, <1>2, <1>3, <1>4 DEF Requests

\* The values that are compared are numbers.
LEMMA Numbers ==
    ASSUME SessionTypeOK, SessionKinds
    PROVE  /\ clock \in Nat /\ \A t \in SessionId : session[t] \in Nat
           /\ \A r \in Request, t \in SessionId :
                InHands(r, t) /\ ~Deletes(r) => ExpiryIn(request[r]) \in Expiry
           /\ Expiry \subseteq Nat \ {Gone}
<1>1. clock \in Nat /\ Expiry \subseteq Nat \ {Gone} /\ Gone \in Nat
  BY SessionAssumption DEF SessionTypeOK, Clock, Expiry, Gone
<1>2. \A t \in SessionId : session[t] \in Nat
  BY <1>1 DEF SessionTypeOK
<1>3. ASSUME NEW r \in Request, NEW t \in SessionId, InHands(r, t), ~Deletes(r)
      PROVE  ExpiryIn(request[r]) \in Expiry
  <2>1. CASE request[r].step = "read"
    BY <2>1, <1>3, Shape DEF ExpiryIn
  <2>2. CASE request[r].step # "read"
    <3>1. request[r].event \in SessionEvent /\ request[r].event.kind # "deleted"
      BY <1>3, <2>2, Shape DEF InHands, Deletes, Writing, SessionKinds
    <3> QED BY <2>2, <3>1 DEF ExpiryIn, SessionEvent
  <2> QED BY <2>1, <2>2
<1> QED BY <1>1, <1>2, <1>3

\* One more line in the log.
LEMMA LogGrows ==
    ASSUME SessionTypeOK, NEW e \in SessionEvent, sessionLog' = Append(sessionLog, e)
    PROVE  /\ LoggedExpiries \in Expiries /\ e.id \in SessionId
           /\ LoggedExpiries' = [LoggedExpiries EXCEPT ![e.id] = e.expires]
           /\ \A t : NotInLog(t)' <=> (NotInLog(t) /\ e.id # t)
<1>1. sessionLog \in Seq(SessionEvent) /\ clock \in Clock
  BY DEF SessionTypeOK
<1>2. LoggedExpiries \in Expiries
  BY <1>1, ReplayTime DEF LoggedExpiries
<1>3. e.id \in SessionId /\ (e.kind = "deleted" => e.expires = 0)
  BY DEF SessionEvent, Gone
<1>4. LoggedExpiries' = ReplayLine(LoggedExpiries, e, 0)
  BY <1>1, ReplayAppend DEF LoggedExpiries
<1>5. ASSUME NEW t PROVE NotInLog(t)' <=> (NotInLog(t) /\ e.id # t)
  <2>1. /\ DOMAIN sessionLog = 1..Len(sessionLog) /\ DOMAIN sessionLog' = 1..(Len(sessionLog) + 1)
        /\ \A i \in 1..Len(sessionLog) : sessionLog'[i] = sessionLog[i]
        /\ sessionLog'[Len(sessionLog) + 1] = e /\ Len(sessionLog) \in Nat
    BY <1>1
  <2> QED BY <2>1 DEF NotInLog
<1> QED BY <1>2, <1>3, <1>4, <1>5 DEF ReplayLine

\* A step of request r leaves the others as they are.
LEMMA OthersKeep ==
    ASSUME NEW r \in Request, NEW p \in Request, p # r, NEW q, request' = [request EXCEPT ![r] = q]
    PROVE  /\ request'[p] = request[p] /\ \A t : InHands(p, t)' = InHands(p, t)
           /\ \A why : Writing(p, why)' = Writing(p, why)
           /\ \A s : StepOf(p, s)' = StepOf(p, s)
           /\ Deletes(p)' = Deletes(p)
  BY DEF InHands, Writing, StepOf, Deletes, TokenOf

LEMMA LoginStep ==
    ASSUME SessionInv, NEW r \in Request, NEW t \in SessionId, Login(r, t)
    PROVE  SessionInv'
<1> USE SessionAssumption, NoTokenAssumption
<1>1. /\ StepOf(r, "writes")' /\ Writing(r, "login")' /\ ~Deletes(r)' /\ \A u : InHands(r, u)' <=> u = t
     /\ \A why : why # "login" => ~Writing(r, why)'
  BY DEF SessionInv, SessionTypeOK, Login, StepOf, Writing, Deletes, InHands, TokenOf,
       NoRequest
<1>2. \A p \in Request \ {r} : request'[p] = request[p] /\ \A u : InHands(p, u)' = InHands(p, u)
  BY OthersKeep DEF Login
<1>3. \A p \in Request : ~InHands(p, t)
  BY DEF Login, InHands
<1>4. NotInLog(t) /\ ~Known(t)
  BY <1>3 DEF Login, NotInLog, Known
<1>5. session[t] = Gone /\ t \notin expired /\ deleting # t
  BY <1>4 DEF SessionInv, AllKnown
<1>6. \A u : NotInLog(u)' = NotInLog(u)
  BY DEF Login, NotInLog
<1>7. SessionTypeOK'
  BY DEF SessionInv, SessionTypeOK, Login, Requests, SessionEvent, Clock, Expiry
<1>8. SessionKinds'
  BY DEF SessionInv, SessionKinds, Login, Writing, Deletes
<1>9. LoginIsFresh'
  <2>1. SUFFICES ASSUME NEW p \in Request, NEW u \in SessionId,
                        Writing(p, "login")', StepOf(p, "writes")', InHands(p, u)'
                 PROVE  /\ session'[u] = Gone /\ u \notin expired' /\ deleting' # u /\ NotInLog(u)'
                        /\ \A q \in Request \ {p} : ~InHands(q, u)'
    BY DEF LoginIsFresh
  <2>2. CASE p = r
    BY <1>1, <1>2, <1>3, <1>4, <1>5, <1>6, <2>1, <2>2 DEF Login
  <2>3. CASE p # r
    <3>1. InHands(p, u) /\ u # t /\ Writing(p, "login") /\ StepOf(p, "writes")
      BY <1>2, <1>3, <2>1, <2>3 DEF Writing, StepOf
    <3> QED BY <1>1, <1>2, <1>6, <2>3, <3>1 DEF Login, SessionInv, LoginIsFresh
  <2> QED BY <2>2, <2>3
<1>10. AllKnown'
  BY DEF SessionInv, AllKnown, Login, InHands, StepOf, Writing, NotInLog, Known
<1>11. SameExpiry'
  <2>1. ASSUME NEW p \in Request, NEW u \in SessionId, InHands(p, u)', ~Deletes(p)'
        PROVE  /\ session'[u] \in {Gone, ExpiryIn(request'[p])}
               /\ u \in expired' => ExpiryIn(request'[p]) <= clock'
               /\ \A q \in Request : (InHands(q, u)' /\ ~Deletes(q)') =>
                    ExpiryIn(request'[q]) = ExpiryIn(request'[p])
    <3>1. CASE p = r
      BY <1>1, <1>2, <1>3, <1>5, <2>1, <3>1 DEF Login
    <3>2. CASE p # r
      <4>1. InHands(p, u) /\ u # t /\ ~Deletes(p) /\ request'[p] = request[p]
        BY <1>2, <1>3, <2>1, <3>2 DEF Deletes, Writing
      <4>2. \A q \in Request : InHands(q, u)' /\ ~Deletes(q)' =>
              InHands(q, u) /\ ~Deletes(q) /\ request'[q] = request[q]
        BY <1>1, <1>2, <4>1 DEF Deletes, Writing
      <4> QED BY <4>1, <4>2 DEF Login, SessionInv, SameExpiry
    <3> QED BY <3>1, <3>2
  <2>2. \A u \in expired' : session'[u] <= clock'
    BY DEF Login, SessionInv, SameExpiry
  <2> QED BY <2>1, <2>2 DEF SameExpiry
<1>12. Undisturbed'
  <2>1. SUFFICES ASSUME NEW u \in SessionId \ overlapped
                 PROVE  /\ deleting = u => session[u] = Gone /\ \A p \in Request : ~InHands(p, u)'
                        /\ \A p \in Request : InHands(p, u)' =>
                             /\ Writing(p, "touch")' => request'[p].event.kind = "updated"
                             /\ IF Deletes(p)' /\ StepOf(p, "applied")'
                                THEN session[u] = Gone /\ \A q \in Request \ {p} : ~InHands(q, u)'
                                ELSE (Writing(p, "login")' /\ StepOf(p, "writes")') \/ session[u] # Gone
    BY DEF Undisturbed, Login
  <2>2. CASE u = t
    BY <1>1, <1>2, <1>3, <1>5, <2>2
  <2>3. CASE u # t
    <3>1. ~InHands(r, u)' /\ ~InHands(r, u)
      BY <1>1, <2>3 DEF Login, InHands
    <3>2. \A p \in Request : InHands(p, u)' <=> InHands(p, u)
      BY <1>2, <3>1
    <3> QED BY <1>2, <3>1, <3>2 DEF SessionInv, Undisturbed, Deletes, Writing, StepOf
  <2> QED BY <2>2, <2>3
<1>13. MapAgrees'
  BY DEF SessionInv, MapAgrees, Login, InHands, StepOf, Writing, Deletes, LoggedExpiries
<1>14. LoggedOutIsGone'
  BY DEF SessionInv, LoggedOutIsGone, Login, InHands, Writing, TokenOf, NotInLog, LoggedExpiries
<1> QED BY <1>7, <1>8, <1>9, <1>10, <1>11, <1>12, <1>13, <1>14 DEF SessionInv

LEMMA GetTouchStep ==
    ASSUME SessionInv, NEW r \in Request, NEW t \in SessionId, Get(r, "touch", t)
    PROVE  SessionInv'
<1> USE SessionAssumption, NoTokenAssumption
<1>1. SessionTypeOK'
  BY DEF SessionInv, SessionTypeOK, Get, Requests
<1>2. SessionKinds'
  BY DEF SessionInv, SessionKinds, Get, Writing, Deletes
<1>3. LoginIsFresh'
  BY DEF SessionInv, LoginIsFresh, Get, InHands, StepOf, Writing, TokenOf, NotInLog
<1>4. AllKnown'
  BY DEF SessionInv, LoginIsFresh, AllKnown, Get, InHands, StepOf, Writing, TokenOf,
       NotInLog, Known
<1>5. SameExpiry'
  BY DEF SessionInv, SameExpiry, Get, InHands, Writing, Deletes, ExpiryIn, TokenOf
<1>6. Undisturbed'
  BY DEF SessionInv, Undisturbed, Get, InHands, StepOf, Writing, Deletes, TokenOf
<1>7. MapAgrees'
  BY DEF SessionInv, MapAgrees, Get, InHands, StepOf, Writing, Deletes, LoggedExpiries
<1>8. LoggedOutIsGone'
  BY DEF SessionInv, LoggedOutIsGone, Get, InHands, Writing, NotInLog, LoggedExpiries
<1> QED BY <1>1, <1>2, <1>3, <1>4, <1>5, <1>6, <1>7, <1>8 DEF SessionInv

LEMMA GetLogoutStep ==
    ASSUME SessionInv, NEW r \in Request, NEW t \in SessionId, Get(r, "logout", t)
    PROVE  SessionInv'
<1> USE SessionAssumption, NoTokenAssumption
<1>1. SessionTypeOK'
  BY DEF SessionInv, SessionTypeOK, Get, Requests
<1>2. SessionKinds'
  BY DEF SessionInv, SessionKinds, Get, Writing, Deletes
<1>3. LoginIsFresh'
  BY DEF SessionInv, LoginIsFresh, Get, InHands, StepOf, Writing, TokenOf, NotInLog
<1>4. AllKnown'
  BY DEF SessionInv, AllKnown, Get, InHands, StepOf, Writing, TokenOf, NotInLog, Known
<1>5. SameExpiry'
  BY DEF SessionInv, SameExpiry, Get, InHands, Writing, Deletes, ExpiryIn, TokenOf
<1>6. Undisturbed'
  BY DEF SessionInv, Undisturbed, Get, InHands, StepOf, Writing, Deletes, TokenOf
<1>7. MapAgrees'
  BY DEF SessionInv, MapAgrees, Get, InHands, StepOf, Writing, Deletes, LoggedExpiries
<1>8. LoggedOutIsGone'
  BY DEF SessionInv, LoggedOutIsGone, Get, InHands, Writing, NotInLog, LoggedExpiries
<1> QED BY <1>1, <1>2, <1>3, <1>4, <1>5, <1>6, <1>7, <1>8 DEF SessionInv

LEMMA DecideStep ==
    ASSUME SessionInv, NEW r \in Request, Decide(r)
    PROVE  SessionInv'
<1> USE SessionAssumption, NoTokenAssumption
<1>1. SessionTypeOK'
  BY DEF SessionInv, SessionTypeOK, Decide, NoRequest, Requests, SessionEvent
<1>2. SessionKinds'
  BY DEF SessionInv, SessionKinds, Decide, Writing, Deletes
<1>3. LoginIsFresh'
  BY DEF SessionInv, LoginIsFresh, LoggedOutIsGone, Decide, InHands, StepOf, Writing,
       TokenOf, NoRequest, NotInLog
<1>4. AllKnown'
  BY DEF SessionInv, AllKnown, Decide, InHands, StepOf, Writing, TokenOf, NoRequest,
       NotInLog, Known
<1>5. SameExpiry'
  BY DEF SessionInv, SameExpiry, Decide, IsExpired, InHands, Writing, Deletes, ExpiryIn,
       TokenOf, NoRequest
<1>6. Undisturbed'
  BY DEF SessionInv, Undisturbed, Decide, InHands, StepOf, Writing, Deletes, TokenOf,
       NoRequest
<1>7. MapAgrees'
  BY DEF SessionInv, MapAgrees, Decide, InHands, StepOf, Writing, Deletes, LoggedExpiries
<1>8. LoggedOutIsGone'
  BY DEF SessionInv, SessionTypeOK, SameExpiry, Undisturbed, LoggedOutIsGone, Decide,
       IsExpired, InHands, Writing, Deletes, ExpiryIn, TokenOf, NoRequest, NotInLog,
       LoggedExpiries
<1> QED BY <1>1, <1>2, <1>3, <1>4, <1>5, <1>6, <1>7, <1>8 DEF SessionInv

LEMMA ApplyStep ==
    ASSUME SessionInv, NEW r \in Request, Apply(r)
    PROVE  SessionInv'
<1> USE SessionAssumption, NoTokenAssumption
<1> DEFINE ev == request[r].event
<1>1. /\ StepOf(r, "writes") /\ InHands(r, ev.id) /\ ev \in SessionEvent /\ ev.id \in SessionId
      /\ Writing(r, "login") \/ Writing(r, "touch") \/ Deletes(r)
  BY Shape DEF SessionInv, Apply, StepOf, InHands, Writing, Deletes
<1>2. request'[r] = [request[r] EXCEPT !.step = "applied"]
  BY DEF SessionInv, SessionTypeOK, Apply
<1>3. /\ request'[r].step = "applied" /\ request'[r].event = ev
      /\ request'[r].for = request[r].for
  <2>1. request[r] \in [step : {"writes", "applied"}, for : {"login", "touch", "logout", "expire"},
                        event : SessionEvent]
    BY DEF SessionInv, SessionTypeOK, Apply, Requests, NoRequest
  <2> QED BY <1>2, <2>1
<1>4. /\ StepOf(r, "applied")' /\ \A u : InHands(r, u)' <=> u = ev.id
      /\ \A why : Writing(r, why)' <=> Writing(r, why)
      /\ Deletes(r)' <=> Deletes(r)
      /\ ExpiryIn(request'[r]) = ev.expires /\ ExpiryIn(request[r]) = ev.expires
  BY <1>1, <1>3 DEF StepOf, InHands, TokenOf, NoRequest, Writing, Deletes, ExpiryIn
<1>5. /\ \A p \in Request \ {r} : request'[p] = request[p]
      /\ \A p \in Request \ {r}, u \in SessionId : InHands(p, u)' <=> InHands(p, u)
      /\ \A p \in Request \ {r} : Deletes(p)' <=> Deletes(p)
  BY DEF SessionInv, SessionTypeOK, Apply, InHands, Deletes, Writing
<1>6. /\ \A u \in SessionId : u # ev.id => session'[u] = session[u]
      /\ Writing(r, "login") => session'[ev.id] = ev.expires
      /\ Deletes(r) => session'[ev.id] = Gone
      /\ ev.kind = "updated" => session' = session
      /\ session'[ev.id] \in {session[ev.id], ev.expires, Gone}
      /\ Deletes(r) \/ session'[ev.id] \in {session[ev.id], ev.expires}
  BY <1>1 DEF SessionInv, SessionTypeOK, SessionKinds, Apply, ApplyEvent, Deletes
<1>7. /\ clock' = clock /\ expired' = expired /\ deleting' = deleting /\ loggedOut' = loggedOut
      /\ LoggedExpiries' = LoggedExpiries /\ \A u : NotInLog(u)' <=> NotInLog(u)
      /\ overlapped \subseteq overlapped'
      /\ Deletes(r) /\ ev.id \notin overlapped' =>
           deleting # ev.id /\ \A p \in Request \ {r} : ~InHands(p, ev.id)
  BY DEF SessionInv, SessionKinds, Apply, LoggedExpiries, NotInLog, LeftWith, InHands
<1> HIDE DEF ev
<1>8. SessionTypeOK'
  <2>1. request' \in [Request -> Requests]
    <3>1. request'[r] \in Requests
      <4>1. request[r] \in [step : {"writes", "applied"}, for : {"login", "touch", "logout", "expire"},
                            event : SessionEvent]
        BY DEF SessionInv, SessionTypeOK, Apply, Requests, NoRequest
      <4> QED BY <1>2, <4>1 DEF Requests
    <3> QED BY <1>5, <3>1 DEF SessionInv, SessionTypeOK, Apply
  <2>2. session' \in [SessionId -> Expiry \cup {Gone}]
    BY <1>1 DEF SessionInv, SessionTypeOK, Apply, ApplyEvent, SessionEvent, ev
  <2>3. overlapped' \subseteq SessionId
    BY <1>1 DEF SessionInv, SessionTypeOK, Apply, LeftWith, ev
  <2> QED BY <2>1, <2>2, <2>3 DEF SessionInv, SessionTypeOK, Apply
<1>9. SessionKinds'
  BY DEF SessionInv, SessionKinds, Apply, Writing, Deletes
<1>10. LoginIsFresh'
  <2>1. SUFFICES ASSUME NEW p \in Request, NEW t \in SessionId,
                        Writing(p, "login")', StepOf(p, "writes")', InHands(p, t)'
                 PROVE  /\ session'[t] = Gone /\ t \notin expired' /\ deleting' # t
                        /\ NotInLog(t)' /\ \A q \in Request \ {p} : ~InHands(q, t)'
    BY DEF LoginIsFresh
  <2>2. p # r
    BY <1>4, <2>1 DEF StepOf
  <2>3. Writing(p, "login") /\ StepOf(p, "writes") /\ InHands(p, t)
    BY <1>5, <2>1, <2>2 DEF Writing, StepOf, InHands
  <2>4. /\ session[t] = Gone /\ t \notin expired /\ deleting # t /\ NotInLog(t)
        /\ \A q \in Request \ {p} : ~InHands(q, t)
    BY <2>3 DEF SessionInv, LoginIsFresh
  <2>5. t # ev.id
    BY <1>1, <2>2, <2>4
  <2>6. \A q \in Request \ {p} : ~InHands(q, t)'
    BY <1>4, <1>5, <2>4, <2>5
  <2> QED BY <1>6, <1>7, <2>4, <2>5, <2>6
<1>11. AllKnown'
  <2>1. SUFFICES ASSUME NEW t \in SessionId,
                        \/ session'[t] # Gone \/ t \in expired' \/ deleting' = t
                        \/ \E p \in Request : /\ InHands(p, t)'
                                             /\ ~(Writing(p, "login")' /\ StepOf(p, "writes")')
                 PROVE  Known(t)'
    BY DEF AllKnown
  <2>2. CASE t = ev.id
    BY <1>4, <2>2 DEF Known
  <2>3. CASE t # ev.id
    <3>1. \A p \in Request : InHands(p, t)' => /\ p # r /\ InHands(p, t) /\ request'[p] = request[p]
      BY <1>4, <1>5, <2>3
    <3>2. \A p \in Request \ {r} : (Writing(p, "login")' <=> Writing(p, "login"))
                                    /\ \A why : StepOf(p, why)' <=> StepOf(p, why)
      BY <1>5 DEF Writing, StepOf
    <3>3. Known(t)
      BY <1>6, <1>7, <2>1, <2>3, <3>1, <3>2 DEF SessionInv, AllKnown
    <3>4. ASSUME NEW p \in Request, StepOf(p, "applied"), InHands(p, t)
          PROVE  StepOf(p, "applied")' /\ InHands(p, t)'
      <4>1. p # r
        BY <1>1, <3>4 DEF StepOf
      <4> QED BY <1>5, <3>2, <3>4, <4>1
    <3> QED BY <1>7, <3>3, <3>4 DEF Known
  <2> QED BY <2>2, <2>3
<1>12. SameExpiry'
  <2>1. ASSUME NEW p \in Request, NEW u \in SessionId, InHands(p, u)', ~Deletes(p)'
        PROVE  /\ session'[u] \in {Gone, ExpiryIn(request'[p])}
               /\ u \in expired' => ExpiryIn(request'[p]) <= clock'
               /\ \A q \in Request : (InHands(q, u)' /\ ~Deletes(q)') =>
                    ExpiryIn(request'[q]) = ExpiryIn(request'[p])
    <3>1. \A q \in Request : (InHands(q, u)' /\ ~Deletes(q)') =>
            InHands(q, u) /\ ~Deletes(q) /\ ExpiryIn(request'[q]) = ExpiryIn(request[q])
      BY <1>1, <1>4, <1>5
    <3>2. /\ session[u] \in {Gone, ExpiryIn(request[p])}
          /\ u \in expired => ExpiryIn(request[p]) <= clock
          /\ \A q \in Request : (InHands(q, u) /\ ~Deletes(q)) =>
               ExpiryIn(request[q]) = ExpiryIn(request[p])
      BY <2>1, <3>1 DEF SessionInv, SameExpiry
    <3>3. session'[u] \in {Gone, ExpiryIn(request[p])}
      <4>1. CASE u = ev.id /\ ~Deletes(r)
        BY <1>1, <1>4, <1>6, <3>2, <4>1
      <4>2. CASE u # ev.id \/ Deletes(r)
        BY <1>6, <3>2, <4>2
      <4> QED BY <4>1, <4>2
    <3> QED BY <1>7, <2>1, <3>1, <3>2, <3>3
  <2>2. ASSUME NEW u \in expired PROVE session'[u] <= clock
    <3>1. u \in SessionId /\ session[u] <= clock /\ Gone <= clock
      BY Numbers DEF SessionInv, SessionTypeOK, SameExpiry, Gone
    <3>2. CASE u = ev.id /\ ~Deletes(r)
      <4>1. ev.expires <= clock
        BY <1>1, <1>4, <3>2 DEF SessionInv, SameExpiry
      <4> QED BY <1>6, <3>1, <3>2, <4>1
    <3>3. CASE u # ev.id \/ Deletes(r)
      BY <1>6, <3>1, <3>3
    <3> QED BY <3>2, <3>3
  <2> QED BY <1>7, <2>1, <2>2 DEF SameExpiry
<1>13. Undisturbed'
  <2>1. SUFFICES ASSUME NEW u \in SessionId \ overlapped'
                 PROVE  /\ deleting = u => session'[u] = Gone /\ \A p \in Request : ~InHands(p, u)'
                        /\ \A p \in Request : InHands(p, u)' =>
                             /\ Writing(p, "touch")' => request'[p].event.kind = "updated"
                             /\ IF Deletes(p)' /\ StepOf(p, "applied")'
                                THEN session'[u] = Gone /\ \A q \in Request \ {p} : ~InHands(q, u)'
                                ELSE (Writing(p, "login")' /\ StepOf(p, "writes")') \/ session'[u] # Gone
    BY <1>7 DEF Undisturbed
  <2>2. u \in SessionId \ overlapped
    BY <1>7, <2>1
  <2>3. CASE u # ev.id
    <3>1. \A p \in Request : InHands(p, u)' <=> InHands(p, u)
      BY <1>1, <1>4, <1>5, <2>3 DEF InHands
    <3>2. ~InHands(r, u)
      BY <1>4, <2>3, <3>1
    <3>3. \A p \in Request : InHands(p, u) => request'[p] = request[p]
      BY <1>5, <3>2
    <3> QED BY <1>6, <2>2, <2>3, <3>1, <3>3 DEF SessionInv, Undisturbed, Deletes, Writing, StepOf
  <2>4. CASE u = ev.id /\ Deletes(r)
    BY <1>3, <1>4, <1>5, <1>6, <1>7, <2>1, <2>4 DEF Deletes, Writing
  <2>5. CASE u = ev.id /\ Writing(r, "login")
    <3>1. deleting # u /\ \A p \in Request \ {r} : ~InHands(p, u)
      BY <1>1, <2>5 DEF SessionInv, LoginIsFresh
    <3>2. ev.expires # Gone
      <4>1. ev.kind = "created"
        BY <2>5 DEF SessionInv, SessionKinds, ev
      <4> QED BY <1>1, <4>1, SessionAssumption DEF SessionEvent, Expiry, Gone
    <3>3. ~Writing(r, "touch")' /\ ~Deletes(r)'
      BY <1>4, <2>5 DEF Writing, Deletes
    <3> QED BY <1>5, <1>6, <2>5, <3>1, <3>2, <3>3
  <2>6. CASE u = ev.id /\ Writing(r, "touch")
    <3>1. ev.kind = "updated" /\ deleting # u
      BY <1>1, <2>2, <2>6 DEF SessionInv, Undisturbed, ev
    <3>2. session' = session
      BY <1>6, <3>1
    <3>3. session[u] # Gone /\ ~Deletes(r)
      BY <1>1, <2>2, <2>6 DEF SessionInv, Undisturbed, Deletes, Writing, StepOf
    <3>4. ASSUME NEW p \in Request \ {r}, InHands(p, u)
          PROVE  /\ Writing(p, "touch")' => request'[p].event.kind = "updated"
                 /\ ~(Deletes(p)' /\ StepOf(p, "applied")')
      <4>1. request'[p] = request[p]
        BY <1>5
      <4>2. ~(Deletes(p) /\ StepOf(p, "applied"))
        BY <2>2, <3>3, <3>4 DEF SessionInv, Undisturbed
      <4> QED BY <2>2, <3>4, <4>1, <4>2 DEF SessionInv, Undisturbed, Deletes, Writing, StepOf
    <3> QED BY <1>3, <1>4, <1>5, <2>6, <3>1, <3>2, <3>3, <3>4
  <2> QED BY <1>1, <2>3, <2>4, <2>5, <2>6
<1>14. MapAgrees'
  BY Shape DEF SessionInv, SessionTypeOK, SessionKinds, Undisturbed, MapAgrees, Apply,
       ApplyEvent, InHands, StepOf, Writing, Deletes, ExpiryIn, TokenOf, NoRequest, LoggedExpiries
<1>15. LoggedOutIsGone'
  <2>1. SUFFICES ASSUME NEW u \in loggedOut \ overlapped'
                 PROVE  /\ LoggedExpiries[u] = Gone /\ session'[u] <= clock /\ ~NotInLog(u)
                        /\ \A p \in Request : InHands(p, u)' => ~Writing(p, "login")' /\ ~Writing(p, "touch")'
    BY <1>7 DEF LoggedOutIsGone
  <2>2. /\ u \in SessionId /\ LoggedExpiries[u] = Gone /\ session[u] <= clock /\ ~NotInLog(u)
        /\ \A p \in Request : InHands(p, u) => ~Writing(p, "login") /\ ~Writing(p, "touch")
    BY <1>7, <2>1 DEF SessionInv, SessionTypeOK, LoggedOutIsGone
  <2>3. session'[u] <= clock
    <3>1. Gone <= clock
      BY Numbers DEF SessionInv, Gone
    <3>2. u = ev.id => Deletes(r)
      BY <1>1, <2>2
    <3> QED BY <1>6, <2>2, <3>1, <3>2
  <2>4. ASSUME NEW p \in Request, InHands(p, u)' PROVE ~Writing(p, "login")' /\ ~Writing(p, "touch")'
    <3>1. CASE p = r
      BY <1>1, <1>4, <2>2, <2>4, <3>1
    <3>2. CASE p # r
      BY <1>5, <2>2, <2>4, <3>2 DEF Writing
    <3> QED BY <3>1, <3>2
  <2> QED BY <2>2, <2>3, <2>4
<1> QED BY <1>8, <1>9, <1>10, <1>11, <1>12, <1>13, <1>14, <1>15 DEF SessionInv

LEMMA PersistStep ==
    ASSUME SessionInv, NEW r \in Request, Persist(r)
    PROVE  SessionInv'
<1> USE SessionAssumption, NoTokenAssumption
<1> DEFINE ev == request[r].event
<1>1. /\ StepOf(r, "applied") /\ InHands(r, ev.id) /\ ev \in SessionEvent /\ ev.id \in SessionId
      /\ Writing(r, "login") \/ Writing(r, "touch") \/ Deletes(r)
      /\ sessionLog' = Append(sessionLog, ev)
  BY Shape DEF SessionInv, Persist, StepOf, InHands, Writing, Deletes
<1>2. /\ LoggedExpiries \in Expiries /\ LoggedExpiries' = [LoggedExpiries EXCEPT ![ev.id] = ev.expires]
      /\ \A t : NotInLog(t)' <=> (NotInLog(t) /\ ev.id # t)
  <2>1. SessionTypeOK /\ ev \in SessionEvent /\ sessionLog' = Append(sessionLog, ev)
    BY <1>1 DEF SessionInv
  <2> HIDE DEF ev
  <2> QED BY <2>1, LogGrows
<1>3. \A t \in SessionId : ~InHands(r, t)'
  BY DEF SessionInv, SessionTypeOK, Persist, InHands
<1>4. /\ \A p \in Request \ {r} : request'[p] = request[p]
      /\ \A p \in Request \ {r}, t \in SessionId : InHands(p, t)' <=> InHands(p, t)
      /\ \A p \in Request \ {r} : Deletes(p)' <=> Deletes(p)
  BY DEF SessionInv, SessionTypeOK, Persist, InHands, Deletes, Writing
<1>5. /\ clock' = clock /\ session' = session /\ expired' = expired /\ deleting' = deleting
      /\ overlapped' = overlapped
      /\ loggedOut' \subseteq loggedOut \cup {ev.id}
      /\ ev.id \notin loggedOut => (ev.id \in loggedOut' => Deletes(r))
      /\ loggedOut' \subseteq SessionId
  BY <1>1 DEF SessionInv, SessionTypeOK, Persist, Deletes, Writing
<1>6. Deletes(r) => ev.expires = Gone
  BY <1>1 DEF SessionInv, SessionKinds, SessionEvent, Deletes, Writing, Gone
<1>7. ~Deletes(r) => session[ev.id] \in {Gone, ev.expires}
  BY <1>1 DEF SessionInv, SameExpiry, ExpiryIn, StepOf
<1> HIDE DEF ev
<1>8. SessionTypeOK'
  BY DEF SessionInv, SessionTypeOK, Persist, NoRequest, Requests, SessionEvent
<1>9. SessionKinds'
  BY DEF SessionInv, SessionKinds, Persist, Writing, Deletes, NoRequest
<1>10. LoginIsFresh'
  BY DEF SessionInv, LoginIsFresh, Persist, InHands, StepOf, Writing, TokenOf, NoRequest,
       NotInLog
<1>11. AllKnown'
  <2>1. SUFFICES ASSUME NEW t \in SessionId,
                        \/ session[t] # Gone \/ t \in expired \/ deleting = t
                        \/ \E p \in Request :
                             InHands(p, t)' /\ ~(Writing(p, "login")' /\ StepOf(p, "writes")')
                 PROVE  Known(t)'
    BY <1>5 DEF AllKnown
  <2>2. CASE t = ev.id
    BY <1>2, <2>2 DEF Known
  <2>3. CASE t # ev.id
    <3>1. ~InHands(r, t)
      BY <1>1, <2>3 DEF InHands
    <3>2. \A p \in Request : InHands(p, t)' => p # r /\ InHands(p, t) /\ request'[p] = request[p]
      BY <1>3, <1>4
    <3>3. Known(t)
      BY <2>1, <3>2 DEF SessionInv, AllKnown, Writing, StepOf
    <3>4. \A p \in Request : InHands(p, t) => p # r /\ InHands(p, t)' /\ request'[p] = request[p]
      BY <1>4, <3>1
    <3> QED BY <1>2, <2>3, <3>3, <3>4 DEF Known, StepOf
  <2> QED BY <2>2, <2>3
<1>12. SameExpiry'
  BY DEF SessionInv, SameExpiry, Persist, InHands, Writing, Deletes
<1>13. Undisturbed'
  BY DEF SessionInv, Undisturbed, Persist, InHands, StepOf, Writing, Deletes
<1>14. MapAgrees'
  <2>1. SUFFICES ASSUME NEW t \in SessionId \ overlapped, deleting # t,
                        \A p \in Request :
                          ~(/\ InHands(p, t)'
                            /\ Writing(p, "login")' \/ (Deletes(p)' /\ StepOf(p, "applied")'))
                 PROVE  session[t] = LoggedExpiries'[t] \/ (LoggedExpiries'[t] = Gone /\ session[t] <= clock)
    BY <1>5 DEF MapAgrees
  <2>2. CASE t = ev.id
    <3>1. LoggedExpiries'[t] = ev.expires
      BY <1>1, <1>2, <2>2 DEF Expiries
    <3>2. CASE Deletes(r)
      <4>1. session[t] = Gone
        BY <1>1, <2>1, <2>2, <3>2 DEF SessionInv, Undisturbed
      <4> QED BY <1>6, <3>1, <3>2, <4>1
    <3>3. CASE ~Deletes(r)
      <4>1. session[t] # Gone
        BY <1>1, <2>1, <2>2, <3>3 DEF SessionInv, Undisturbed, StepOf
      <4> QED BY <1>7, <2>2, <3>1, <3>3, <4>1
    <3> QED BY <3>2, <3>3
  <2>3. CASE t # ev.id
    <3>1. ~InHands(r, t)
      BY <1>1, <2>3 DEF InHands
    <3>2. \A p \in Request : InHands(p, t) => p # r /\ InHands(p, t)' /\ request'[p] = request[p]
      BY <1>4, <3>1
    <3>3. \A p \in Request : ~(InHands(p, t) /\ (Writing(p, "login") \/ (Deletes(p) /\ StepOf(p, "applied"))))
      BY <2>1, <3>2 DEF Writing, Deletes, StepOf
    <3>4. LoggedExpiries'[t] = LoggedExpiries[t]
      BY <1>2, <2>3 DEF Expiries
    <3> QED BY <2>1, <3>3, <3>4 DEF SessionInv, MapAgrees
  <2> QED BY <2>2, <2>3
<1>15. LoggedOutIsGone'
  <2>1. SUFFICES ASSUME NEW t \in loggedOut', t \notin overlapped
                 PROVE  /\ LoggedExpiries'[t] = Gone /\ session[t] <= clock /\ ~NotInLog(t)'
                        /\ \A p \in Request : InHands(p, t)' => ~Writing(p, "login")' /\ ~Writing(p, "touch")'
    BY <1>5 DEF LoggedOutIsGone
  <2>2. t \in SessionId
    BY <1>5, <2>1
  <2>3. CASE t \in loggedOut
    <3>1. t = ev.id => Deletes(r)
      BY <1>1, <2>1, <2>3 DEF SessionInv, LoggedOutIsGone
    <3>2. LoggedExpiries'[t] = Gone /\ ~NotInLog(t)' /\ session[t] <= clock
      BY <1>2, <1>6, <2>1, <2>3, <2>2, <3>1 DEF SessionInv, LoggedOutIsGone, Expiries
    <3>3. \A p \in Request : InHands(p, t)' => p # r /\ InHands(p, t) /\ request'[p] = request[p]
      BY <1>3, <1>4, <2>2
    <3> QED BY <2>1, <2>3, <3>2, <3>3 DEF SessionInv, LoggedOutIsGone, Writing
  <2>4. CASE t \notin loggedOut
    <3>1. t = ev.id /\ Deletes(r)
      BY <1>5, <2>1, <2>4
    <3>2. session[t] = Gone /\ \A p \in Request \ {r} : ~InHands(p, t)
      BY <1>1, <2>1, <2>2, <3>1 DEF SessionInv, Undisturbed
    <3>3. Gone <= clock
      BY Numbers DEF SessionInv, Gone
    <3>4. \A p \in Request : ~InHands(p, t)'
      BY <1>3, <1>4, <2>2, <3>2
    <3> QED BY <1>1, <1>2, <1>6, <3>1, <3>2, <3>3, <3>4 DEF Expiries
  <2> QED BY <2>3, <2>4
<1> QED BY <1>8, <1>9, <1>10, <1>11, <1>12, <1>13, <1>14, <1>15 DEF SessionInv

LEMMA CollectExpiredStep ==
    ASSUME SessionInv, CollectExpired
    PROVE  SessionInv'
<1> USE SessionAssumption, NoTokenAssumption
<1>1. SessionTypeOK'
  BY DEF SessionInv, SessionTypeOK, CollectExpired
<1>2. SessionKinds'
  BY DEF SessionInv, SessionKinds, CollectExpired, Writing, Deletes
<1>3. LoginIsFresh'
  BY DEF SessionInv, LoginIsFresh, CollectExpired, InHands, StepOf, Writing, NotInLog
<1>4. AllKnown'
  BY DEF SessionInv, AllKnown, CollectExpired, InHands, StepOf, Writing, NotInLog, Known
<1>5. SameExpiry'
  BY DEF SessionInv, SameExpiry, CollectExpired, IsExpired, InHands, Writing, Deletes
<1>6. Undisturbed'
  BY DEF SessionInv, Undisturbed, CollectExpired, InHands, StepOf, Writing, Deletes
<1>7. MapAgrees'
  BY DEF SessionInv, MapAgrees, CollectExpired, InHands, StepOf, Writing, Deletes, LoggedExpiries
<1>8. LoggedOutIsGone'
  BY DEF SessionInv, LoggedOutIsGone, CollectExpired, InHands, Writing, NotInLog, LoggedExpiries
<1> QED BY <1>1, <1>2, <1>3, <1>4, <1>5, <1>6, <1>7, <1>8 DEF SessionInv

LEMMA DeleteExpiredStep ==
    ASSUME SessionInv, NEW t \in SessionId, DeleteExpired(t)
    PROVE  SessionInv'
<1> USE SessionAssumption, NoTokenAssumption
<1>1. /\ t \in expired /\ session' = [session EXCEPT ![t] = Gone] /\ deleting' = t
      /\ session'[t] = Gone /\ \A u \in SessionId : u # t => session'[u] = session[u]
      /\ overlapped \subseteq overlapped' /\ deleting = NoToken
  BY DEF SessionInv, SessionTypeOK, DeleteExpired, ApplyEvent
<1>2. /\ \A r \in Request : request'[r] = request[r]
      /\ \A r \in Request, u \in SessionId : InHands(r, u)' <=> InHands(r, u)
      /\ \A r \in Request : Deletes(r)' <=> Deletes(r)
      /\ clock' = clock /\ loggedOut' = loggedOut /\ LoggedExpiries' = LoggedExpiries
      /\ \A u : NotInLog(u)' <=> NotInLog(u)
  BY DEF DeleteExpired, InHands, Deletes, Writing, LoggedExpiries, NotInLog
<1>3. t \notin overlapped' => \A r \in Request : ~InHands(r, t)
  <2>1. NoToken \notin Request
    BY NoTokenAssumption
  <2> QED BY <2>1 DEF DeleteExpired, LeftWith, InHands
<1>4. SessionTypeOK'
  BY DEF SessionInv, SessionTypeOK, DeleteExpired, ApplyEvent, LeftWith
<1>5. SessionKinds'
  BY DEF SessionInv, SessionKinds, DeleteExpired, Writing, Deletes
<1>6. LoginIsFresh'
  BY DEF SessionInv, LoginIsFresh, DeleteExpired, ApplyEvent, InHands, StepOf, Writing,
       NotInLog
<1>7. AllKnown'
  BY DEF SessionInv, AllKnown, DeleteExpired, ApplyEvent, InHands, StepOf, Writing,
       NotInLog, Known
<1>8. SameExpiry'
  BY DEF SessionInv, SameExpiry, DeleteExpired, ApplyEvent, InHands, Writing, Deletes
<1>9. Undisturbed'
  <2>1. SUFFICES ASSUME NEW u \in SessionId \ overlapped'
                 PROVE  /\ t = u => session'[u] = Gone /\ \A p \in Request : ~InHands(p, u)
                        /\ \A p \in Request : InHands(p, u) =>
                             /\ Writing(p, "touch") => request[p].event.kind = "updated"
                             /\ IF Deletes(p) /\ StepOf(p, "applied")
                                THEN session'[u] = Gone /\ \A q \in Request \ {p} : ~InHands(q, u)
                                ELSE (Writing(p, "login") /\ StepOf(p, "writes")) \/ session'[u] # Gone
    BY <1>1, <1>2 DEF Undisturbed, Writing, StepOf
  <2>2. CASE u = t
    BY <1>1, <1>3, <2>1, <2>2
  <2>3. CASE u # t
    BY <1>1, <2>1, <2>3 DEF SessionInv, Undisturbed
  <2> QED BY <2>2, <2>3
<1>10. MapAgrees'
  BY DEF SessionInv, MapAgrees, DeleteExpired, ApplyEvent, InHands, StepOf, Writing,
       Deletes, LoggedExpiries
<1>11. LoggedOutIsGone'
  <2>1. Gone <= clock
    BY Numbers DEF SessionInv, Gone
  <2> QED BY <1>1, <1>2, <2>1 DEF SessionInv, SessionTypeOK, LoggedOutIsGone, Writing
<1> QED BY <1>4, <1>5, <1>6, <1>7, <1>8, <1>9, <1>10, <1>11 DEF SessionInv

LEMMA PersistExpiredStep ==
    ASSUME SessionInv, PersistExpired
    PROVE  SessionInv'
<1> USE SessionAssumption, NoTokenAssumption
<1> DEFINE e == [kind |-> "deleted", id |-> deleting, expires |-> Gone]
<1>1. e \in SessionEvent /\ deleting \in SessionId /\ sessionLog' = Append(sessionLog, e)
  BY DEF SessionInv, SessionTypeOK, PersistExpired, SessionEvent
<1>2. /\ LoggedExpiries \in Expiries /\ LoggedExpiries' = [LoggedExpiries EXCEPT ![deleting] = Gone]
      /\ \A t : NotInLog(t)' <=> (NotInLog(t) /\ deleting # t)
  BY <1>1, LogGrows DEF SessionInv
<1>3. /\ \A r \in Request : request'[r] = request[r]
      /\ \A r \in Request, t \in SessionId : InHands(r, t)' <=> InHands(r, t)
      /\ clock' = clock /\ session' = session /\ deleting' = NoToken /\ expired' = expired
      /\ overlapped' = overlapped /\ loggedOut' = loggedOut
  BY DEF PersistExpired, InHands
<1> HIDE DEF e
<1>4. SessionTypeOK'
  BY DEF SessionInv, SessionTypeOK, PersistExpired, SessionEvent
<1>5. SessionKinds'
  BY DEF SessionInv, SessionKinds, PersistExpired, Writing, Deletes
<1>6. LoginIsFresh'
  BY DEF SessionInv, LoginIsFresh, PersistExpired, InHands, StepOf, Writing, NotInLog
<1>7. AllKnown'
  BY <1>1, <1>2, <1>3 DEF SessionInv, AllKnown, Known, StepOf, Writing
<1>8. SameExpiry'
  BY DEF SessionInv, SameExpiry, PersistExpired, InHands, Writing, Deletes
<1>9. Undisturbed'
  BY DEF SessionInv, Undisturbed, PersistExpired, InHands, StepOf, Writing, Deletes
<1>10. MapAgrees'
  <2>1. SUFFICES ASSUME NEW t \in SessionId \ overlapped,
                        \A r \in Request : ~(/\ InHands(r, t)
                                             /\ Writing(r, "login") \/ (Deletes(r) /\ StepOf(r, "applied")))
                 PROVE  session[t] = LoggedExpiries'[t] \/ (LoggedExpiries'[t] = Gone /\ session[t] <= clock)
    BY <1>3 DEF MapAgrees, Writing, Deletes, StepOf
  <2>2. CASE t = deleting
    BY <1>1, <1>2, <2>2 DEF SessionInv, Undisturbed, Expiries
  <2>3. CASE t # deleting
    BY <1>2, <2>1, <2>3 DEF SessionInv, MapAgrees, Expiries
  <2> QED BY <2>2, <2>3
<1>11. LoggedOutIsGone'
  BY <1>1, <1>2, <1>3 DEF SessionInv, SessionTypeOK, LoggedOutIsGone, Expiries,
       Writing
<1> QED BY <1>4, <1>5, <1>6, <1>7, <1>8, <1>9, <1>10, <1>11 DEF SessionInv

LEMMA TickStep ==
    ASSUME SessionInv, Tick
    PROVE  SessionInv'
<1> USE SessionAssumption, NoTokenAssumption
<1>1. /\ \A r \in Request : request'[r] = request[r]
      /\ \A r \in Request, t \in SessionId : InHands(r, t)' <=> InHands(r, t)
      /\ \A r \in Request : Deletes(r)' <=> Deletes(r)
      /\ clock \in Nat /\ clock' = clock + 1 /\ session' = session /\ LoggedExpiries' = LoggedExpiries
      /\ expired' = expired /\ deleting' = deleting /\ overlapped' = overlapped
      /\ loggedOut' = loggedOut /\ \A t : NotInLog(t)' <=> NotInLog(t)
  BY Numbers DEF SessionInv, Tick, InHands, Deletes, Writing, LoggedExpiries, NotInLog
<1>2. \A t \in SessionId : session[t] \in Nat
  BY Numbers DEF SessionInv
<1>3. SessionTypeOK'
  BY DEF SessionInv, SessionTypeOK, Tick, Clock
<1>4. SessionKinds'
  BY DEF SessionInv, SessionKinds, Tick, Writing, Deletes
<1>5. LoginIsFresh'
  BY DEF SessionInv, LoginIsFresh, Tick, InHands, StepOf, Writing, NotInLog
<1>6. AllKnown'
  BY DEF SessionInv, AllKnown, Tick, InHands, StepOf, Writing, NotInLog, Known
<1>7. SameExpiry'
  <2>1. ASSUME NEW r \in Request, NEW t \in SessionId, InHands(r, t), ~Deletes(r), t \in expired
        PROVE  ExpiryIn(request[r]) <= clock'
    <3>1. ExpiryIn(request[r]) \in Nat
      BY <2>1, Numbers DEF SessionInv
    <3> QED BY <1>1, <2>1, <3>1 DEF SessionInv, SameExpiry
  <2>2. \A t \in expired : session[t] <= clock'
    BY <1>1, <1>2 DEF SessionInv, SessionTypeOK, SameExpiry
  <2> QED BY <1>1, <2>1, <2>2 DEF SessionInv, SameExpiry
<1>8. Undisturbed'
  BY DEF SessionInv, Undisturbed, Tick, InHands, StepOf, Writing, Deletes
<1>9. MapAgrees'
  <2>1. \A t \in SessionId : session[t] <= clock => session[t] <= clock'
    BY <1>1, <1>2
  <2> QED BY <1>1, <2>1 DEF SessionInv, MapAgrees, Writing, StepOf, Deletes
<1>10. LoggedOutIsGone'
  <2>1. \A t \in SessionId : session[t] <= clock => session[t] <= clock'
    BY <1>1, <1>2
  <2>2. loggedOut \subseteq SessionId
    BY DEF SessionInv, SessionTypeOK
  <2> QED BY <1>1, <2>1, <2>2 DEF SessionInv, LoggedOutIsGone, Writing
<1> QED BY <1>3, <1>4, <1>5, <1>6, <1>7, <1>8, <1>9, <1>10 DEF SessionInv

LEMMA RestartStoreStep ==
    ASSUME SessionInv, RestartStore
    PROVE  SessionInv'
<1> USE SessionAssumption, NoTokenAssumption
<1>1. /\ ReplayedSessions(sessionLog, clock) \in Expiries /\ LoggedExpiries \in Expiries
      /\ \A t \in SessionId :
           /\ session'[t] = LoggedExpiries[t] \/ (LoggedExpiries[t] = Gone /\ session'[t] = clock)
           /\ NotInLog(t) => session'[t] = Gone
  BY ReplayTime DEF SessionInv, SessionTypeOK, RestartStore, LoggedExpiries, NotInLog
<1>2. \A r \in Request : request'[r] = NoRequest
  BY DEF RestartStore
<1>3. /\ clock' = clock /\ LoggedExpiries' = LoggedExpiries /\ expired' = {} /\ deleting' = NoToken
      /\ overlapped' = overlapped /\ loggedOut' = loggedOut /\ \A t : NotInLog(t)' <=> NotInLog(t)
  BY DEF RestartStore, LoggedExpiries, NotInLog
<1>4. clock \in Nat /\ Gone <= clock
  BY Numbers DEF SessionInv, Gone
<1>5. SessionTypeOK'
  <2>1. session' \in Expiries
    BY <1>1 DEF RestartStore
  <2>2. request' \in [Request -> Requests]
    BY DEF RestartStore, Requests
  <2> QED BY <2>1, <2>2 DEF SessionInv, SessionTypeOK, RestartStore, Expiries
<1>6. SessionKinds'
  BY DEF SessionKinds, RestartStore, Writing, Deletes, NoRequest
<1>7. LoginIsFresh'
  BY DEF LoginIsFresh, RestartStore, InHands
<1>8. AllKnown'
  BY <1>1, <1>2, <1>3, NoTokenAssumption DEF AllKnown, Known, InHands
<1>9. SameExpiry'
  BY DEF SameExpiry, RestartStore, InHands
<1>10. Undisturbed'
  BY DEF Undisturbed, RestartStore, InHands
<1>11. MapAgrees'
  BY <1>1, <1>3, <1>4 DEF MapAgrees
<1>12. LoggedOutIsGone'
  BY <1>1, <1>2, <1>3, <1>4 DEF SessionInv, SessionTypeOK, LoggedOutIsGone, InHands
<1> QED BY <1>5, <1>6, <1>7, <1>8, <1>9, <1>10, <1>11, <1>12 DEF SessionInv

LEMMA InitStep == ASSUME SessionInit PROVE SessionInv
<1>1. SessionTypeOK
  BY SessionAssumption DEF SessionInit, SessionTypeOK, Clock, Requests
<1>2. SessionKinds /\ LoginIsFresh /\ AllKnown /\ SameExpiry /\ Undisturbed /\ LoggedOutIsGone
  BY NoTokenAssumption DEF SessionInit, SessionKinds, LoginIsFresh, AllKnown, SameExpiry,
       Undisturbed, LoggedOutIsGone, InHands, Writing, Deletes, NoRequest
<1>3. LoggedExpiries = NoSessions
  BY ReplayEmpty DEF SessionInit, LoggedExpiries
<1>4. MapAgrees
  BY <1>3 DEF SessionInit, MapAgrees, NoSessions
<1> QED BY <1>1, <1>2, <1>4 DEF SessionInv

LEMMA IdleStep == ASSUME SessionInv, UNCHANGED sessionVars PROVE SessionInv'
<1>1. LoggedExpiries' = LoggedExpiries /\ \A t : NotInLog(t)' <=> NotInLog(t)
  BY DEF sessionVars, LoggedExpiries, NotInLog
<1> QED BY <1>1 DEF SessionInv, sessionVars, SessionTypeOK, SessionKinds, LoginIsFresh, AllKnown,
             Known, SameExpiry, Undisturbed, MapAgrees, LoggedOutIsGone, InHands, Writing,
             Deletes, StepOf

\* The invariant holds in every state: no order of requests, cleanup, ticks and
\* restarts breaks it.
THEOREM SessionInvariance == SessionSpec => []SessionInv
<1>1. SessionInit => SessionInv
  BY InitStep
<1>2. SessionInv /\ [SessionNext]_sessionVars => SessionInv'
  BY LoginStep, GetTouchStep, GetLogoutStep, DecideStep, ApplyStep, PersistStep,
       CollectExpiredStep, DeleteExpiredStep, PersistExpiredStep, TickStep,
       RestartStoreStep, IdleStep DEF SessionNext
<1> QED BY <1>1, <1>2, PTL DEF SessionSpec

\* Variables keep their types.
THEOREM SessionTypeCorrect == SessionSpec => []SessionTypeOK
<1>1. SessionInv => SessionTypeOK
  BY DEF SessionInv
<1> QED BY <1>1, SessionInvariance, PTL

\* A session whose logout was answered is never valid again, whatever the
\* middleware, the cleanup and restarts do, unless a request had it in its hands
\* when it was deleted.
THEOREM LogoutIsFinal == SessionSpec => []LoggedOutStaysOut
<1>1. SessionInv => LoggedOutStaysOut
  <2> SUFFICES ASSUME SessionInv, NEW t \in loggedOut \ overlapped PROVE ~Valid(session, t)
    BY DEF LoggedOutStaysOut
  <2>1. session[t] <= clock /\ session[t] \in Nat /\ clock \in Nat
    BY Numbers DEF SessionInv, SessionTypeOK, LoggedOutIsGone
  <2> QED BY <2>1 DEF Valid, IsExpired
<1> QED BY <1>1, SessionInvariance, PTL

\* A session nobody works on is valid after a restart exactly if it is valid now,
\* and for as long.
THEOREM RestartsKeepSessions == SessionSpec => []SessionsSurvive
<1>1. SessionInv => SessionsSurvive
  <2> SUFFICES ASSUME SessionInv, NEW t \in SessionId \ overlapped,
                      deleting # t, \A r \in Request : TokenOf(request[r]) # t
               PROVE  LET s == ReplayedSessions(sessionLog, clock) IN
                      /\ Valid(s, t) <=> Valid(session, t)
                      /\ Valid(s, t) => s[t] = session[t]
    BY DEF SessionsSurvive
  <2>1. session[t] = LoggedExpiries[t] \/ (LoggedExpiries[t] = Gone /\ session[t] <= clock)
    BY DEF SessionInv, MapAgrees, InHands
  <2> DEFINE s == ReplayedSessions(sessionLog, clock)
  <2>2. s[t] = LoggedExpiries[t] \/ (LoggedExpiries[t] = Gone /\ s[t] = clock)
    BY ReplayTime DEF SessionInv, SessionTypeOK, LoggedExpiries
  <2>3. session[t] \in Nat /\ clock \in Nat
    BY Numbers DEF SessionInv
  <2> HIDE DEF s
  <2>4. (Valid(s, t) <=> Valid(session, t)) /\ (Valid(s, t) => s[t] = session[t])
    BY <2>1, <2>2, <2>3 DEF Valid, IsExpired, Gone
  <2> QED BY <2>4 DEF s
<1> QED BY <1>1, SessionInvariance, PTL

\* The cleanup never deletes a session that is valid at that moment, although it
\* looked at the sessions before.
THEOREM CleanupIsSafe == SessionSpec => CleanupSparesTheValid
<1>1. ASSUME SessionInv, NEW t \in expired PROVE ~Valid(session, t)
  <2>1. session[t] <= clock /\ session[t] \in Nat /\ clock \in Nat
    BY <1>1, Numbers DEF SessionInv, SessionTypeOK, SameExpiry
  <2> QED BY <2>1 DEF Valid, IsExpired
<1>2. SessionInv => [\A t \in expired : (t \notin expired' /\ deleting' = t) => ~Valid(session, t)]_sessionVars
  BY <1>1
<1> QED BY <1>2, SessionInvariance, PTL DEF CleanupSparesTheValid

=============================================================================
