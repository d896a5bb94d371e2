------------------------ MODULE WriteAheadLogProofs ------------------------
(***************************************************************************)
(* Proofs that the properties of WriteAheadLog hold for any number of      *)
(* entries, crashes and failed writes.                                     *)
(***************************************************************************)
EXTENDS WriteAheadLog, SequenceTheorems, TLAPS

In(e, seq) == \E i \in 1..Len(seq) : seq[i] = e

\* OnDisk, for a file f of which the first n frames are synced.
Synced(e, f, n) == \E i \in 1..n : f[i] = e

Distinct(seq) == \A i, j \in 1..Len(seq) : seq[i] = seq[j] => i = j

\* Who holds the write lock, and what it has written so far.
Holder ==
    /\ lock = Flusher <=> flusher = "writing"
    /\ flusher = "idle" => work = <<>>
    /\ lock \in Direct => pc[lock] = "waiting"
    /\ lock # Free =>
         /\ written <= Len(Job(lock))
         /\ \A i \in 1..written : In(Job(lock)[i], file)

\* Everything that is to be notified is on disk.
Durable ==
    /\ AckedIsOnDisk
    /\ flusher = "synced" => \A i \in 1..Len(work) : OnDisk(work[i])

\* An entry is in one place: before its frame is written, in no frame.
Places ==
    /\ \A e \in Entry : pc[e] = "new" => ~In(e, file) /\ ~In(e, buffer) /\ ~In(e, work)
    /\ Distinct(buffer) /\ Distinct(work)
    /\ \A i \in 1..Len(buffer) :
         ~In(buffer[i], file) /\ ~In(buffer[i], work) /\ pc[buffer[i]] = "waiting"
    /\ \A i \in 1..Len(work) : pc[work[i]] = "waiting"
    /\ flusher = "taken" => \A i \in 1..Len(work) : ~In(work[i], file)
    /\ lock # Free => \A i \in 1..Len(Job(lock)) : i > written => ~In(Job(lock)[i], file)

WInv == TypeOK /\ Holder /\ Durable /\ Places /\ OneFrameEach /\ NoLostWaiter

----------------------------------------------------------------------------
(* Facts about sequences. *)

\* What a frame at the end of the file adds to the entries found in it.
LEMMA InAppend ==
    ASSUME NEW S, NEW seq \in Seq(S), NEW x \in S, NEW e
    PROVE  In(e, Append(seq, x)) <=> In(e, seq) \/ e = x
<1>1. /\ Append(seq, x) \in Seq(S) /\ Len(Append(seq, x)) = Len(seq) + 1
      /\ \A i \in 1..Len(seq) : Append(seq, x)[i] = seq[i]
      /\ Append(seq, x)[Len(seq) + 1] = x
      /\ Len(seq) \in Nat
  BY AppendProperties, LenProperties
<1> QED BY <1>1 DEF In

\* A file is cut when it keeps its synced frames and perhaps more, ends there or
\* with one torn frame, and has no other frame: what crashes and errors leave.
Cut(f) ==
    /\ f \in Seq(Entry \cup {Torn})
    /\ \E m \in synced..Len(file) :
         /\ \A i \in 1..m : f[i] = file[i]
         /\ Len(f) \in {m, m + 1}
         /\ Len(f) = m + 1 => f[m + 1] = Torn

\* A failed write or fsync leaves a cut file.
LEMMA LeftBehindIsCut ==
    ASSUME TypeOK, NEW f \in LeftBehind PROVE Cut(f)
<1>1. file \in Seq(Entry \cup {Torn}) /\ Len(file) \in Nat /\ synced \in 0..Len(file)
  BY LenProperties DEF TypeOK
<1>2. CASE f = file
  BY <1>1, <1>2 DEF Cut
<1>3. CASE f = Append(file, Torn)
  <2>1. /\ f \in Seq(Entry \cup {Torn}) /\ Len(f) = Len(file) + 1
        /\ \A i \in 1..Len(file) : f[i] = file[i]
        /\ f[Len(file) + 1] = Torn
    BY <1>1, <1>3, AppendProperties
  <2> QED BY <1>1, <2>1 DEF Cut
<1> QED BY <1>2, <1>3 DEF LeftBehind

\* So does a crash, whatever part of the page cache reached the disk.
LEMMA CrashIsCut ==
    ASSUME TypeOK, Crash PROVE Cut(file')
<1>1. file \in Seq(Entry \cup {Torn}) /\ Len(file) \in Nat /\ synced \in 0..Len(file)
  BY LenProperties DEF TypeOK
<1>2. CASE file' \in LeftBehind
  BY <1>2, LeftBehindIsCut
<1>3. ASSUME NEW k \in synced..(Len(file) - 1),
             file' \in {SubSeq(file, 1, k), Append(SubSeq(file, 1, k), Torn)}
      PROVE  Cut(file')
  <2> DEFINE g == SubSeq(file, 1, k)
  <2>1. k \in Nat /\ k <= Len(file) /\ k \in synced..Len(file)
    BY <1>1, <1>3
  <2>2. /\ g \in Seq(Entry \cup {Torn}) /\ Len(g) = k
        /\ \A i \in 1..k : g[i] = file[i]
    BY <1>1, <2>1, SubSeqProperties
  <2> HIDE DEF g
  <2>3. CASE file' = g
    BY <2>1, <2>2, <2>3 DEF Cut
  <2>4. CASE file' = Append(g, Torn)
    <3>1. /\ file' \in Seq(Entry \cup {Torn}) /\ Len(file') = k + 1
          /\ \A i \in 1..k : file'[i] = g[i]
          /\ file'[k + 1] = Torn
      BY <2>2, <2>4, AppendProperties
    <3> QED BY <2>1, <2>2, <3>1 DEF Cut
  <2> QED BY <1>3, <2>3, <2>4 DEF g
<1> QED BY <1>2, <1>3 DEF Crash

\* A cut file has the synced entries, no entry that was not there, none twice.
LEMMA CutFacts ==
    ASSUME TypeOK, OneFrameEach, NEW f, Cut(f)
    PROVE  /\ f \in Seq(Entry \cup {Torn}) /\ synced <= Len(f) /\ Len(f) \in Nat
           /\ \A i \in 1..synced : f[i] = file[i]
           /\ \A e \in Entry : In(e, f) => In(e, file)
           /\ \A i, j \in 1..Len(f) : f[i] = f[j] /\ f[i] # Torn => i = j
<1>1. file \in Seq(Entry \cup {Torn}) /\ Len(file) \in Nat /\ synced \in 0..Len(file)
  BY LenProperties DEF TypeOK
<1>2. f \in Seq(Entry \cup {Torn}) /\ Len(f) \in Nat
  BY LenProperties DEF Cut
<1>3. PICK m \in synced..Len(file) :
         /\ \A i \in 1..m : f[i] = file[i]
         /\ Len(f) \in {m, m + 1}
         /\ Len(f) = m + 1 => f[m + 1] = Torn
  BY DEF Cut
<1>4. synced <= Len(f) /\ \A i \in 1..synced : f[i] = file[i]
  BY <1>1, <1>2, <1>3
<1>5. \A i \in 1..Len(f) : f[i] # Torn => i \in 1..m /\ i \in 1..Len(file) /\ f[i] = file[i]
  BY <1>1, <1>2, <1>3
<1>6. \A e \in Entry : In(e, f) => In(e, file)
  BY <1>5, EntryAssumption DEF In
<1>7. \A i, j \in 1..Len(f) : f[i] = f[j] /\ f[i] # Torn => i = j
  BY <1>5 DEF OneFrameEach
<1> QED BY <1>2, <1>4, <1>6, <1>7

----------------------------------------------------------------------------
(* Types. *)

\* The work of the lock's holder is a sequence of entries.
LEMMA JobType ==
    ASSUME TypeOK, lock # Free PROVE Job(lock) \in Seq(Entry) /\ Len(Job(lock)) \in Nat
<1>1. CASE lock = Flusher
  <2>1. work \in Seq(Entry)
    BY DEF TypeOK, Entry
  <2> QED BY <1>1, <2>1, LenProperties DEF Job
<1>2. CASE lock # Flusher
  <2>1. lock \in Direct /\ lock \in Entry
    BY <1>2 DEF TypeOK, Entry
  <2>2. <<lock>> \in Seq(Entry) /\ Len(<<lock>>) = 1
    BY <2>1
  <2> QED BY <1>2, <2>2 DEF Job
<1> QED BY <1>1, <1>2

\* The initial state has the types.
LEMMA TypeInit == Init => TypeOK
<1>1. <<>> \in Seq(Entry \cup {Torn}) /\ <<>> \in Seq(Buffered) /\ Len(<<>>) = 0
  OBVIOUS
<1> QED BY <1>1, CountAssumption DEF Init, TypeOK

\* Every step keeps the types; the frames of a file are not yet told apart, so
\* the steps that cut it are given the facts they need.
LEMMA TypeNext ==
    ASSUME TypeOK, OneFrameEach, [Next]_vars PROVE TypeOK'
<1> USE CountAssumption
<1>0. /\ file \in Seq(Entry \cup {Torn}) /\ Len(file) \in Nat /\ synced \in 0..Len(file)
      /\ Len(buffer) \in Nat /\ Len(work) \in Nat
  BY LenProperties DEF TypeOK
<1>1. ASSUME NEW e \in Buffered, AppendBuffered(e) PROVE TypeOK'
  <2>1. Append(buffer, e) \in Seq(Buffered)
    BY AppendProperties DEF TypeOK
  <2> QED BY <1>1, <2>1 DEF AppendBuffered, TypeOK
<1>2. ASSUME NEW d \in Direct, LockDirect(d) PROVE TypeOK'
  BY <1>2 DEF LockDirect, TypeOK
<1>3. CASE TakeBatch
  <2>1. <<>> \in Seq(Buffered)
    OBVIOUS
  <2> QED BY <1>3, <2>1 DEF TakeBatch, TypeOK
<1>4. CASE LockBatch
  BY <1>4 DEF LockBatch, TypeOK
<1>5. CASE WriteFrame
  <2> DEFINE x == Job(lock)[written + 1]
  <2>1. Job(lock) \in Seq(Entry) /\ Len(Job(lock)) \in Nat
    BY <1>5, JobType DEF WriteFrame
  <2>2. written + 1 \in 1..Len(Job(lock))
    BY <1>5, <2>1 DEF WriteFrame, TypeOK
  <2>3. x \in Entry \cup {Torn}
    BY <2>1, <2>2, ElementOfSeq
  <2>4. file' = Append(file, x)
    BY <1>5 DEF WriteFrame
  <2> HIDE DEF x
  <2>5. file' \in Seq(Entry \cup {Torn}) /\ Len(file') = Len(file) + 1
    BY <1>0, <2>3, <2>4, AppendProperties
  <2>6. synced' \in 0..Len(file') /\ written' \in Nat
    BY <1>0, <1>5, <2>5 DEF WriteFrame, TypeOK
  <2> QED BY <1>5, <2>5, <2>6 DEF WriteFrame, TypeOK
<1>6. CASE Sync
  <2>1. synced' \in 0..Len(file')
    BY <1>0, <1>6 DEF Sync
  <2>2. lock' \in Direct \cup {Free, Flusher}
    BY <1>6 DEF Sync
  <2>3. CASE lock = Flusher
    BY <1>6, <2>1, <2>2, <2>3 DEF Sync, TypeOK
  <2>4. CASE lock # Flusher
    BY <1>6, <2>1, <2>2, <2>4 DEF Sync, TypeOK
  <2> QED BY <2>3, <2>4
<1>7. CASE Notify
  <2>1. <<>> \in Seq(Buffered)
    OBVIOUS
  <2> QED BY <1>7, <2>1 DEF Notify, TypeOK
<1>8. CASE IoFails
  <2>1. Cut(file')
    BY <1>8, LeftBehindIsCut DEF IoFails
  <2>2. file' \in Seq(Entry \cup {Torn}) /\ synced' \in 0..Len(file')
    BY <1>0, <1>8, <2>1, CutFacts DEF IoFails
  <2>3. <<>> \in Seq(Buffered)
    OBVIOUS
  <2>4. errors' \in 0..MaxErrors
    BY <1>8 DEF IoFails, TypeOK
  <2>5. CASE lock = Flusher
    BY <1>8, <2>2, <2>3, <2>4, <2>5 DEF IoFails, TypeOK
  <2>6. CASE lock # Flusher
    BY <1>8, <2>2, <2>4, <2>6 DEF IoFails, TypeOK
  <2> QED BY <2>5, <2>6
<1>9. CASE Crash
  <2>1. Cut(file')
    BY <1>9, CrashIsCut
  <2>2. /\ file' \in Seq(Entry \cup {Torn}) /\ Len(file') \in Nat
        /\ synced' \in synced..Len(file')
    BY <1>9, <2>1, CutFacts DEF Crash
  <2>3. synced' \in 0..Len(file') /\ crashes' \in 0..MaxCrashes
    BY <1>0, <1>9, <2>2 DEF Crash, TypeOK
  <2>4. <<>> \in Seq(Buffered)
    OBVIOUS
  <2> QED BY <1>9, <2>2, <2>3, <2>4 DEF Crash, TypeOK
<1>10. CASE UNCHANGED vars
  BY <1>10 DEF vars, TypeOK
<1> QED
  BY <1>1, <1>2, <1>3, <1>4, <1>5, <1>6, <1>7, <1>8, <1>9, <1>10 DEF Next, Writing

----------------------------------------------------------------------------
(* The invariant. *)

\* Initially nothing is written, waiting or locked.
LEMMA InvInit == Init => WInv
<1> SUFFICES ASSUME Init PROVE WInv
  OBVIOUS
<1>1. TypeOK
  BY TypeInit
<1>2. file = <<>> /\ buffer = <<>> /\ work = <<>> /\ Len(<<>>) = 0
  BY DEF Init
<1>3. Holder /\ Durable
  BY <1>2, LockAssumption DEF Init, Holder, Durable, AckedIsOnDisk, Flusher, Free, Entry
<1>4. Places /\ OneFrameEach /\ NoLostWaiter
  BY <1>2 DEF Init, Places, In, Distinct, OneFrameEach, NoLostWaiter, Entry
<1> QED BY <1>1, <1>3, <1>4 DEF WInv

\* An entry is waiting in the buffer: its frame is still to come.
LEMMA InvAppendBuffered ==
    ASSUME WInv, TypeOK', NEW e \in Buffered, AppendBuffered(e) PROVE WInv'
<1>1. /\ Len(buffer) \in Nat /\ Len(work) \in Nat /\ Len(file) \in Nat
      /\ buffer' = Append(buffer, e) /\ Len(buffer') = Len(buffer) + 1
      /\ \A i \in 1..Len(buffer) : buffer'[i] = buffer[i]
      /\ buffer'[Len(buffer) + 1] = e
  BY LenProperties, AppendProperties DEF WInv, TypeOK, AppendBuffered
<1>2. /\ e \in Entry /\ pc[e] = "new" /\ pc'[e] = "waiting"
      /\ \A x \in Entry : x # e => pc'[x] = pc[x]
      /\ UNCHANGED <<file, synced, work, flusher, lock, written>>
  BY DEF AppendBuffered, Entry, WInv, TypeOK
<1>3. ~In(e, file) /\ ~In(e, buffer) /\ ~In(e, work)
  BY <1>2 DEF WInv, Places
<1>4. \A x : In(x, buffer') <=> In(x, buffer) \/ x = e
  BY <1>1 DEF In
<1>5. \A i \in 1..Len(work) : work[i] \in Entry
  BY ElementOfSeq DEF WInv, TypeOK, Entry
<1>6. Holder'
  <2>1. lock \in Direct => lock \in Entry
    BY DEF Entry
  <2>2. lock' \in Direct => pc'[lock'] = "waiting"
    BY <1>2, <2>1 DEF WInv, Holder
  <2> QED BY <1>2, <2>2 DEF WInv, Holder, Job, In
<1>7. Durable'
  BY <1>2 DEF WInv, Durable, AckedIsOnDisk, OnDisk
<1>8. Places'
  <2>1. (\A x \in Entry : pc[x] = "new" => ~In(x, file) /\ ~In(x, buffer) /\ ~In(x, work))'
    <3>1. \A x : (In(x, file)' <=> In(x, file)) /\ (In(x, work)' <=> In(x, work))
      BY <1>2 DEF In
    <3>2. \A x \in Entry : pc[x] = "new" => ~In(x, file) /\ ~In(x, buffer) /\ ~In(x, work)
      BY DEF WInv, Places
    <3> QED
      BY <1>2, <1>4, <3>1, <3>2
  <2>2. Distinct(buffer)' /\ Distinct(work)'
    BY <1>1, <1>2, <1>3 DEF WInv, Places, Distinct, In
  <2>3. (\A i \in 1..Len(buffer) :
         ~In(buffer[i], file) /\ ~In(buffer[i], work) /\ pc[buffer[i]] = "waiting")'
    <3> SUFFICES ASSUME NEW i \in 1..Len(buffer')
                 PROVE  ~In(buffer'[i], file) /\ ~In(buffer'[i], work) /\ pc'[buffer'[i]] = "waiting"
      BY <1>2 DEF In
    <3>1. CASE i = Len(buffer) + 1
      BY <1>1, <1>2, <1>3, <3>1
    <3>2. CASE i \in 1..Len(buffer)
      <4>1. buffer'[i] = buffer[i] /\ buffer[i] \in Entry
        BY <1>1, <3>2, ElementOfSeq DEF WInv, TypeOK, Entry
      <4> QED BY <1>2, <3>2, <4>1 DEF WInv, Places
    <3> QED BY <1>1, <3>1, <3>2
  <2>4. (\A i \in 1..Len(work) : pc[work[i]] = "waiting")'
    BY <1>2, <1>5 DEF WInv, Places
  <2> QED BY <1>2, <2>1, <2>2, <2>3, <2>4 DEF WInv, Places, In, Job
<1>9. NoLostWaiter'
  BY <1>1, <1>2, <1>4 DEF WInv, NoLostWaiter, In, Entry
<1> QED BY <1>2, <1>6, <1>7, <1>8, <1>9 DEF WInv, OneFrameEach

\* A direct append takes the lock: no frame of its entry exists.
LEMMA InvLockDirect ==
    ASSUME WInv, TypeOK', NEW d \in Direct, LockDirect(d) PROVE WInv'
<1>1. /\ d \in Entry /\ d # Flusher /\ d # Free /\ d \notin Buffered
      /\ pc[d] = "new" /\ pc'[d] = "waiting"
      /\ \A x \in Entry : x # d => pc'[x] = pc[x]
      /\ lock = Free /\ lock' = d /\ written' = 0
      /\ UNCHANGED <<file, synced, buffer, work, flusher>>
  BY EntryAssumption, LockAssumption DEF LockDirect, Entry, WInv, TypeOK
<1>2. ~In(d, file) /\ ~In(d, buffer) /\ ~In(d, work)
  BY <1>1 DEF WInv, Places
<1>3. /\ \A i \in 1..Len(work) : work[i] \in Entry /\ work[i] # d
      /\ \A i \in 1..Len(buffer) : buffer[i] \in Entry /\ buffer[i] # d
  BY <1>1, ElementOfSeq DEF WInv, TypeOK, Entry
<1>4. Job(lock)' = <<d>> /\ Len(<<d>>) = 1 /\ <<d>>[1] = d
  BY <1>1 DEF Job
<1>5. flusher # "writing"
  BY <1>1, LockAssumption DEF WInv, Holder, Flusher, Free
<1>6. Holder'
  BY <1>1, <1>4, <1>5 DEF WInv, Holder
<1>7. Durable'
  BY <1>1 DEF WInv, Durable, AckedIsOnDisk, OnDisk
<1>8. Places'
  <2>1. (\A x \in Entry : pc[x] = "new" => ~In(x, file) /\ ~In(x, buffer) /\ ~In(x, work))'
    BY <1>1 DEF WInv, Places, In
  <2>2. (\A i \in 1..Len(Job(lock)) : i > written => ~In(Job(lock)[i], file))'
    BY <1>1, <1>2, <1>4 DEF In
  <2> QED BY <1>1, <1>3, <2>1, <2>2 DEF WInv, Places, In, Distinct
<1>9. NoLostWaiter'
  BY <1>1 DEF WInv, NoLostWaiter, Entry
<1> QED BY <1>1, <1>6, <1>7, <1>8, <1>9 DEF WInv, OneFrameEach

\* The batch that is taken has no frames yet.
LEMMA InvTakeBatch ==
    ASSUME WInv, TypeOK', TakeBatch PROVE WInv'
<1>1. /\ flusher = "idle" /\ work = <<>> /\ Len(work) = 0
      /\ work' = buffer /\ buffer' = <<>> /\ Len(buffer') = 0 /\ flusher' = "taken"
      /\ UNCHANGED <<file, synced, lock, written, pc>>
  BY DEF TakeBatch, WInv, Holder
<1>2. lock # Flusher
  BY <1>1 DEF WInv, Holder
<1>3. Job(lock)' = Job(lock)
  BY <1>1, <1>2 DEF Job
<1>4. Holder'
  BY <1>1, <1>2, <1>3 DEF WInv, Holder, In
<1>5. Durable'
  BY <1>1 DEF WInv, Durable, AckedIsOnDisk, OnDisk
<1>6. Places'
  <2>1. (\A x \in Entry : pc[x] = "new" => ~In(x, file) /\ ~In(x, buffer) /\ ~In(x, work))'
    BY <1>1 DEF WInv, Places, In
  <2>2. Distinct(buffer)' /\ Distinct(work)'
    BY <1>1 DEF WInv, Places, Distinct
  <2>3. (lock # Free => \A i \in 1..Len(Job(lock)) : i > written => ~In(Job(lock)[i], file))'
    BY <1>1, <1>3 DEF WInv, Places, In
  <2> QED BY <1>1, <2>1, <2>2, <2>3 DEF WInv, Places, In
<1>7. NoLostWaiter'
  BY <1>1 DEF WInv, NoLostWaiter
<1> QED BY <1>1, <1>4, <1>5, <1>6, <1>7 DEF WInv, OneFrameEach

\* The flush task gets the lock.
LEMMA InvLockBatch ==
    ASSUME WInv, TypeOK', LockBatch PROVE WInv'
<1>1. /\ flusher = "taken" /\ lock = Free /\ lock' = Flusher /\ written' = 0
      /\ flusher' = "writing" /\ Flusher \notin Direct
      /\ UNCHANGED <<file, synced, buffer, work, pc>>
  BY LockAssumption DEF LockBatch, Entry
<1>2. Job(lock)' = work /\ Len(work) \in Nat
  BY <1>1, LenProperties DEF Job, WInv, TypeOK
<1>3. Holder'
  BY <1>1, <1>2 DEF WInv, Holder
<1>4. Durable'
  BY <1>1 DEF WInv, Durable, AckedIsOnDisk, OnDisk
<1>5. Places'
  BY <1>1, <1>2 DEF WInv, Places, In, Distinct
<1>6. NoLostWaiter'
  BY <1>1 DEF WInv, NoLostWaiter
<1> QED BY <1>1, <1>3, <1>4, <1>5, <1>6 DEF WInv, OneFrameEach

\* One more frame, of an entry that had none and that no one else will write.
LEMMA InvWriteFrame ==
    ASSUME WInv, TypeOK', WriteFrame PROVE WInv'
<1> DEFINE w == written + 1
           x == Job(lock)[w]
<1>1. /\ lock # Free /\ Job(lock) \in Seq(Entry) /\ Len(Job(lock)) \in Nat
      /\ written \in Nat /\ w \in 1..Len(Job(lock))
  BY JobType DEF WInv, WriteFrame, TypeOK
<1>2. x \in Entry /\ x # Torn
  BY <1>1, ElementOfSeq, EntryAssumption
<1>3. file' = Append(file, x) /\ UNCHANGED <<synced, buffer, work, flusher, lock, pc>>
  BY DEF WriteFrame
<1>4. Job(lock)' = Job(lock)
  BY <1>3 DEF Job
<1>5. written' = w
  BY DEF WriteFrame
<1>6. ~In(x, file)
  BY <1>1 DEF WInv, Places
<1>7. pc[x] = "waiting" /\ ~In(x, buffer)
  <2>1. CASE lock = Flusher
    <3>1. Job(lock) = work
      BY <2>1 DEF Job
    <3>2. pc[x] = "waiting"
      BY <1>1, <3>1 DEF WInv, Places
    <3>3. In(x, work)
      BY <1>1, <3>1 DEF In
    <3> QED BY <3>2, <3>3 DEF WInv, Places, In
  <2>2. CASE lock # Flusher
    <3>1. lock \in Direct /\ x = lock
      BY <1>1, <2>2 DEF Job, WInv, TypeOK
    <3>2. lock \notin Buffered
      BY <3>1, EntryAssumption
    <3>3. \A i \in 1..Len(buffer) : buffer[i] \in Buffered
      BY ElementOfSeq DEF WInv, TypeOK
    <3> QED BY <3>1, <3>2, <3>3 DEF WInv, Holder, In
  <2> QED BY <2>1, <2>2
<1>8. \A i \in 1..Len(Job(lock)) : Job(lock)[i] = x => i = w
  <2>1. CASE lock = Flusher
    BY <1>1, <2>1 DEF Job, WInv, Places, Distinct
  <2>2. CASE lock # Flusher
    <3>1. Job(lock) = <<lock>> /\ Len(<<lock>>) = 1
      BY <2>2 DEF Job
    <3> QED BY <1>1, <3>1
  <2> QED BY <2>1, <2>2
<1>9. flusher = "taken" => \A i \in 1..Len(work) : work[i] # x
  <2> SUFFICES ASSUME flusher = "taken", NEW i \in 1..Len(work) PROVE work[i] # x
    OBVIOUS
  <2>1. lock # Flusher
    BY DEF WInv, Holder
  <2>2. lock \in Direct /\ x = lock
    BY <1>1, <2>1 DEF Job, WInv, TypeOK
  <2>3. work[i] \in Buffered
    BY ElementOfSeq DEF WInv, TypeOK
  <2> QED BY <2>2, <2>3, EntryAssumption
<1>10. /\ file \in Seq(Entry \cup {Torn}) /\ Len(file) \in Nat /\ synced \in 0..Len(file)
       /\ x \in Entry \cup {Torn}
  BY <1>2, LenProperties DEF WInv, TypeOK
<1> HIDE DEF x, w
<1>11. /\ Len(file') = Len(file) + 1
       /\ \A i \in 1..Len(file) : file'[i] = file[i]
       /\ file'[Len(file) + 1] = x
  BY <1>3, <1>10, AppendProperties
<1>12. \A e : In(e, file') <=> In(e, file) \/ e = x
  BY <1>10, <1>11 DEF In
<1>13. \A e : OnDisk(e) => OnDisk(e)'
  BY <1>3, <1>10, <1>11 DEF OnDisk
<1>14. Holder'
  <2>1. written' <= Len(Job(lock))
    BY <1>1, <1>5 DEF w
  <2>2. ASSUME NEW i \in 1..written' PROVE In(Job(lock)[i], file')
    <3>1. i = w \/ i \in 1..written
      BY <1>1, <1>5, <2>2 DEF w
    <3>2. Job(lock)[w] = x
      BY DEF x
    <3> QED BY <1>1, <1>12, <3>1, <3>2 DEF WInv, Holder
  <2>3. (\A i \in 1..written : In(Job(lock)[i], file))'
    BY <1>4, <2>2 DEF In
  <2> QED BY <1>3, <1>4, <2>1, <2>3 DEF WInv, Holder
<1>15. Durable'
  <2>1. AckedIsOnDisk'
    BY <1>3, <1>13 DEF WInv, Durable, AckedIsOnDisk
  <2>2. (flusher = "synced" => \A i \in 1..Len(work) : OnDisk(work[i]))'
    BY <1>3, <1>13 DEF WInv, Durable, OnDisk
  <2> QED BY <2>1, <2>2 DEF Durable
<1>16. Places'
  <2>1. (\A e \in Entry : pc[e] = "new" => ~In(e, file) /\ ~In(e, buffer) /\ ~In(e, work))'
    <3>1. ASSUME NEW e \in Entry, pc[e] = "new" PROVE ~In(e, file')
      BY <1>7, <1>12, <3>1 DEF WInv, Places
    <3>2. \A e \in Entry : pc[e] = "new" => ~In(e, buffer)' /\ ~In(e, work)'
      BY <1>3 DEF WInv, Places, In
    <3> QED BY <1>3, <3>1, <3>2 DEF In
  <2>2. Distinct(buffer)' /\ Distinct(work)'
    BY <1>3 DEF WInv, Places, Distinct
  <2>3. \A i \in 1..Len(buffer) :
          /\ ~In(buffer[i], file') /\ ~In(buffer[i], work) /\ pc[buffer[i]] = "waiting"
    <3>1. \A i \in 1..Len(buffer) : buffer[i] # x
      BY <1>7 DEF In
    <3> QED BY <1>12, <3>1 DEF WInv, Places, In
  <2>4. flusher = "taken" => \A i \in 1..Len(work) : ~In(work[i], file')
    BY <1>9, <1>12 DEF WInv, Places, In
  <2>5. \A i \in 1..Len(Job(lock)) : i > w => ~In(Job(lock)[i], file')
    <3> SUFFICES ASSUME NEW i \in 1..Len(Job(lock)), i > w
                 PROVE  ~In(Job(lock)[i], file')
      OBVIOUS
    <3>1. i > written /\ i # w
      BY <1>1 DEF w
    <3>2. ~In(Job(lock)[i], file)
      BY <1>1, <3>1 DEF WInv, Places
    <3>3. Job(lock)[i] # x
      BY <1>8, <3>1
    <3> QED BY <1>12, <3>2, <3>3 DEF In
  <2>6. (lock # Free => \A i \in 1..Len(Job(lock)) : i > written => ~In(Job(lock)[i], file))'
    BY <1>4, <1>5, <2>5 DEF In
  <2> QED BY <1>3, <2>1, <2>2, <2>3, <2>4, <2>6 DEF WInv, Places, In
<1>17. OneFrameEach'
  <2> SUFFICES ASSUME NEW i \in 1..Len(file'), NEW j \in 1..Len(file'),
                      file'[i] = file'[j], file'[i] # Torn
               PROVE  i = j
    BY DEF OneFrameEach
  <2>1. \A k \in 1..Len(file) : file[k] # x
    BY <1>6 DEF In
  <2> QED BY <1>10, <1>11, <2>1 DEF WInv, OneFrameEach
<1>18. NoLostWaiter'
  BY <1>3 DEF WInv, NoLostWaiter
<1> QED BY <1>14, <1>15, <1>16, <1>17, <1>18 DEF WInv

\* All frames of the holder are in the file, and now on disk.
LEMMA InvSync ==
    ASSUME WInv, TypeOK', Sync PROVE WInv'
<1>1. /\ lock # Free /\ written = Len(Job(lock)) /\ synced' = Len(file) /\ lock' = Free
      /\ UNCHANGED <<file, buffer, work, written>>
  BY DEF Sync, NothingLeft
<1>2. /\ Len(file) \in Nat /\ synced \in 0..Len(file)
      /\ Free # Flusher /\ Free \notin Direct
  BY LenProperties, LockAssumption DEF WInv, TypeOK, Entry, Free, Flusher
<1>3. \A e : Synced(e, file', synced') <=> In(e, file)
  BY <1>1 DEF Synced, In
<1>4. \A e : OnDisk(e) => Synced(e, file', synced')
  BY <1>1, <1>2 DEF OnDisk, Synced
<1>5. \A i \in 1..Len(Job(lock)) : Synced(Job(lock)[i], file', synced')
  BY <1>1, <1>3 DEF WInv, Holder
<1>6. CASE lock = Flusher
  <2>1. flusher = "writing" /\ flusher' = "synced" /\ UNCHANGED pc /\ Job(lock) = work
    BY <1>6 DEF Sync, WInv, Holder, Job
  <2>2. Holder'
    BY <1>1, <1>2, <2>1 DEF Holder
  <2>3. Durable'
    <3>1. \A i \in 1..Len(work) : Synced(work[i], file', synced')
      BY <1>5, <2>1
    <3>2. (flusher = "synced" => \A i \in 1..Len(work) : OnDisk(work[i]))'
      BY <1>1, <3>1 DEF OnDisk, Synced
    <3>3. \A e \in Entry : pc'[e] = "acked" => Synced(e, file', synced')
      BY <1>4, <2>1 DEF WInv, Durable, AckedIsOnDisk
    <3>4. AckedIsOnDisk'
      BY <3>3 DEF AckedIsOnDisk, OnDisk, Synced
    <3> QED BY <3>2, <3>4 DEF Durable
  <2>4. Places'
    BY <1>1, <2>1 DEF WInv, Places, In, Distinct
  <2> QED BY <1>1, <2>1, <2>2, <2>3, <2>4 DEF WInv, OneFrameEach, NoLostWaiter
<1>7. CASE lock # Flusher
  <2>1. /\ lock \in Direct /\ lock \in Entry /\ lock \notin Buffered /\ UNCHANGED flusher
        /\ pc'[lock] = "acked" /\ \A e \in Entry : e # lock => pc'[e] = pc[e]
    BY <1>1, <1>7, EntryAssumption DEF Sync, WInv, TypeOK, Entry
  <2>2. flusher # "writing"
    BY <1>7 DEF WInv, Holder
  <2>3. /\ \A i \in 1..Len(work) : work[i] \in Entry /\ work[i] # lock
        /\ \A i \in 1..Len(buffer) : buffer[i] \in Entry /\ buffer[i] # lock
    <3>1. work \in Seq(Buffered) /\ buffer \in Seq(Buffered)
      BY DEF WInv, TypeOK
    <3>2. /\ \A i \in 1..Len(work) : work[i] \in Buffered
          /\ \A i \in 1..Len(buffer) : buffer[i] \in Buffered
      BY <3>1, ElementOfSeq
    <3> QED
      BY <2>1, <3>2 DEF Entry
  <2>4. Holder'
    BY <1>1, <1>2, <2>1, <2>2 DEF WInv, Holder
  <2>5. Durable'
    <3>1. Synced(lock, file', synced')
      <4>1. Job(lock) = <<lock>> /\ Len(<<lock>>) = 1 /\ <<lock>>[1] = lock
        BY <1>7 DEF Job
      <4> QED BY <1>5, <4>1
    <3>2. \A e \in Entry : pc'[e] = "acked" => Synced(e, file', synced')
      BY <1>4, <2>1, <3>1 DEF WInv, Durable, AckedIsOnDisk
    <3>3. flusher = "synced" => \A i \in 1..Len(work) : Synced(work[i], file', synced')
      BY <1>4 DEF WInv, Durable
    <3>4. (flusher = "synced" => \A i \in 1..Len(work) : OnDisk(work[i]))'
      BY <1>1, <2>1, <3>3 DEF OnDisk, Synced
    <3> QED BY <3>2, <3>4 DEF Durable, AckedIsOnDisk, OnDisk, Synced
  <2>6. Places'
    <3>1. \A e \in Entry : pc'[e] = "new" => pc[e] = "new"
      BY <2>1
    <3>2. /\ \A i \in 1..Len(buffer) : pc'[buffer[i]] = pc[buffer[i]]
          /\ \A i \in 1..Len(work) : pc'[work[i]] = pc[work[i]]
      BY <2>1, <2>3
    <3> QED BY <1>1, <2>1, <3>1, <3>2 DEF WInv, Places, In, Distinct
  <2>7. NoLostWaiter'
    BY <1>1, <2>1 DEF WInv, NoLostWaiter, Entry
  <2> QED BY <1>1, <2>4, <2>5, <2>6, <2>7 DEF WInv, OneFrameEach
<1> QED BY <1>6, <1>7

\* Those who are notified are the ones whose frames were synced.
LEMMA InvNotify ==
    ASSUME WInv, TypeOK', Notify PROVE WInv'
<1>1. /\ flusher = "synced" /\ flusher' = "idle" /\ work' = <<>> /\ Len(work') = 0
      /\ UNCHANGED <<file, synced, buffer, lock, written>>
  BY DEF Notify
<1>2. \A e \in Entry : pc'[e] = IF In(e, work) THEN "acked" ELSE pc[e]
  BY DEF Notify, In
<1>3. lock # Flusher /\ Job(lock)' = Job(lock)
  BY <1>1 DEF WInv, Holder, Job
<1>4. lock \in Direct => ~In(lock, work)
  BY ElementOfSeq, EntryAssumption DEF WInv, TypeOK, In
<1>5. \A i \in 1..Len(buffer) : buffer[i] \in Entry
  BY ElementOfSeq DEF WInv, TypeOK, Entry
<1>6. Holder'
  <2>1. lock \in Direct => pc'[lock] = "waiting"
    BY <1>2, <1>4 DEF WInv, Holder, Entry
  <2> QED BY <1>1, <1>3, <2>1 DEF WInv, Holder, In
<1>7. Durable'
  <2>1. \A e \in Entry : pc'[e] = "acked" => OnDisk(e)
    BY <1>1, <1>2 DEF WInv, Durable, AckedIsOnDisk, In
  <2> QED BY <1>1, <2>1 DEF Durable, AckedIsOnDisk, OnDisk
<1>8. Places'
  <2>1. \A e \in Entry : pc'[e] = "new" => pc[e] = "new"
    BY <1>2
  <2>2. \A i \in 1..Len(buffer) : pc'[buffer[i]] = "waiting"
    BY <1>2, <1>5 DEF WInv, Places
  <2>3. (lock # Free => \A i \in 1..Len(Job(lock)) : i > written => ~In(Job(lock)[i], file))'
    BY <1>1, <1>3 DEF WInv, Places, In
  <2>4. (\A e \in Entry : pc[e] = "new" => ~In(e, file) /\ ~In(e, buffer) /\ ~In(e, work))'
    BY <1>1, <2>1 DEF WInv, Places, In
  <2>5. Distinct(buffer)' /\ Distinct(work)'
    BY <1>1 DEF WInv, Places, Distinct
  <2> QED BY <1>1, <2>2, <2>3, <2>4, <2>5 DEF WInv, Places, In
<1>9. NoLostWaiter'
  BY <1>1, <1>2 DEF WInv, NoLostWaiter, In, Entry
<1> QED BY <1>1, <1>6, <1>7, <1>8, <1>9 DEF WInv, OneFrameEach

\* What a cut of the file leaves of the parts of the invariant about it.
LEMMA InvCut ==
    ASSUME WInv, Cut(file'), synced' \in synced..Len(file')
    PROVE  /\ \A e : OnDisk(e) => OnDisk(e)'
           /\ \A e \in Entry : ~In(e, file) => ~In(e, file')
           /\ OneFrameEach'
<1>1. /\ TypeOK /\ OneFrameEach /\ synced \in Nat
  BY LenProperties DEF WInv, TypeOK
<1>2. /\ synced <= Len(file') /\ Len(file') \in Nat
      /\ \A i \in 1..synced : file'[i] = file[i]
      /\ \A e \in Entry : In(e, file') => In(e, file)
      /\ \A i, j \in 1..Len(file') : file'[i] = file'[j] /\ file'[i] # Torn => i = j
  BY <1>1, CutFacts
<1>3. \A e : OnDisk(e) => OnDisk(e)'
  BY <1>1, <1>2 DEF OnDisk
<1> QED BY <1>2, <1>3 DEF OneFrameEach

\* A failed flush drops its batch, and a failed append its entry.
LEMMA InvIoFails ==
    ASSUME WInv, TypeOK', IoFails PROVE WInv'
<1>1. lock # Free /\ lock' = Free /\ UNCHANGED <<synced, buffer, written>>
  BY DEF IoFails
<1>2. Free # Flusher /\ Free \notin Direct
  BY LockAssumption DEF Entry, Free, Flusher
<1>3. /\ \A e : OnDisk(e) => OnDisk(e)'
      /\ \A e \in Entry : ~In(e, file) => ~In(e, file')
      /\ OneFrameEach'
  <2>1. Cut(file')
    BY LeftBehindIsCut DEF IoFails, WInv
  <2>2. synced' \in synced..Len(file')
    <3>1. synced \in Nat /\ Len(file') \in Nat
      BY LenProperties DEF WInv, TypeOK
    <3> QED BY <1>1, <3>1 DEF TypeOK
  <2> QED BY <2>1, <2>2, InvCut
<1>4. /\ \A i \in 1..Len(buffer) : buffer[i] \in Buffered /\ buffer[i] \in Entry
      /\ \A i \in 1..Len(work) : work[i] \in Buffered /\ work[i] \in Entry
  BY ElementOfSeq DEF WInv, TypeOK, Entry
<1>5. CASE lock = Flusher
  <2>1. /\ flusher = "writing" /\ flusher' = "idle" /\ work' = <<>> /\ Len(work') = 0
        /\ \A e \in Entry : pc'[e] = IF In(e, work) THEN "hung" ELSE pc[e]
    BY <1>5 DEF IoFails, WInv, Holder, In
  <2>2. Holder'
    BY <1>1, <1>2, <2>1 DEF Holder
  <2>3. Durable'
    BY <1>3, <2>1 DEF WInv, Durable, AckedIsOnDisk
  <2>4. Places'
    <3>1. \A e \in Entry : pc'[e] = "new" => ~In(e, file') /\ ~In(e, buffer)
      BY <1>3, <2>1 DEF WInv, Places
    <3>2. \A i \in 1..Len(buffer) : ~In(buffer[i], file') /\ pc'[buffer[i]] = "waiting"
      BY <1>3, <1>4, <2>1 DEF WInv, Places
    <3>3. Distinct(buffer)' /\ Distinct(work)'
      BY <1>1, <2>1 DEF WInv, Places, Distinct
    <3> QED BY <1>1, <2>1, <3>1, <3>2, <3>3 DEF Places, In
  <2>5. NoLostWaiter'
    BY <1>1, <2>1 DEF WInv, NoLostWaiter, In, Entry
  <2> QED BY <1>3, <2>2, <2>3, <2>4, <2>5 DEF WInv
<1>6. CASE lock # Flusher
  <2>1. /\ lock \in Direct /\ lock \in Entry /\ lock \notin Buffered
        /\ UNCHANGED <<work, flusher>>
        /\ pc'[lock] = "failed" /\ \A e \in Entry : e # lock => pc'[e] = pc[e]
    BY <1>1, <1>6, EntryAssumption DEF IoFails, WInv, TypeOK, Entry
  <2>2. flusher # "writing"
    BY <1>6 DEF WInv, Holder
  <2>3. Holder'
    BY <1>1, <1>2, <2>1, <2>2 DEF WInv, Holder
  <2>4. Durable'
    <3>0. \A e : OnDisk(e) => Synced(e, file', synced')
      BY <1>3 DEF OnDisk, Synced
    <3>1. flusher = "synced" => \A i \in 1..Len(work) : Synced(work[i], file', synced')
      BY <3>0 DEF WInv, Durable
    <3>2. (flusher = "synced" => \A i \in 1..Len(work) : OnDisk(work[i]))'
      BY <2>1, <3>1 DEF OnDisk, Synced
    <3> QED BY <1>3, <2>1, <3>2 DEF WInv, Durable, AckedIsOnDisk
  <2>5. Places'
    <3>1. \A e \in Entry : pc'[e] = "new" => ~In(e, file') /\ ~In(e, buffer) /\ ~In(e, work)
      BY <1>3, <2>1 DEF WInv, Places
    <3>2. \A i \in 1..Len(buffer) :
            ~In(buffer[i], file') /\ ~In(buffer[i], work) /\ pc'[buffer[i]] = "waiting"
      BY <1>3, <1>4, <2>1 DEF WInv, Places
    <3>3. \A i \in 1..Len(work) : pc'[work[i]] = "waiting"
      BY <1>4, <2>1 DEF WInv, Places
    <3>4. flusher = "taken" => \A i \in 1..Len(work) : ~In(work[i], file')
      BY <1>3, <1>4 DEF WInv, Places
    <3>5. Distinct(buffer)' /\ Distinct(work)'
      BY <1>1, <2>1 DEF WInv, Places, Distinct
    <3> QED BY <1>1, <2>1, <3>1, <3>2, <3>3, <3>4, <3>5 DEF Places, In
  <2>6. NoLostWaiter'
    BY <1>1, <2>1 DEF WInv, NoLostWaiter, Entry
  <2> QED BY <1>3, <2>3, <2>4, <2>5, <2>6 DEF WInv
<1> QED BY <1>5, <1>6

\* Nobody is left to wait after a crash, and what was synced is still there.
LEMMA InvCrash ==
    ASSUME WInv, TypeOK', Crash PROVE WInv'
<1>1. /\ buffer' = <<>> /\ work' = <<>> /\ Len(<<>>) = 0 /\ flusher' = "idle"
      /\ lock' = Free
      /\ \A e \in Entry : pc'[e] = IF pc[e] \in {"waiting", "hung"} THEN "lost" ELSE pc[e]
  BY DEF Crash
<1>2. Free # Flusher /\ Free \notin Direct
  BY LockAssumption DEF Entry, Free, Flusher
<1>3. /\ \A e : OnDisk(e) => OnDisk(e)'
      /\ \A e \in Entry : ~In(e, file) => ~In(e, file')
      /\ OneFrameEach'
  <2>1. Cut(file')
    BY CrashIsCut DEF WInv
  <2>2. synced' \in synced..Len(file')
    BY DEF Crash
  <2> QED BY <2>1, <2>2, InvCut
<1>4. Holder'
  BY <1>1, <1>2 DEF Holder
<1>5. Durable'
  BY <1>1, <1>3 DEF WInv, Durable, AckedIsOnDisk
<1>6. Places'
  <2>1. \A e \in Entry : pc'[e] = "new" => ~In(e, file')
    BY <1>1, <1>3 DEF WInv, Places
  <2> QED BY <1>1, <2>1 DEF Places, In, Distinct
<1>7. NoLostWaiter'
  <2>1. \A e \in Buffered : pc'[e] # "waiting"
    BY <1>1 DEF Entry
  <2> QED BY <2>1 DEF NoLostWaiter
<1> QED BY <1>3, <1>4, <1>5, <1>6, <1>7 DEF WInv

\* Every step of the log keeps the invariant.
LEMMA InvNext ==
    ASSUME WInv, [Next]_vars PROVE WInv'
<1>1. TypeOK'
  BY TypeNext DEF WInv
<1>2. ASSUME NEW e \in Buffered, AppendBuffered(e) PROVE WInv'
  BY <1>1, <1>2, InvAppendBuffered
<1>3. ASSUME NEW d \in Direct, LockDirect(d) PROVE WInv'
  BY <1>1, <1>3, InvLockDirect
<1>4. CASE Writing
  BY <1>1, <1>4, InvTakeBatch, InvLockBatch, InvWriteFrame, InvSync, InvNotify DEF Writing
<1>5. CASE IoFails \/ Crash
  BY <1>1, <1>5, InvIoFails, InvCrash
<1>6. CASE UNCHANGED vars
  <2>1. Holder' /\ Durable'
    BY <1>6 DEF vars, WInv, Holder, Durable, AckedIsOnDisk, OnDisk, Job, In
  <2>2. Places'
    BY <1>6 DEF vars, WInv, Places, Job, In, Distinct
  <2>3. OneFrameEach' /\ NoLostWaiter'
    BY <1>6 DEF vars, WInv, OneFrameEach, NoLostWaiter
  <2> QED BY <1>1, <2>1, <2>2, <2>3 DEF WInv
<1> QED BY <1>2, <1>3, <1>4, <1>5, <1>6 DEF Next

----------------------------------------------------------------------------
(* The refinement of DurableLog. *)

DiskStep == [Disk!Next]_<<DiskLog, Told>>

\* The first n frames of a file.
LEMMA PrefixIs ==
    ASSUME NEW S, NEW f \in Seq(S), NEW n \in 0..Len(f)
    PROVE  /\ SubSeq(f, 1, n) \in Seq(S) /\ Len(SubSeq(f, 1, n)) = n
           /\ \A i \in 1..n : SubSeq(f, 1, n)[i] = f[i]
<1>1. Len(f) \in Nat /\ n \in Int /\ n \in Nat /\ \A i \in 1..n : f[i] \in S
  BY LenProperties, ElementOfSeq
<1>2. /\ SubSeq(f, 1, n) \in Seq(S)
      /\ Len(SubSeq(f, 1, n)) = IF 1 <= n THEN n - 1 + 1 ELSE 0
      /\ \A i \in 1..(n - 1 + 1) : SubSeq(f, 1, n)[i] = f[1 + i - 1]
  BY <1>1, SubSeqProperties
<1> QED BY <1>1, <1>2

\* The log on disk stays as it is if no frame is synced and the synced ones stay.
LEMMA DiskStays ==
    ASSUME TypeOK, TypeOK', synced' = synced, \A i \in 1..synced : file'[i] = file[i]
    PROVE  DiskLog' = DiskLog
<1> DEFINE new == SubSeq(file', 1, synced)
           old == SubSeq(file, 1, synced)
<1>1. /\ new \in Seq(Entry \cup {Torn}) /\ Len(new) = synced
      /\ \A i \in 1..synced : new[i] = file'[i]
  BY PrefixIs DEF TypeOK
<1>2. /\ old \in Seq(Entry \cup {Torn}) /\ Len(old) = synced
      /\ \A i \in 1..synced : old[i] = file[i]
  BY PrefixIs DEF TypeOK
<1> HIDE DEF new, old
<1>3. new = old
  BY <1>1, <1>2, SeqEqual
<1> QED BY <1>3 DEF new, old, DiskLog

\* What the callers were told, by where they stand.
LEMMA ToldIs ==
    ASSUME TypeOK
    PROVE  /\ Told = [e \in Entry |-> Told[e]]
           /\ \A e \in Entry : /\ Told[e] = "new" <=> pc[e] = "new"
                               /\ Told[e] = "waiting" <=> pc[e] = "waiting"
                               /\ pc[e] = "acked" => Told[e] = "ok"
                               /\ pc[e] \in {"failed", "hung", "lost"} => Told[e] = "gone"
  BY DEF Told, TypeOK

\* The entries S get to a stage, the others stay where they are; of those that
\* hang, a crash gets rid.
Moved(S, stage) ==
    /\ \A e \in S : pc'[e] = stage
    /\ \A e \in Entry \ S : pc'[e] = pc[e] \/ (pc[e] = "hung" /\ pc'[e] = "lost")

\* What their callers were told after it.
LEMMA ToldAfter ==
    ASSUME NEW S \in SUBSET Entry
    PROVE  /\ Moved(S, "acked") => Told' = [e \in Entry |-> IF e \in S THEN "ok" ELSE Told[e]]
           /\ \A stage \in {"failed", "hung", "lost"} :
                Moved(S, stage) => Told' = [e \in Entry |-> IF e \in S THEN "gone" ELSE Told[e]]
<1>1. ASSUME Moved(S, "acked")
      PROVE  \A e \in Entry : Told'[e] = IF e \in S THEN "ok" ELSE Told[e]
  BY <1>1 DEF Told, Moved
<1>2. ASSUME NEW stage \in {"failed", "hung", "lost"}, Moved(S, stage)
      PROVE  \A e \in Entry : Told'[e] = IF e \in S THEN "gone" ELSE Told[e]
  BY <1>2 DEF Told, Moved
<1> QED BY <1>1, <1>2 DEF Told

\* Frames are synced behind those that were: DurableLog stores them.
LEMMA StoreStep ==
    ASSUME WInv, WInv', synced <= synced', \A i \in 1..synced : file'[i] = file[i],
           \A e \in Entry : In(e, file') => pc[e] # "new"
    PROVE  Disk!Store
<1> DEFINE new == SubSeq(file', 1, synced')
           old == SubSeq(file, 1, synced)
<1>1. /\ new \in Seq(Entry \cup {Torn}) /\ Len(new) = synced'
      /\ \A i \in 1..synced' : new[i] = file'[i]
  BY PrefixIs DEF WInv, TypeOK
<1>2. /\ old \in Seq(Entry \cup {Torn}) /\ Len(old) = synced
      /\ \A i \in 1..synced : old[i] = file[i]
  BY PrefixIs DEF WInv, TypeOK
<1>3. /\ synced \in Nat /\ synced' \in Nat /\ Len(file') \in Nat /\ synced' <= Len(file')
      /\ \A i \in 1..Len(file') : file'[i] \in Entry \cup {Torn}
  BY LenProperties, ElementOfSeq DEF WInv, TypeOK
<1>4. \A e \in Entry : pc[e] # "new" <=> Told[e] # "new"
  BY ToldIs DEF WInv
<1>5. DiskLog = old /\ DiskLog' = new
  BY DEF DiskLog
<1> HIDE DEF new, old
<1>6. \A i \in 1..Len(old) : new[i] = old[i]
  BY <1>1, <1>2, <1>3
<1>7. ASSUME NEW i \in (Len(old) + 1)..Len(new), new[i] # Torn
      PROVE  /\ new[i] \in Entry /\ Told[new[i]] # "new"
             /\ \A j \in 1..Len(new) : new[j] = new[i] => j = i
  <2>1. i \in 1..synced' /\ i \in 1..Len(file') /\ new[i] = file'[i]
    BY <1>1, <1>2, <1>3
  <2>2. new[i] \in Entry /\ In(new[i], file')
    BY <1>3, <1>7, <2>1 DEF In
  <2>3. \A j \in 1..Len(new) : new[j] = new[i] => j = i
    BY <1>1, <1>3, <1>7, <2>1 DEF WInv, OneFrameEach
  <2> QED BY <1>4, <2>2, <2>3
<1> QED BY <1>1, <1>2, <1>3, <1>5, <1>6, <1>7 DEF Disk!Store

\* An entry whose append returned is in the log on disk.
LEMMA AckedIsHeld ==
    ASSUME WInv', NEW e \in Entry, pc'[e] = "acked"
    PROVE  Disk!Holds(DiskLog', e)
<1> DEFINE new == SubSeq(file', 1, synced')
<1>1. Len(new) = synced' /\ \A i \in 1..synced' : new[i] = file'[i]
  BY PrefixIs DEF WInv, TypeOK
<1>2. \E i \in 1..synced' : file'[i] = e
  BY DEF WInv, Durable, AckedIsOnDisk, OnDisk
<1>3. DiskLog' = new
  BY DEF DiskLog
<1> HIDE DEF new
<1> QED BY <1>1, <1>2, <1>3 DEF Disk!Holds

\* An entry is handed in.
LEMMA SubmitStep ==
    ASSUME TypeOK, TypeOK', NEW e \in Entry, pc[e] = "new",
           pc' = [pc EXCEPT ![e] = "waiting"], UNCHANGED <<file, synced>>
    PROVE  Disk!Submit(e)
<1>1. DiskLog' = DiskLog
  BY DEF DiskLog
<1>2. Told[e] = "new" /\ Told' = [Told EXCEPT ![e] = "waiting"]
  BY DEF Told, TypeOK
<1> QED BY <1>1, <1>2 DEF Disk!Submit

\* A sync stores the frames; that of a direct append confirms its entry, too.
LEMMA SyncStep ==
    ASSUME WInv, WInv', Sync PROVE DiskStep
<1>1. lock # Free /\ synced' = Len(file) /\ file' = file
  BY DEF Sync
<1>2. \A e \in Entry : In(e, file') => pc[e] # "new"
  BY <1>1 DEF WInv, Places
<1>3. synced <= synced'
  BY <1>1, LenProperties DEF WInv, TypeOK
<1>4. Disk!Store
  BY <1>1, <1>2, <1>3, StoreStep
<1>5. CASE lock = Flusher
  <2>1. Told' = Told
    BY <1>5 DEF Sync, Told
  <2>2. Told = [e \in Entry |-> IF e \in {} THEN "ok" ELSE Told[e]]
    BY ToldIs DEF WInv
  <2>3. Disk!Confirm({})
    BY <2>1, <2>2 DEF Disk!Confirm
  <2> QED BY <1>4, <2>3 DEF DiskStep, Disk!Next
<1>6. CASE lock # Flusher
  <2>1. /\ lock \in Direct /\ lock \in Entry /\ pc' = [pc EXCEPT ![lock] = "acked"]
    BY <1>1, <1>6 DEF Sync, WInv, TypeOK, Entry
  <2>2. pc[lock] = "waiting" /\ Told[lock] = "waiting"
    BY <2>1, ToldIs DEF WInv, Holder
  <2>3. pc'[lock] = "acked"
    BY <2>1 DEF WInv, TypeOK
  <2>4. Disk!Holds(DiskLog', lock)
    BY <2>1, <2>3, AckedIsHeld
  <2>5. Told' = [e \in Entry |-> IF e \in {lock} THEN "ok" ELSE Told[e]]
    <3>1. Moved({lock}, "acked")
      BY <2>1, <2>3 DEF Moved, WInv, TypeOK
    <3> QED BY <2>1, <3>1, ToldAfter
  <2>6. Disk!Confirm({lock})
    BY <2>2, <2>4, <2>5 DEF Disk!Confirm
  <2> QED BY <1>4, <2>1, <2>6 DEF DiskStep, Disk!Next
<1> QED BY <1>5, <1>6

\* The flush tells its callers: their entries are in the log.
LEMMA NotifyStep ==
    ASSUME WInv, WInv', Notify PROVE DiskStep
<1> DEFINE S == {e \in Entry : In(e, work)}
<1>1. UNCHANGED <<file, synced>>
  BY DEF Notify
<1>2. Disk!Store
  <2>1. \A e \in Entry : In(e, file') => pc[e] # "new"
    BY <1>1 DEF WInv, Places, In
  <2>2. synced <= synced'
    BY <1>1 DEF WInv, TypeOK
  <2> QED BY <1>1, <2>1, <2>2, StoreStep
<1>3. \A e \in Entry : pc'[e] = IF e \in S THEN "acked" ELSE pc[e]
  BY DEF Notify, In
<1>4. \A e \in S : pc[e] = "waiting" /\ Told[e] = "waiting"
  BY ToldIs DEF WInv, Places, In
<1>5. \A e \in S : Disk!Holds(DiskLog', e)
  BY <1>3, AckedIsHeld
<1>6. Told' = [e \in Entry |-> IF e \in S THEN "ok" ELSE Told[e]]
  <2>1. Moved(S, "acked")
    BY <1>3 DEF Moved
  <2> QED BY <2>1, ToldAfter
<1> HIDE DEF S
<1>7. Disk!Confirm(S)
  BY <1>4, <1>5, <1>6 DEF Disk!Confirm
<1>8. S \in SUBSET Entry
  BY DEF S
<1> QED BY <1>2, <1>7, <1>8 DEF DiskStep, Disk!Next

\* A failed write loses no synced frame; its callers give up.
LEMMA FailStep ==
    ASSUME WInv, WInv', IoFails PROVE DiskStep
<1>1. Cut(file') /\ synced' = synced /\ lock # Free
  BY LeftBehindIsCut DEF IoFails, WInv
<1>2. /\ \A i \in 1..synced : file'[i] = file[i]
      /\ \A e \in Entry : In(e, file') => In(e, file)
  BY <1>1, CutFacts DEF WInv
<1>3. Disk!Store
  <2>1. \A e \in Entry : In(e, file') => pc[e] # "new"
    BY <1>2 DEF WInv, Places
  <2>2. synced <= synced'
    BY <1>1 DEF WInv, TypeOK
  <2> QED BY <1>2, <2>1, <2>2, StoreStep
<1>4. ASSUME NEW S \in SUBSET Entry, NEW stage \in {"failed", "hung"},
             \A e \in S : pc[e] = "waiting",
             \A e \in Entry : pc'[e] = IF e \in S THEN stage ELSE pc[e]
      PROVE  DiskStep
  <2>1. Told' = [e \in Entry |-> IF e \in S THEN "gone" ELSE Told[e]]
    <3>1. Moved(S, stage)
      BY <1>4 DEF Moved
    <3> QED BY <3>1, ToldAfter
  <2>2. \A e \in S : Told[e] = "waiting"
    BY <1>4, ToldIs DEF WInv
  <2>3. Disk!GiveUp(S)
    BY <2>1, <2>2 DEF Disk!GiveUp
  <2> QED BY <1>3, <1>4, <2>3 DEF DiskStep, Disk!Next
<1>5. CASE lock = Flusher
  <2> DEFINE S == {e \in Entry : In(e, work)}
  <2>1. \A e \in Entry : pc'[e] = IF e \in S THEN "hung" ELSE pc[e]
    BY <1>5 DEF IoFails, In
  <2>2. \A e \in S : pc[e] = "waiting"
    BY DEF WInv, Places, In
  <2>3. S \in SUBSET Entry
    OBVIOUS
  <2> HIDE DEF S
  <2> QED BY <1>4, <2>1, <2>2, <2>3
<1>6. CASE lock # Flusher
  <2>1. /\ lock \in Direct /\ lock \in Entry /\ pc[lock] = "waiting"
        /\ pc' = [pc EXCEPT ![lock] = "failed"]
    BY <1>1, <1>6 DEF IoFails, WInv, TypeOK, Entry, Holder
  <2>2. \A e \in Entry : pc'[e] = IF e \in {lock} THEN "failed" ELSE pc[e]
    BY <2>1 DEF WInv, TypeOK
  <2> QED BY <1>4, <2>1, <2>2
<1> QED BY <1>5, <1>6

\* A crash loses no synced frame, and may store others; who waited is not answered.
LEMMA CrashStep ==
    ASSUME WInv, WInv', Crash PROVE DiskStep
<1> DEFINE S == {e \in Entry : pc[e] = "waiting"}
<1>1. Cut(file')
  BY CrashIsCut DEF WInv
<1>2. /\ \A i \in 1..synced : file'[i] = file[i]
      /\ \A e \in Entry : In(e, file') => In(e, file)
  BY <1>1, CutFacts DEF WInv
<1>3. Disk!Store
  <2>1. \A e \in Entry : In(e, file') => pc[e] # "new"
    BY <1>2 DEF WInv, Places
  <2>2. synced \in Int /\ Len(file') \in Int /\ synced' \in synced..Len(file')
    BY LenProperties DEF Crash, WInv, TypeOK
  <2>3. synced <= synced'
    BY <2>2
  <2> QED BY <1>2, <2>1, <2>3, StoreStep
<1>4. \A e \in Entry : pc'[e] = IF pc[e] \in {"waiting", "hung"} THEN "lost" ELSE pc[e]
  BY DEF Crash
<1>5. Moved(S, "lost")
  BY <1>4 DEF Moved
<1>6. S \in SUBSET Entry
  OBVIOUS
<1>7. Told' = [e \in Entry |-> IF e \in S THEN "gone" ELSE Told[e]]
  BY <1>5, <1>6, ToldAfter
<1>8. \A e \in S : Told[e] = "waiting"
  BY ToldIs DEF WInv
<1> HIDE DEF S
<1>9. Disk!GiveUp(S)
  BY <1>7, <1>8 DEF Disk!GiveUp
<1> QED BY <1>3, <1>6, <1>9 DEF DiskStep, Disk!Next

\* Every step of the write-ahead log is one of DurableLog, or none.
LEMMA RefinementStep ==
    ASSUME WInv, WInv', [Next]_vars PROVE DiskStep
<1>1. TypeOK /\ TypeOK'
  BY DEF WInv
<1>2. ASSUME NEW e \in Entry, pc[e] = "new", pc' = [pc EXCEPT ![e] = "waiting"],
             UNCHANGED <<file, synced>>
      PROVE  DiskStep
  BY <1>1, <1>2, SubmitStep DEF DiskStep, Disk!Next
<1>3. ASSUME UNCHANGED <<file, synced, pc>> PROVE DiskStep
  BY <1>3 DEF DiskStep, DiskLog, Told
<1>4. ASSUME NEW e \in Buffered, AppendBuffered(e) PROVE DiskStep
  BY <1>2, <1>4 DEF AppendBuffered, Entry
<1>5. ASSUME NEW d \in Direct, LockDirect(d) PROVE DiskStep
  BY <1>2, <1>5 DEF LockDirect, Entry
<1>6. CASE TakeBatch \/ LockBatch \/ UNCHANGED vars
  BY <1>3, <1>6 DEF TakeBatch, LockBatch, vars
<1>7. CASE WriteFrame
  <2>1. /\ file' = Append(file, Job(lock)[written + 1]) /\ UNCHANGED <<synced, pc>>
    BY <1>7 DEF WriteFrame
  <2>2. Job(lock)[written + 1] \in Entry
    <3>1. Job(lock) \in Seq(Entry) /\ Len(Job(lock)) \in Nat
      BY <1>1, <1>7, JobType DEF WriteFrame
    <3>2. written + 1 \in 1..Len(Job(lock))
      BY <1>1, <1>7, <3>1 DEF WriteFrame, TypeOK
    <3> QED BY <3>1, <3>2, ElementOfSeq
  <2>3. \A i \in 1..Len(file) : file'[i] = file[i]
    BY <1>1, <2>1, <2>2, AppendProperties DEF TypeOK
  <2>4. synced \in 0..Len(file) /\ Len(file) \in Nat
    BY <1>1, LenProperties DEF TypeOK
  <2>5. DiskLog' = DiskLog
    BY <1>1, <2>1, <2>3, <2>4, DiskStays
  <2> QED BY <2>1, <2>5 DEF DiskStep, Told
<1>8. CASE Sync \/ Notify \/ IoFails \/ Crash
  BY <1>8, SyncStep, NotifyStep, FailStep, CrashStep
<1> QED BY <1>4, <1>5, <1>6, <1>7, <1>8 DEF Next, Writing

----------------------------------------------------------------------------
(* The theorems. *)

\* The invariant of the write-ahead log: who holds the lock has written a part
\* of its work, what is to be notified is synced, an entry is in one place.
THEOREM Invariance == Spec => []WInv
<1>1. Init => WInv
  BY InvInit
<1>2. WInv /\ [Next]_vars => WInv'
  BY InvNext
<1> QED BY <1>1, <1>2, PTL DEF Spec

\* append and append_buffered return Ok only for entries that are durable, for
\* any number of callers, crashes and failed flushes.
THEOREM Durability == Spec => []AckedIsOnDisk
<1>1. WInv => AckedIsOnDisk
  BY DEF WInv, Durable
<1> QED BY <1>1, Invariance, PTL

\* No entry is written twice, by no number of flushes.
THEOREM NoDuplicates == Spec => []OneFrameEach
<1>1. WInv => OneFrameEach
  BY DEF WInv
<1> QED BY <1>1, Invariance, PTL

\* No caller of append_buffered waits for a flush that is not to come.
THEOREM NoWaiterForgotten == Spec => []NoLostWaiter
<1>1. WInv => NoLostWaiter
  BY DEF WInv
<1> QED BY <1>1, Invariance, PTL

\* The variables keep their types.
THEOREM TypeCorrect == Spec => []TypeOK
<1>1. WInv => TypeOK
  BY DEF WInv
<1> QED BY <1>1, Invariance, PTL

\* The write-ahead log implements DurableLog: with any number of callers, crashes
\* and failed writes, what is on disk is only ever extended, with entries that were
\* handed in, each once, and callers are told so after it.
THEOREM LogRefinement == Spec => RefinesDurableLog
<1>1. Init => Disk!Init
  <2> SUFFICES ASSUME Init PROVE Disk!Init
    OBVIOUS
  <2>1. <<>> \in Seq(Entry) /\ Len(<<>>) = 0 /\ synced = 0 /\ file = <<>>
    BY DEF Init
  <2>2. DiskLog = <<>>
    BY <2>1, SubSeqEmpty DEF DiskLog
  <2>3. Told = [e \in Entry |-> "new"]
    BY DEF Init, Told
  <2> QED BY <2>2, <2>3 DEF Disk!Init
<1>2. WInv /\ WInv' /\ [Next]_vars => [Disk!Next]_<<DiskLog, Told>>
  BY RefinementStep DEF DiskStep
<1> QED BY <1>1, <1>2, Invariance, PTL DEF Spec, RefinesDurableLog, Disk!Spec, Disk!vars
=============================================================================
