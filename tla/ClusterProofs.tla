--------------------------- MODULE ClusterProofs ---------------------------
(***************************************************************************)
(* Proofs about the parts of a cluster beside the log and the elections:   *)
(* FollowerSync for any number of followers, items, entries and faults,    *)
(* SchemaChange for any number of voters, schemas, changes and restarts,   *)
(* and RollingMigration for leader and follower with any log of commands.  *)
(***************************************************************************)
EXTENDS FollowerSync, SchemaChange, RollingMigration, Induction, FiniteSetTheorems, TLAPS

----------------------------------------------------------------------------
(* FollowerSync: what the leader believes of its followers, and what is marked as
   applied. *)

(* Types. *)

LEMMA LargerIs ==
    ASSUME NEW a \in Nat, NEW b \in Nat
    PROVE  Larger(a, b) \in Nat /\ Larger(a, b) >= a /\ Larger(a, b) >= b
           /\ (Larger(a, b) = a \/ Larger(a, b) = b)
  BY DEF Larger

\* What is on its way and what is being done is about entries of the log.
Bounded ==
    /\ tick.commit <= Len(log)
    /\ \A f \in Follower :
         /\ \A c \in calls[f] : c.hi <= Len(log)
         /\ install[f].label <= Len(log)
         /\ fapplied[f] <= Len(log)
         /\ loop[f] # NoLoop => loop[f].next <= loop[f].end /\ loop[f].end <= Len(log)

LEMMA Nothing ==
    /\ NoCall \in Call /\ NoLoop \in Loop /\ NoInstall \in Install
    /\ NoInstall.label = 0 /\ NoInstall.stage = "none" /\ NoTick.commit = 0
    /\ NoTick \in [commit : 0..MaxIndex, targets : SUBSET Follower]
  BY BoundAssumption DEF NoCall, NoLoop, NoInstall, NoTick, Call, Loop, Install

LEMMA InitTyped == ASSUME Init PROVE TypeOK /\ Bounded
<1>1. log \in Seq(Item) /\ Len(log) = 0
  BY DEF Init
<1>2. TypeOK
  <2>1. has \in [Follower -> SUBSET (1..Len(log))]
    BY <1>1 DEF Init
  <2>2. /\ calls \in [Follower -> SUBSET Call] /\ notes \in [Follower -> SUBSET Note]
        /\ install \in [Follower -> Install] /\ loop \in [Follower -> Loop]
    BY Nothing DEF Init
  <2>3. model \in [Follower -> [Item -> 0..MaxIndex]]
    BY BoundAssumption DEF Init
  <2>4. tick \in [commit : 0..MaxIndex, targets : SUBSET Follower]
    BY Nothing DEF Init
  <2> QED BY <1>1, <2>1, <2>2, <2>3, <2>4, BoundAssumption DEF Init, TypeOK, Health
<1>3. Bounded
  BY <1>1, Nothing DEF Init, Bounded
<1> QED BY <1>2, <1>3

\* What Send adds is a call about entries of the log.
LEMMA Sent ==
    ASSUME TypeOK, Bounded, NEW f \in Follower,
           NEW lo \in 1..(MaxIndex + 1), NEW hi \in Nat, NEW c \in 0..MaxIndex,
           NEW n \in Nat, hi <= n, Len(log) <= n, n <= MaxIndex,
           NEW who \in {"handler", "task", "nobody"}
    PROVE  /\ Send(f, lo, hi, c, who) \in SUBSET Call
           /\ \A d \in Send(f, lo, hi, c, who) : d.hi <= n
<1>1. calls[f] \in SUBSET Call /\ Len(log) \in Nat
  BY DEF TypeOK
<1>2. [lo |-> lo, hi |-> hi, commit |-> c, by |-> who] \in Call
  BY BoundAssumption DEF Call
<1>3. \A d \in calls[f] : d.hi <= n
  <2> SUFFICES ASSUME NEW d \in calls[f] PROVE d.hi <= n
    OBVIOUS
  <2>1. d.hi \in Nat /\ d.hi <= Len(log)
    BY <1>1 DEF Bounded, Call
  <2> QED BY <1>1, <2>1
<1> QED BY <1>1, <1>2, <1>3 DEF Send

\* The log grows at its end.
LEMMA Grows ==
    ASSUME TypeOK, NEW k \in Item, Write(k)
    PROVE  /\ log' \in Seq(Item) /\ Len(log') = Len(log) + 1 /\ Len(log') <= MaxIndex
           /\ Len(log) \in Nat /\ \A i \in 1..Len(log) : log'[i] = log[i]
  BY BoundAssumption DEF TypeOK, Write

LEMMA LengthKept ==
    ASSUME TypeOK, NextWithRestarts, ~ \E k \in Item : Write(k)
    PROVE  UNCHANGED log
<1>1. TaskStep => UNCHANGED log
  BY DEF TaskStep, BeginResync, Collect, CatchUp, SendBatch, leaderVars
<1>2. ASSUME NEW f \in Follower,
             Record(f) \/ Handle(f) \/ HandleInstall(f) \/ Fault(f) \/ Restart(f)
      PROVE  UNCHANGED log
  BY <1>2 DEF Record, RecordSuccess, RecordFailure, Handle, HandleAppend, ApplyNext,
              HandleInstall, Upsert, MarkInstalled, Fault, CallFails, InstallFails, Restart, leaderVars
<1>3. ASSUME NEW i \in Idx, Commit(i) PROVE UNCHANGED log
  BY <1>3 DEF Commit
<1>4. LeaderApplies => UNCHANGED log
  BY DEF LeaderApplies
<1> QED BY <1>1, <1>2, <1>3, <1>4 DEF NextWithRestarts, Next, LeaderStep

LEMMA LeaderTyped ==
    ASSUME TypeOK, Bounded, LeaderStep PROVE TypeOK' /\ Bounded'
<1>0. Len(log) \in Nat /\ MaxIndex \in Nat /\ Len(log) <= MaxIndex
  BY BoundAssumption DEF TypeOK
<1>1. ASSUME NEW k \in Item, Write(k) PROVE TypeOK' /\ Bounded'
  <2>1. /\ log' \in Seq(Item) /\ Len(log') = Len(log) + 1 /\ Len(log') <= MaxIndex
    BY <1>1, Grows
  <2> DEFINE i == Len(log) + 1
  <2>2. ASSUME NEW f \in Follower
        PROVE  /\ Send(f, 1, i, i, "handler") \in SUBSET Call
               /\ \A d \in Send(f, 1, i, i, "handler") : d.hi <= i
    <3>1. 1 \in 1..(MaxIndex + 1) /\ i \in Nat /\ i \in 0..MaxIndex /\ i <= MaxIndex
          /\ Len(log) <= i
      BY <1>0, <2>1
    <3> HIDE DEF i
    <3> QED BY <3>1, Sent
  <2>3. /\ calls' \in [Follower -> SUBSET Call]
        /\ \A f \in Follower : \A d \in calls'[f] : d.hi <= Len(log')
    <3>1. calls' = [f \in Follower |-> IF health[f] = "desynced" THEN calls[f]
                                       ELSE Send(f, 1, i, i, "handler")]
      BY <1>1 DEF Write
    <3>2. \A f \in Follower : calls[f] \in SUBSET Call
      BY DEF TypeOK
    <3>3. \A f \in Follower : \A d \in calls[f] : d.hi <= i
      BY <1>0, <3>2 DEF Bounded, Call
    <3> HIDE DEF i
    <3>4. Len(log') = i
      BY <2>1 DEF i
    <3> QED BY <2>2, <3>1, <3>2, <3>3, <3>4
  <2>4. has' \in [Follower -> SUBSET (1..Len(log'))]
    BY <1>0, <1>1, <2>1 DEF Write, TypeOK, followerVars
  <2>5. TypeOK'
    BY <1>0, <1>1, <2>1, <2>3, <2>4 DEF Write, TypeOK, viewVars, followerVars
  <2>6. Bounded'
    <3>1. \A f \in Follower : /\ install[f].label \in Nat /\ fapplied[f] \in Nat
                              /\ loop[f].end \in Nat
      BY <1>0 DEF TypeOK, Install, Loop
    <3>2. tick.commit \in Nat
      BY <1>0 DEF TypeOK
    <3> QED BY <1>0, <1>1, <2>1, <2>3, <3>1, <3>2 DEF Write, Bounded, followerVars
  <2> QED BY <2>5, <2>6
<1>2. ASSUME NEW k \in Idx, Commit(k) PROVE TypeOK' /\ Bounded'
  <2>1. k \in 0..Len(log) /\ k \in 0..MaxIndex /\ commit <= k /\ commit \in Nat
    BY <1>0, <1>2 DEF Commit, TypeOK
  <2>2. ASSUME NEW f \in Follower
        PROVE  /\ Send(f, 1, Len(log), k, "nobody") \in SUBSET Call
               /\ \A d \in Send(f, 1, Len(log), k, "nobody") : d.hi <= Len(log)
    <3>1. 1 \in 1..(MaxIndex + 1)
      BY <1>0
    <3> QED BY <1>0, <2>1, <3>1, Sent
  <2>3. /\ calls' \in [Follower -> SUBSET Call]
        /\ \A f \in Follower : \A d \in calls'[f] : d.hi <= Len(log)
    BY <1>2, <2>2 DEF Commit
  <2>4. TypeOK'
    BY <1>0, <1>2, <2>1, <2>3 DEF Commit, TypeOK, viewVars, followerVars
  <2>5. Bounded'
    BY <1>2, <2>3 DEF Commit, Bounded, followerVars
  <2> QED BY <2>4, <2>5
<1>3. CASE LeaderApplies
  <2>1. applied' \in 0..commit /\ commit' = commit /\ commit \in 0..Len(log)
    BY <1>0, <1>3 DEF LeaderApplies, TypeOK
  <2>2. TypeOK'
    BY <1>3, <2>1 DEF LeaderApplies, TypeOK, viewVars, followerVars
  <2>3. Bounded'
    BY <1>3 DEF LeaderApplies, Bounded, followerVars
  <2> QED BY <2>2, <2>3
<1> QED BY <1>1, <1>2, <1>3 DEF LeaderStep

LEMMA TaskTyped ==
    ASSUME TypeOK, Bounded, TaskStep PROVE TypeOK' /\ Bounded'
<1>0. /\ Len(log) \in Nat /\ MaxIndex \in Nat /\ Len(log) <= MaxIndex
      /\ commit \in 0..Len(log) /\ commit \in 0..MaxIndex /\ applied \in 0..MaxIndex
      /\ batched \in 0..Len(log)
  BY BoundAssumption DEF TypeOK
<1>1. ASSUME NEW targets \in SUBSET Follower, BeginResync(targets) PROVE TypeOK' /\ Bounded'
  <2>1. tick' = [commit |-> commit, targets |-> targets]
    BY <1>1 DEF BeginResync
  <2>2. tick' \in [commit : 0..MaxIndex, targets : SUBSET Follower] /\ tick'.commit <= Len(log)
    BY <1>0, <2>1
  <2>3. TypeOK'
    BY <1>1, <2>2 DEF BeginResync, TypeOK, leaderVars, viewVars, followerVars
  <2>4. Bounded'
    BY <1>1, <2>2 DEF BeginResync, Bounded, leaderVars, followerVars
  <2> QED BY <2>3, <2>4
<1>2. CASE Collect
  <2> DEFINE new == [label |-> tick.commit, upto |-> applied, stage |-> "sent", waits |-> TRUE]
  <2>1. new \in Install /\ new.label <= Len(log)
    BY <1>0 DEF Bounded, TypeOK, Install
  <2>2. /\ install' = [f \in Follower |-> IF f \in tick.targets THEN new ELSE install[f]]
        /\ tick' = NoTick
    BY <1>2 DEF Collect
  <2> HIDE DEF new
  <2>3. /\ install' \in [Follower -> Install]
        /\ \A f \in Follower : install'[f].label <= Len(log)
    BY <2>1, <2>2 DEF TypeOK, Bounded
  <2>4. TypeOK'
    BY <1>2, <2>2, <2>3, Nothing DEF Collect, TypeOK, leaderVars, viewVars, followerVars
  <2>5. Bounded'
    BY <1>0, <1>2, <2>2, <2>3, Nothing DEF Collect, Bounded, leaderVars, followerVars
  <2> QED BY <2>4, <2>5
<1>3. ASSUME NEW f \in Follower, CatchUp(f) PROVE TypeOK' /\ Bounded'
  <2>1. believed[f] + 1 \in 1..(MaxIndex + 1)
    BY <1>0 DEF TypeOK
  <2>2. /\ Send(f, believed[f] + 1, Len(log), commit, "task") \in SUBSET Call
        /\ \A d \in Send(f, believed[f] + 1, Len(log), commit, "task") : d.hi <= Len(log)
    BY <1>0, <2>1, Sent
  <2>3. /\ calls' \in [Follower -> SUBSET Call]
        /\ \A g \in Follower : \A d \in calls'[g] : d.hi <= Len(log)
    BY <1>3, <2>2 DEF CatchUp, TypeOK, Bounded
  <2>4. TypeOK'
    BY <1>3, <2>3 DEF CatchUp, TypeOK, leaderVars, viewVars, followerVars
  <2>5. Bounded'
    BY <1>3, <2>3 DEF CatchUp, Bounded, leaderVars, followerVars
  <2> QED BY <2>4, <2>5
<1>4. CASE SendBatch
  <2>1. ASSUME NEW f \in Follower
        PROVE  /\ Send(f, batched + 1, Len(log), Len(log), "task") \in SUBSET Call
               /\ \A d \in Send(f, batched + 1, Len(log), Len(log), "task") : d.hi <= Len(log)
    <3>1. batched + 1 \in 1..(MaxIndex + 1) /\ Len(log) \in 0..MaxIndex
      BY <1>0
    <3> QED BY <1>0, <3>1, Sent
  <2>2. /\ calls' \in [Follower -> SUBSET Call]
        /\ \A g \in Follower : \A d \in calls'[g] : d.hi <= Len(log)
    BY <1>4, <2>1 DEF SendBatch
  <2>3. TypeOK'
    BY <1>0, <1>4, <2>2 DEF SendBatch, TypeOK, viewVars, followerVars
  <2>4. Bounded'
    BY <1>4, <2>2 DEF SendBatch, Bounded, followerVars
  <2> QED BY <2>3, <2>4
<1> QED BY <1>1, <1>2, <1>3, <1>4 DEF TaskStep

LEMMA AnswersTyped ==
    ASSUME TypeOK, NEW f \in Follower, NEW c \in Call, NEW entries \in SUBSET (1..Len(log)),
           NEW a \in Answers(f, c, entries)
    PROVE  /\ a \in SUBSET Note
           /\ \A n \in a : n \in notes[f] \/ (n.ok /\ n.idx \in entries)
<1>1. notes[f] \in SUBSET Note /\ Len(log) \in Nat /\ Len(log) <= MaxIndex /\ MaxIndex \in Nat
  BY BoundAssumption DEF TypeOK
<1>2. CASE c.by = "nobody"
  <2>1. a = notes[f]
    BY <1>2 DEF Answers
  <2> QED BY <1>1, <2>1
<1>3. CASE c.by # "nobody"
  <2>1. PICK k \in entries : a = notes[f] \cup {Success(k)}
    BY <1>3 DEF Answers
  <2>2. Success(k) \in Note /\ Success(k).ok /\ Success(k).idx = k
    BY <1>1 DEF Success, Note
  <2>3. a \subseteq Note
    BY <1>1, <2>1, <2>2
  <2>4. \A n \in a : n \in notes[f] \/ (n.ok /\ n.idx \in entries)
    BY <2>1, <2>2
  <2> QED BY <2>3, <2>4
<1> QED BY <1>2, <1>3

LEMMA RecordTyped ==
    ASSUME TypeOK, Bounded, NEW f \in Follower, Record(f) PROVE TypeOK' /\ Bounded'
<1>0. DesyncAfter \in Nat /\ DesyncAfter > 0 /\ MaxIndex \in Nat
  BY BoundAssumption
<1>1. ASSUME NEW n \in notes[f], RecordSuccess(f, n) PROVE TypeOK' /\ Bounded'
  <2>1. n \in Note
    BY DEF TypeOK
  <2>2. /\ believed' \in [Follower -> 0..MaxIndex] /\ failures' \in [Follower -> 0..DesyncAfter]
        /\ health' \in [Follower -> Health]
    BY <1>0, <1>1, <2>1 DEF RecordSuccess, TypeOK, Note, Health
  <2>3. notes' \in [Follower -> SUBSET Note]
    BY <1>1 DEF RecordSuccess, TypeOK
  <2>4. TypeOK'
    BY <1>1, <2>2, <2>3 DEF RecordSuccess, TypeOK, leaderVars, followerVars
  <2>5. Bounded'
    BY <1>1 DEF RecordSuccess, Bounded, leaderVars, followerVars
  <2> QED BY <2>4, <2>5
<1>2. ASSUME NEW n \in notes[f], RecordFailure(f, n) PROVE TypeOK' /\ Bounded'
  <2>1. failures[f] \in 0..DesyncAfter
    BY DEF TypeOK
  <2>2. failures' \in [Follower -> 0..DesyncAfter] /\ health' \in [Follower -> Health]
    BY <1>0, <1>2, <2>1 DEF RecordFailure, TypeOK, Health
  <2>3. notes' \in [Follower -> SUBSET Note]
    BY <1>2 DEF RecordFailure, TypeOK
  <2>4. TypeOK'
    BY <1>2, <2>2, <2>3 DEF RecordFailure, TypeOK, leaderVars, followerVars
  <2>5. Bounded'
    BY <1>2 DEF RecordFailure, Bounded, leaderVars, followerVars
  <2> QED BY <2>4, <2>5
<1> QED BY <1>1, <1>2 DEF Record

\* What a handler of /_raft/append finds and makes.
LEMMA AppendFound ==
    ASSUME TypeOK, Bounded, NEW f \in Follower, NEW c \in calls[f], HandleAppend(f, c)
    PROVE  /\ c \in Call /\ c.hi <= Len(log) /\ fapplied[f] \in 0..Len(log)
           /\ has'[f] = has[f] \cup c.lo..c.hi /\ has'[f] \in SUBSET (1..Len(log))
           /\ has' \in [Follower -> SUBSET (1..Len(log))]
           /\ \A g \in Follower : has[g] \subseteq has'[g]
           /\ \A g \in Follower \ {f} : notes'[g] = notes[g] /\ loop'[g] = loop[g]
                                        /\ spoilt'[g] = spoilt[g]
           /\ \/ /\ notes'[f] \in Answers(f, c, has'[f])
                 /\ notes' = [notes EXCEPT ![f] = notes'[f]] /\ UNCHANGED <<loop, spoilt>>
              \/ \E end \in (fapplied[f] + 1)..Len(log) :
                   /\ loop' = [loop EXCEPT ![f] =
                                 [next |-> fapplied[f] + 1, end |-> end, call |-> c]]
                   /\ spoilt' = [spoilt EXCEPT ![f] = @ \/ install[f].stage = "upserted"]
                   /\ UNCHANGED notes
<1>0. Len(log) \in Nat /\ MaxIndex \in Nat /\ Len(log) <= MaxIndex
  BY BoundAssumption DEF TypeOK
<1>1. c \in Call /\ c.hi <= Len(log) /\ fapplied[f] \in 0..Len(log)
  BY <1>0 DEF TypeOK, Bounded
<1>2. c.lo..c.hi \subseteq 1..Len(log)
  BY <1>0, <1>1 DEF Call
<1>3. has' = [has EXCEPT ![f] = @ \cup c.lo..c.hi] /\ has \in [Follower -> SUBSET (1..Len(log))]
  BY DEF HandleAppend, TypeOK
<1>4. /\ has'[f] = has[f] \cup c.lo..c.hi /\ has'[f] \in SUBSET (1..Len(log))
      /\ has' \in [Follower -> SUBSET (1..Len(log))]
      /\ \A g \in Follower : has[g] \subseteq has'[g]
  BY <1>2, <1>3
<1>5. PICK end \in fapplied[f]..MaxIndex :
         /\ IsUnapplied(f, has'[f], fcommit'[f], end)
         /\ IF end = fapplied[f]
            THEN /\ \E a \in Answers(f, c, has'[f]) : notes' = [notes EXCEPT ![f] = a]
                 /\ UNCHANGED <<loop, spoilt>>
            ELSE /\ loop' = [loop EXCEPT ![f] =
                                [next |-> fapplied[f] + 1, end |-> end, call |-> c]]
                 /\ spoilt' = [spoilt EXCEPT ![f] = @ \/ install[f].stage = "upserted"]
                 /\ UNCHANGED notes
  BY DEF HandleAppend
<1>6. /\ notes \in [Follower -> SUBSET Note] /\ loop \in [Follower -> Loop]
      /\ spoilt \in [Follower -> BOOLEAN]
  BY DEF TypeOK
<1>7. CASE end = fapplied[f]
  <2>1. PICK a \in Answers(f, c, has'[f]) : notes' = [notes EXCEPT ![f] = a]
    BY <1>5, <1>7
  <2>2. UNCHANGED <<loop, spoilt>>
    BY <1>5, <1>7
  <2>3. notes'[f] = a /\ \A g \in Follower \ {f} : notes'[g] = notes[g]
    BY <1>6, <2>1
  <2> QED BY <1>1, <1>4, <2>1, <2>2, <2>3
<1>8. CASE end # fapplied[f]
  <2>1. end \in fapplied[f] + 1..end /\ end \in Nat
    BY <1>0, <1>1, <1>8
  <2>2. end \in has'[f]
    BY <1>5, <2>1 DEF IsUnapplied
  <2>3. end \in (fapplied[f] + 1)..Len(log)
    BY <1>0, <1>1, <1>4, <2>1, <2>2
  <2>4. /\ loop' = [loop EXCEPT ![f] = [next |-> fapplied[f] + 1, end |-> end, call |-> c]]
        /\ spoilt' = [spoilt EXCEPT ![f] = @ \/ install[f].stage = "upserted"]
        /\ UNCHANGED notes
    BY <1>5, <1>8
  <2>5. \A g \in Follower \ {f} : notes'[g] = notes[g] /\ loop'[g] = loop[g] /\ spoilt'[g] = spoilt[g]
    BY <1>6, <2>4
  <2> QED BY <1>1, <1>4, <2>3, <2>4, <2>5
<1> QED BY <1>7, <1>8

LoopsTyped ==
    /\ loop \in [Follower -> Loop] /\ spoilt \in [Follower -> BOOLEAN]
    /\ \A g \in Follower : loop[g] # NoLoop =>
                             loop[g].next <= loop[g].end /\ loop[g].end <= Len(log)

LEMMA AppendTyped ==
    ASSUME TypeOK, Bounded, NEW f \in Follower, NEW c \in calls[f], HandleAppend(f, c)
    PROVE  TypeOK' /\ Bounded'
<1>0. Len(log) \in Nat /\ MaxIndex \in Nat /\ Len(log) <= MaxIndex /\ UNCHANGED log
  BY BoundAssumption DEF TypeOK, HandleAppend, leaderVars
<1>1. calls' \in [Follower -> SUBSET Call] /\ \A g \in Follower : calls'[g] \subseteq calls[g]
  BY DEF HandleAppend, TypeOK
<1>2. fcommit' \in [Follower -> 0..MaxIndex]
  <2>1. c.commit \in 0..MaxIndex /\ fcommit[f] \in 0..MaxIndex
    BY AppendFound DEF Call, TypeOK
  <2>2. Larger(fcommit[f], c.commit) \in 0..MaxIndex
    BY <2>1 DEF Larger
  <2> QED BY <2>2 DEF HandleAppend, TypeOK
<1>3. notes' \in [Follower -> SUBSET Note]
  <2>1. CASE UNCHANGED notes
    BY <2>1 DEF TypeOK
  <2>2. CASE /\ notes'[f] \in Answers(f, c, has'[f])
             /\ notes' = [notes EXCEPT ![f] = notes'[f]]
    <3>1. notes'[f] \in SUBSET Note
      BY <2>2, AppendFound, AnswersTyped
    <3> QED BY <2>2, <3>1 DEF TypeOK
  <2> QED BY <2>1, <2>2, AppendFound
<1>4. LoopsTyped'
  <2>1. CASE UNCHANGED <<loop, spoilt>>
    BY <1>0, <2>1 DEF TypeOK, Bounded, LoopsTyped
  <2>2. ASSUME NEW end \in (fapplied[f] + 1)..Len(log),
               loop' = [loop EXCEPT ![f] =
                          [next |-> fapplied[f] + 1, end |-> end, call |-> c]],
               spoilt' = [spoilt EXCEPT ![f] = @ \/ install[f].stage = "upserted"]
        PROVE  LoopsTyped'
    <3> DEFINE new == [next |-> fapplied[f] + 1, end |-> end, call |-> c]
    <3>1. new \in Loop /\ new.next <= new.end /\ new.end <= Len(log)
      BY <1>0, AppendFound DEF Loop
    <3> HIDE DEF new
    <3>2. loop' = [loop EXCEPT ![f] = new]
      BY <2>2 DEF new
    <3>3. spoilt' \in [Follower -> BOOLEAN]
      BY <2>2 DEF TypeOK
    <3> QED BY <1>0, <3>1, <3>2, <3>3 DEF TypeOK, Bounded, LoopsTyped
  <2> QED BY <2>1, <2>2, AppendFound
<1>5. TypeOK'
  BY <1>0, <1>1, <1>2, <1>3, <1>4, AppendFound
     DEF HandleAppend, TypeOK, leaderVars, viewVars, LoopsTyped
<1>6. Bounded'
  BY <1>0, <1>1, <1>4 DEF HandleAppend, Bounded, leaderVars, LoopsTyped
<1> QED BY <1>5, <1>6

\* What a round of the apply loop finds and makes.
LEMMA ApplyFound ==
    ASSUME TypeOK, Bounded, NEW f \in Follower, ApplyNext(f)
    PROVE  /\ loop[f] # NoLoop /\ loop[f] \in Loop
           /\ loop[f].next \in 1..Len(log) /\ loop[f].end \in loop[f].next..Len(log)
           /\ model' = [model EXCEPT ![f][log[loop[f].next]] = loop[f].next]
           /\ log[loop[f].next] \in Item
           /\ fapplied' = [fapplied EXCEPT ![f] = Larger(@, loop[f].next)]
           /\ \/ /\ loop[f].next < loop[f].end
                 /\ loop' = [loop EXCEPT ![f].next = loop[f].next + 1]
                 /\ UNCHANGED notes
              \/ /\ loop' = [loop EXCEPT ![f] = NoLoop]
                 /\ notes'[f] \in Answers(f, loop[f].call, has[f])
                 /\ notes' = [notes EXCEPT ![f] = notes'[f]]
<1>0. Len(log) \in Nat /\ MaxIndex \in Nat /\ log \in Seq(Item)
      /\ notes \in [Follower -> SUBSET Note]
  BY BoundAssumption DEF TypeOK
<1>1. loop[f] # NoLoop /\ loop[f] \in Loop
  BY DEF TypeOK, ApplyNext
<1>2. loop[f].next \in 1..Len(log) /\ loop[f].end \in loop[f].next..Len(log)
  BY <1>0, <1>1 DEF Bounded, Loop
<1>3. log[loop[f].next] \in Item
  BY <1>0, <1>2
<1>4. /\ model' = [model EXCEPT ![f][log[loop[f].next]] = loop[f].next]
      /\ fapplied' = [fapplied EXCEPT ![f] = Larger(@, loop[f].next)]
  BY DEF ApplyNext
<1>5. CASE loop[f].next < loop[f].end
  <2>1. loop' = [loop EXCEPT ![f].next = loop[f].next + 1] /\ UNCHANGED notes
    BY <1>5 DEF ApplyNext
  <2> QED BY <1>1, <1>2, <1>3, <1>4, <1>5, <2>1
<1>6. CASE ~(loop[f].next < loop[f].end)
  <2>1. PICK a \in Answers(f, loop[f].call, has[f]) : notes' = [notes EXCEPT ![f] = a]
    BY <1>6 DEF ApplyNext
  <2>2. notes'[f] = a /\ loop' = [loop EXCEPT ![f] = NoLoop]
    BY <1>0, <1>6, <2>1 DEF ApplyNext
  <2> QED BY <1>1, <1>2, <1>3, <1>4, <2>1, <2>2
<1> QED BY <1>5, <1>6

LEMMA ApplyTyped ==
    ASSUME TypeOK, Bounded, NEW f \in Follower, ApplyNext(f) PROVE TypeOK' /\ Bounded'
<1>0. Len(log) \in Nat /\ MaxIndex \in Nat /\ Len(log) <= MaxIndex /\ UNCHANGED log
  BY BoundAssumption DEF TypeOK, ApplyNext, leaderVars
<1> DEFINE i == loop[f].next
<1>1. i \in 1..Len(log) /\ i \in 0..MaxIndex
  BY <1>0, ApplyFound
<1>2. model' \in [Follower -> [Item -> 0..MaxIndex]]
  <2>1. [model[f] EXCEPT ![log[i]] = i] \in [Item -> 0..MaxIndex]
    BY <1>1, ApplyFound DEF TypeOK
  <2>2. model' = [model EXCEPT ![f] = [model[f] EXCEPT ![log[i]] = i]]
    BY ApplyFound
  <2> HIDE DEF i
  <2> QED BY <2>1, <2>2 DEF TypeOK
<1>3. /\ fapplied' \in [Follower -> 0..MaxIndex]
      /\ \A g \in Follower : fapplied'[g] <= Len(log)
  <2>1. Larger(fapplied[f], i) \in 0..Len(log)
    BY <1>0, <1>1 DEF Larger, TypeOK, Bounded
  <2>2. fapplied' = [fapplied EXCEPT ![f] = Larger(fapplied[f], i)]
    BY ApplyFound
  <2> HIDE DEF i
  <2> QED BY <1>0, <2>1, <2>2 DEF TypeOK, Bounded
<1>4. LoopsTyped' /\ notes' \in [Follower -> SUBSET Note]
  <2>0. spoilt' \in [Follower -> BOOLEAN]
    BY DEF TypeOK, ApplyNext
  <2>1. CASE /\ i < loop[f].end
             /\ loop' = [loop EXCEPT ![f].next = i + 1] /\ UNCHANGED notes
    <3>1. [loop[f] EXCEPT !.next = i + 1] \in Loop
      BY <1>0, <1>1, ApplyFound DEF Loop
    <3>2. loop' \in [Follower -> Loop]
      BY <2>1, <3>1 DEF TypeOK
    <3>3. loop'[f].next = i + 1 /\ loop'[f].end = loop[f].end
      BY <2>1, ApplyFound DEF TypeOK, Loop
    <3>4. \A g \in Follower : g # f => loop'[g] = loop[g]
      BY <2>1 DEF TypeOK
    <3>5. loop'[f].next <= loop'[f].end /\ loop'[f].end <= Len(log)
      <4>1. loop[f].end \in i..Len(log)
        BY ApplyFound
      <4>2. i < loop[f].end
        BY <2>1
      <4> HIDE DEF i
      <4> QED BY <1>0, <1>1, <3>3, <4>1, <4>2
    <3> HIDE DEF i
    <3> QED BY <1>0, <2>0, <2>1, <3>2, <3>4, <3>5 DEF TypeOK, Bounded, LoopsTyped
  <2>2. CASE /\ loop' = [loop EXCEPT ![f] = NoLoop]
             /\ notes'[f] \in Answers(f, loop[f].call, has[f])
             /\ notes' = [notes EXCEPT ![f] = notes'[f]]
    <3>1. loop[f].call \in Call /\ has[f] \in SUBSET (1..Len(log))
      BY ApplyFound DEF TypeOK, Loop
    <3>2. notes'[f] \in SUBSET Note
      BY <2>2, <3>1, AnswersTyped
    <3> QED BY <1>0, <2>0, <2>2, <3>2, Nothing DEF TypeOK, Bounded, LoopsTyped
  <2> QED BY <2>1, <2>2, ApplyFound
<1> HIDE DEF i
<1>5. TypeOK'
  BY <1>0, <1>2, <1>3, <1>4 DEF ApplyNext, TypeOK, leaderVars, viewVars, LoopsTyped
<1>6. Bounded'
  BY <1>0, <1>3, <1>4 DEF ApplyNext, Bounded, leaderVars, LoopsTyped
<1> QED BY <1>5, <1>6

LEMMA InstallTyped ==
    ASSUME TypeOK, Bounded, NEW f \in Follower, HandleInstall(f) PROVE TypeOK' /\ Bounded'
<1>0. Len(log) \in Nat /\ MaxIndex \in Nat /\ Len(log) <= MaxIndex /\ install[f] \in Install
      /\ install[f].label \in 0..Len(log)
  BY BoundAssumption DEF TypeOK, Install, Bounded
<1>1. CASE Upsert(f)
  <2>1. PICK items \in [Item -> 0..MaxIndex] :
           model' = [model EXCEPT ![f] = [k \in Item |-> IF items[k] = 0 THEN @[k] ELSE items[k]]]
    BY <1>1 DEF Upsert
  <2>2. model' \in [Follower -> [Item -> 0..MaxIndex]]
    BY <2>1 DEF TypeOK
  <2>3. /\ install' \in [Follower -> Install]
        /\ \A g \in Follower : install'[g].label = install[g].label
    <3>1. [install[f] EXCEPT !.stage = "upserted"] \in Install
          /\ [install[f] EXCEPT !.stage = "upserted"].label = install[f].label
      BY <1>0 DEF Install
    <3>2. install' = [install EXCEPT ![f] = [install[f] EXCEPT !.stage = "upserted"]]
      BY <1>1 DEF Upsert
    <3> QED BY <3>1, <3>2 DEF TypeOK
  <2>4. spoilt' \in [Follower -> BOOLEAN]
    BY <1>1 DEF Upsert, TypeOK
  <2>5. TypeOK'
    BY <1>1, <2>2, <2>3, <2>4 DEF Upsert, TypeOK, leaderVars, viewVars
  <2>6. Bounded'
    BY <1>1, <2>3 DEF Upsert, Bounded, leaderVars
  <2> QED BY <2>5, <2>6
<1>2. CASE MarkInstalled(f)
  <2>1. /\ fapplied' \in [Follower -> 0..MaxIndex]
        /\ \A g \in Follower : fapplied'[g] <= Len(log)
    <3>1. Larger(fapplied[f], install[f].label) \in 0..Len(log)
      BY <1>0 DEF Larger, TypeOK, Bounded
    <3> QED BY <1>0, <1>2, <3>1 DEF MarkInstalled, TypeOK, Bounded
  <2>2. notes' \in [Follower -> SUBSET Note]
    <3>1. Success(0) \in Note
      BY <1>0 DEF Success, Note
    <3> QED BY <1>2, <3>1 DEF MarkInstalled, TypeOK
  <2>3. /\ install' \in [Follower -> Install]
        /\ \A g \in Follower : install'[g].label <= Len(log)
    BY <1>0, <1>2, Nothing DEF MarkInstalled, TypeOK, Bounded
  <2>4. TypeOK'
    BY <1>2, <2>1, <2>2, <2>3 DEF MarkInstalled, TypeOK, leaderVars, viewVars
  <2>5. Bounded'
    BY <1>2, <2>1, <2>3 DEF MarkInstalled, Bounded, leaderVars
  <2> QED BY <2>4, <2>5
<1> QED BY <1>1, <1>2 DEF HandleInstall

LEMMA FailureNote == Failure \in Note /\ ~Failure.ok
  BY BoundAssumption DEF Failure, Note

LEMMA FaultTyped ==
    ASSUME TypeOK, Bounded, NEW f \in Follower, Fault(f) PROVE TypeOK' /\ Bounded'
<1>0. Len(log) \in Nat /\ MaxFaults \in Nat /\ MaxLostInstalls \in Nat
  BY BoundAssumption DEF TypeOK
<1>1. ASSUME NEW c \in calls[f], CallFails(f, c) PROVE TypeOK' /\ Bounded'
  <2>1. c \in Call /\ c.hi <= Len(log)
    BY DEF TypeOK, Bounded
  <2>2. [c EXCEPT !.by = "nobody"] \in Call /\ [c EXCEPT !.by = "nobody"].hi <= Len(log)
    BY <2>1 DEF Call
  <2>3. /\ calls' \in [Follower -> SUBSET Call]
        /\ \A g \in Follower : \A d \in calls'[g] : d.hi <= Len(log)
    <3> DEFINE late == [c EXCEPT !.by = "nobody"]
    <3>1. \/ calls' = [calls EXCEPT ![f] = calls[f] \ {c}]
          \/ calls' = [calls EXCEPT ![f] = (calls[f] \ {c}) \cup {late}]
      BY <1>1 DEF CallFails
    <3>2. late \in Call /\ late.hi <= Len(log)
      BY <2>2
    <3> HIDE DEF late
    <3>0. calls \in [Follower -> SUBSET Call] /\ c \in calls[f]
      BY DEF TypeOK
    <3>3. PICK S \in SUBSET Call : calls' = [calls EXCEPT ![f] = S] /\ S \subseteq calls[f] \cup {late}
      <4>1. calls[f] \ {c} \in SUBSET Call /\ (calls[f] \ {c}) \cup {late} \in SUBSET Call
        BY <3>0, <3>2
      <4> QED BY <3>1, <4>1
    <3>4. ASSUME NEW g \in Follower, NEW d \in calls'[g] PROVE d \in calls[g] \/ d = late
      BY <3>0, <3>3
    <3>5. calls' \in [Follower -> SUBSET Call]
      BY <3>0, <3>3
    <3> QED BY <3>2, <3>4, <3>5 DEF Bounded
  <2>4. notes' \in [Follower -> SUBSET Note]
    BY <1>1, FailureNote DEF CallFails, TypeOK
  <2>5. faults' \in [calls : 0..MaxFaults, installs : 0..MaxLostInstalls]
    <3>1. faults.calls \in 0..MaxFaults /\ faults.calls < MaxFaults
          /\ faults' = [faults EXCEPT !.calls = faults.calls + 1]
      BY <1>1 DEF CallFails, TypeOK
    <3>2. faults.calls + 1 \in 0..MaxFaults
      BY <1>0, <3>1
    <3> QED BY <3>1, <3>2 DEF TypeOK
  <2>6. TypeOK'
    BY <1>1, <2>3, <2>4, <2>5 DEF CallFails, TypeOK, leaderVars, viewVars, followerVars
  <2>7. Bounded'
    BY <1>1, <2>3 DEF CallFails, Bounded, leaderVars, followerVars
  <2> QED BY <2>6, <2>7
<1>2. CASE InstallFails(f)
  <2>1. /\ install' \in [Follower -> Install]
        /\ \A g \in Follower : install'[g].label <= Len(log)
    <3> DEFINE left == [install[f] EXCEPT !.waits = FALSE]
    <3>1. \/ install' = [install EXCEPT ![f] = NoInstall]
          \/ install' = [install EXCEPT ![f] = left]
      BY <1>2 DEF InstallFails
    <3>2. left \in Install /\ left.label <= Len(log)
      <4>1. install[f] \in Install /\ install[f].label <= Len(log)
        BY DEF TypeOK, Bounded
      <4>2. left \in Install /\ left.label = install[f].label
        BY <4>1 DEF Install
      <4> QED BY <4>1, <4>2
    <3> HIDE DEF left
    <3>3. PICK x \in Install : install' = [install EXCEPT ![f] = x] /\ x.label <= Len(log)
      BY <1>0, <3>1, <3>2, Nothing
    <3>4. install \in [Follower -> Install] /\ \A g \in Follower : install[g].label <= Len(log)
      BY DEF TypeOK, Bounded
    <3> QED BY <3>3, <3>4
  <2>2. faults' \in [calls : 0..MaxFaults, installs : 0..MaxLostInstalls]
    <3>1. faults.installs \in 0..MaxLostInstalls /\ faults.installs < MaxLostInstalls
          /\ faults' = [faults EXCEPT !.installs = faults.installs + 1]
      BY <1>2 DEF InstallFails, TypeOK
    <3>2. faults.installs + 1 \in 0..MaxLostInstalls
      BY <1>0, <3>1
    <3> QED BY <3>1, <3>2 DEF TypeOK
  <2>3. TypeOK'
    BY <1>2, <2>1, <2>2 DEF InstallFails, TypeOK, leaderVars, viewVars, followerVars
  <2>4. Bounded'
    BY <1>2, <2>1 DEF InstallFails, Bounded, leaderVars, followerVars
  <2> QED BY <2>3, <2>4
<1> QED BY <1>1, <1>2 DEF Fault

LEMMA RestartTyped ==
    ASSUME TypeOK, Bounded, NEW f \in Follower, Restart(f) PROVE TypeOK' /\ Bounded'
<1>0. Len(log) \in Nat /\ MaxRestarts \in Nat /\ MaxIndex \in Nat
  BY BoundAssumption DEF TypeOK
<1>1. /\ has' \in [Follower -> SUBSET (1..Len(log))] /\ fcommit' \in [Follower -> 0..MaxIndex]
      /\ fapplied' \in [Follower -> 0..MaxIndex] /\ \A g \in Follower : fapplied'[g] <= Len(log)
  BY <1>0 DEF Restart, TypeOK, Bounded
<1>2. /\ loop' \in [Follower -> Loop]
      /\ \A g \in Follower : loop'[g] # NoLoop =>
                               loop'[g].next <= loop'[g].end /\ loop'[g].end <= Len(log)
  BY Nothing DEF Restart, TypeOK, Bounded
<1>3. /\ install' \in [Follower -> Install]
      /\ \A g \in Follower : install'[g].label <= Len(log)
  BY <1>0, Nothing DEF Restart, TypeOK, Bounded
<1>4. notes' \in [Follower -> SUBSET Note]
  BY FailureNote DEF Restart, TypeOK
<1>5. TypeOK'
  BY <1>0, <1>1, <1>2, <1>3, <1>4 DEF Restart, TypeOK, leaderVars, viewVars
<1>6. Bounded'
  BY <1>1, <1>2, <1>3 DEF Restart, Bounded, leaderVars
<1> QED BY <1>5, <1>6

LEMMA TypeNext ==
    ASSUME TypeOK, Bounded, [NextWithRestarts]_vars PROVE TypeOK' /\ Bounded'
<1>1. ASSUME NEW f \in Follower, Handle(f) PROVE TypeOK' /\ Bounded'
  BY <1>1, AppendTyped, ApplyTyped DEF Handle
<1>2. CASE UNCHANGED vars
  BY <1>2 DEF vars, leaderVars, viewVars, followerVars, TypeOK, Bounded
<1> QED BY <1>1, <1>2, LeaderTyped, TaskTyped, RecordTyped, InstallTyped, FaultTyped, RestartTyped
        DEF NextWithRestarts, Next

LEMMA AlwaysTyped == Spec => [](TypeOK /\ Bounded)
<1>1. TypeOK /\ Bounded /\ [NextWithRestarts]_vars => (TypeOK /\ Bounded)'
  BY TypeNext
<1> QED BY <1>1, InitTyped, PTL DEF Spec

\* Every reachable state has the types.
THEOREM SyncTypeCorrect == Spec => []TypeOK
  BY AlwaysTyped, PTL

----------------------------------------------------------------------------
(* What the leader believes. *)

\* Also the answers that are not yet recorded name entries that are there.
Heard ==
    restarts = 0 =>
      \A f \in Follower :
        /\ believed[f] > 0 => believed[f] \in has[f]
        /\ \A n \in notes[f] : n.ok /\ n.idx > 0 => n.idx \in has[f]

\* A step that forgets nothing and adds answers about what is there.
LEMMA HeardMore ==
    ASSUME TypeOK, Heard, restarts' = restarts, UNCHANGED believed,
           \A g \in Follower : has[g] \subseteq has'[g],
           \A g \in Follower : \A n \in notes'[g] :
             n \in notes[g] \/ ~n.ok \/ (n.ok /\ n.idx = 0) \/ (n.ok /\ n.idx \in has'[g])
    PROVE  Heard'
<1> SUFFICES ASSUME restarts = 0, NEW g \in Follower
             PROVE  /\ believed[g] > 0 => believed[g] \in has'[g]
                    /\ \A n \in notes'[g] : n.ok /\ n.idx > 0 => n.idx \in has'[g]
  BY DEF Heard
<1>1. believed[g] > 0 => believed[g] \in has'[g]
  BY DEF Heard
<1>2. ASSUME NEW n \in notes'[g], n.ok, n.idx > 0 PROVE n.idx \in has'[g]
  <2>1. CASE n \in notes[g]
    BY <1>2, <2>1 DEF Heard
  <2>2. CASE n.idx = 0
    BY <1>2, <2>2
  <2> QED BY <1>2, <2>1, <2>2
<1> QED BY <1>1, <1>2

LEMMA HeardNext ==
    ASSUME TypeOK, Bounded, Heard, [NextWithRestarts]_vars PROVE Heard'
<1>0. notes \in [Follower -> SUBSET Note] /\ believed \in [Follower -> 0..MaxIndex]
  BY DEF TypeOK
<1>1. CASE LeaderStep \/ TaskStep \/ UNCHANGED vars
  <2>1. UNCHANGED <<believed, notes, has, restarts>>
    BY <1>1 DEF LeaderStep, Write, Commit, LeaderApplies, TaskStep, BeginResync, Collect,
                CatchUp, SendBatch, vars, leaderVars, viewVars, followerVars
  <2> QED BY <2>1 DEF Heard
<1>2. ASSUME NEW f \in Follower, Record(f) PROVE Heard'
  <2>1. UNCHANGED <<has, restarts>> /\ \A g \in Follower : notes'[g] \subseteq notes[g]
    BY <1>0, <1>2 DEF Record, RecordSuccess, RecordFailure, followerVars
  <2>2. ASSUME NEW n \in notes[f], RecordSuccess(f, n)
        PROVE \A g \in Follower : believed'[g] = IF g = f THEN n.idx ELSE believed[g]
    BY <1>0, <2>2 DEF RecordSuccess
  <2>3. ASSUME NEW n \in notes[f], RecordFailure(f, n) PROVE Heard'
    BY <2>1, <2>3 DEF RecordFailure, Heard
  <2>4. ASSUME NEW n \in notes[f], RecordSuccess(f, n) PROVE Heard'
    <3>1. n.ok
      BY <2>4 DEF RecordSuccess
    <3> QED BY <2>1, <2>2, <2>4, <3>1 DEF Heard
  <2> QED BY <1>2, <2>3, <2>4 DEF Record
<1>3. ASSUME NEW f \in Follower, NEW c \in calls[f], HandleAppend(f, c) PROVE Heard'
  <2>1. restarts' = restarts /\ UNCHANGED believed
    BY <1>3 DEF HandleAppend, viewVars
  <2>2. \A g \in Follower : has[g] \subseteq has'[g]
    BY <1>3, AppendFound
  <2>3. ASSUME NEW g \in Follower, NEW n \in notes'[g]
        PROVE  n \in notes[g] \/ (n.ok /\ n.idx \in has'[g])
    <3>1. CASE notes'[g] = notes[g]
      BY <3>1
    <3>2. CASE g = f /\ notes'[f] \in Answers(f, c, has'[f])
      <4>1. c \in Call /\ has'[f] \in SUBSET (1..Len(log))
        BY <1>3, AppendFound
      <4> QED BY <3>2, <4>1, AnswersTyped
    <3> QED BY <1>3, <3>1, <3>2, AppendFound
  <2> QED BY <2>1, <2>2, <2>3, HeardMore
<1>4. ASSUME NEW f \in Follower, ApplyNext(f) PROVE Heard'
  <2>1. restarts' = restarts /\ UNCHANGED <<believed, has>>
    BY <1>4 DEF ApplyNext, viewVars
  <2>2. ASSUME NEW g \in Follower, NEW n \in notes'[g]
        PROVE  n \in notes[g] \/ (n.ok /\ n.idx \in has'[g])
    <3>1. CASE notes'[g] = notes[g]
      BY <3>1
    <3>2. CASE g = f /\ notes'[f] \in Answers(f, loop[f].call, has[f])
      <4>1. loop[f].call \in Call /\ has[f] \in SUBSET (1..Len(log))
        BY <1>4, ApplyFound DEF TypeOK, Loop
      <4> QED BY <2>1, <3>2, <4>1, AnswersTyped
    <3>3. \/ notes' = notes
          \/ notes' = [notes EXCEPT ![f] = notes'[f]] /\ notes'[f] \in Answers(f, loop[f].call, has[f])
      BY <1>4, ApplyFound
    <3> QED BY <1>0, <3>1, <3>2, <3>3
  <2> QED BY <2>1, <2>2, HeardMore
<1>5. ASSUME NEW f \in Follower, HandleInstall(f) PROVE Heard'
  <2>1. restarts' = restarts /\ UNCHANGED <<believed, has>>
    BY <1>5 DEF HandleInstall, Upsert, MarkInstalled, viewVars
  <2>2. \A g \in Follower : \A n \in notes'[g] : n \in notes[g] \/ n = Success(0)
    BY <1>0, <1>5 DEF HandleInstall, Upsert, MarkInstalled
  <2>3. Success(0).ok /\ Success(0).idx = 0
    BY DEF Success
  <2> QED BY <2>1, <2>2, <2>3, HeardMore
<1>6. ASSUME NEW f \in Follower, Fault(f) PROVE Heard'
  <2>1. restarts' = restarts /\ UNCHANGED <<believed, has>>
    BY <1>6 DEF Fault, CallFails, InstallFails, viewVars, followerVars
  <2>2. \A g \in Follower : \A n \in notes'[g] : n \in notes[g] \/ n = Failure
    BY <1>0, <1>6 DEF Fault, CallFails, InstallFails
  <2> QED BY <2>1, <2>2, FailureNote, HeardMore
<1>7. ASSUME NEW f \in Follower, Restart(f) PROVE Heard'
  <2>1. restarts' # 0
    BY <1>7 DEF Restart, TypeOK
  <2> QED BY <2>1 DEF Heard
<1> QED BY <1>1, <1>2, <1>3, <1>4, <1>5, <1>6, <1>7 DEF NextWithRestarts, Next, Handle

\* The index the leader records for a follower is always one the follower has,
\* until a follower restarts and loses its log.
THEOREM BelievedHolds == Spec => []BelievedIsThere
<1>1. Init => Heard
  BY DEF Init, Heard
<1>2. TypeOK /\ Bounded /\ Heard /\ [NextWithRestarts]_vars => Heard'
  BY HeardNext
<1>3. Heard => BelievedIsThere
  BY DEF Heard, BelievedIsThere
<1> QED BY <1>1, <1>2, <1>3, AlwaysTyped, PTL DEF Spec

----------------------------------------------------------------------------
(* What a follower has applied. *)

\* The item of every entry up to n is at that entry or a later one.
Covers(f, n) == \A i \in 1..Len(log) : i <= n => model[f][log[i]] >= i

\* Unless a snapshot did harm there: what is marked as applied is in the models,
\* the apply loop goes on behind it, a snapshot is half installed only while no
\* loop has a list, and then its label may be marked as applied.
AppliedAt(f) ==
    ~spoilt[f] =>
        /\ Covers(f, fapplied[f])
        /\ loop[f] # NoLoop => loop[f].next = fapplied[f] + 1
        /\ install[f].stage = "upserted" => loop[f] = NoLoop /\ Covers(f, install[f].label)

Applied == \A f \in Follower : AppliedAt(f)

\* A step that does not apply or install anything there.
LEMMA AppliedKept ==
    ASSUME NEW f \in Follower, AppliedAt(f),
           UNCHANGED log, spoilt'[f] = spoilt[f], model'[f] = model[f],
           fapplied'[f] = fapplied[f], loop'[f] = loop[f],
           install'[f].stage = "upserted" =>
              install[f].stage = "upserted" /\ install'[f].label = install[f].label
    PROVE  AppliedAt(f)'
<1>1. \A n : Covers(f, n)' <=> Covers(f, n)
  BY DEF Covers
<1> QED BY <1>1 DEF AppliedAt, Covers

LEMMA AppliedWrite ==
    ASSUME TypeOK, Bounded, Applied, NEW k \in Item, Write(k) PROVE Applied'
<1> SUFFICES ASSUME NEW f \in Follower, ~spoilt[f] PROVE AppliedAt(f)'
  BY DEF Applied, AppliedAt, Write
<1>1. /\ Len(log) \in Nat /\ Len(log') = Len(log) + 1
      /\ \A i \in 1..Len(log) : log'[i] = log[i]
  BY Grows
<1>2. UNCHANGED <<model, fapplied, loop, install, spoilt>>
  BY DEF Write, followerVars
<1>3. ASSUME NEW n \in Nat, n <= Len(log), Covers(f, n)
      PROVE  \A i \in 1..Len(log') : i <= n => model'[f][log'[i]] >= i
  BY <1>1, <1>2, <1>3 DEF Covers
<1>4. /\ fapplied[f] \in Nat /\ fapplied[f] <= Len(log)
      /\ install[f].label \in Nat /\ install[f].label <= Len(log)
  BY BoundAssumption DEF TypeOK, Bounded, Install
<1>5. AppliedAt(f)
  BY DEF Applied
<1>6. Covers(f, fapplied[f])'
  <2>1. Covers(f, fapplied[f])
    BY <1>5 DEF AppliedAt
  <2> QED BY <1>2, <1>3, <1>4, <2>1 DEF Covers
<1>7. install[f].stage = "upserted" => Covers(f, install[f].label)'
  <2>1. install[f].stage = "upserted" => Covers(f, install[f].label)
    BY <1>5 DEF AppliedAt
  <2> QED BY <1>2, <1>3, <1>4, <2>1 DEF Covers
<1> QED BY <1>2, <1>5, <1>6, <1>7 DEF AppliedAt

LEMMA AppliedAppend ==
    ASSUME TypeOK, Bounded, Applied, NEW f \in Follower, NEW c \in calls[f], HandleAppend(f, c)
    PROVE  Applied'
<1>0. UNCHANGED <<log, model, fapplied, install>>
  BY DEF HandleAppend, leaderVars
<1>1. ASSUME NEW g \in Follower \ {f} PROVE AppliedAt(g)'
  BY <1>0, AppendFound, AppliedKept DEF Applied
<1>2. CASE UNCHANGED <<loop, spoilt>>
  BY <1>0, <1>2, AppliedKept DEF Applied
<1>3. ASSUME NEW end \in (fapplied[f] + 1)..Len(log),
             loop' = [loop EXCEPT ![f] = [next |-> fapplied[f] + 1, end |-> end, call |-> c]],
             spoilt' = [spoilt EXCEPT ![f] = @ \/ install[f].stage = "upserted"]
      PROVE  AppliedAt(f)'
  <2>1. loop'[f].next = fapplied[f] + 1
        /\ (~spoilt'[f] => ~spoilt[f] /\ install[f].stage # "upserted")
    BY <1>3 DEF TypeOK
  <2>2. AppliedAt(f)
    BY DEF Applied
  <2> QED BY <1>0, <2>1, <2>2 DEF AppliedAt, Covers
<1> QED BY <1>1, <1>2, <1>3, AppendFound DEF Applied

LEMMA AppliedApply ==
    ASSUME TypeOK, Bounded, Applied, NEW f \in Follower, ApplyNext(f) PROVE Applied'
<1>0. UNCHANGED <<log, install, spoilt>>
  BY DEF ApplyNext, leaderVars
<1>1. ASSUME NEW g \in Follower, g # f PROVE AppliedAt(g)'
  <2>1. model'[g] = model[g] /\ fapplied'[g] = fapplied[g] /\ loop'[g] = loop[g]
    <3>1. /\ model \in [Follower -> [Item -> 0..MaxIndex]] /\ loop \in [Follower -> Loop]
          /\ fapplied \in [Follower -> 0..MaxIndex]
      BY DEF TypeOK
    <3>2. model'[g] = model[g]
      BY <1>1, <3>1, ApplyFound
    <3>3. fapplied'[g] = fapplied[g]
      BY <1>1, <3>1, ApplyFound
    <3>4. loop'[g] = loop[g]
      BY <1>1, <3>1, ApplyFound
    <3> QED BY <3>2, <3>3, <3>4
  <2> QED BY <1>0, <2>1, AppliedKept DEF Applied
<1>2. ASSUME ~spoilt[f]
      PROVE  Covers(f, fapplied[f])' /\ (loop'[f] # NoLoop => loop'[f].next = fapplied'[f] + 1)
             /\ install[f].stage # "upserted"
  <2> DEFINE i == loop[f].next
  <2>1. /\ Covers(f, fapplied[f]) /\ i = fapplied[f] + 1 /\ install[f].stage # "upserted"
    BY <1>2, ApplyFound DEF Applied, AppliedAt
  <2>2. i \in 1..Len(log) /\ fapplied[f] \in Nat /\ Len(log) \in Nat /\ log[i] \in Item
    <3>1. fapplied[f] \in Nat /\ Len(log) \in Nat
      BY BoundAssumption DEF TypeOK
    <3> QED BY <3>1, ApplyFound
  <2>3. fapplied'[f] = i
    <3>0. fapplied \in [Follower -> 0..MaxIndex]
      BY DEF TypeOK
    <3>1. fapplied'[f] = Larger(fapplied[f], i)
      BY <3>0, ApplyFound
    <3> HIDE DEF i
    <3> QED BY <2>1, <2>2, <3>1 DEF Larger
  <2>4. loop'[f] # NoLoop => loop'[f].next = i + 1
    <3>1. CASE loop' = [loop EXCEPT ![f].next = i + 1]
      BY <3>1, ApplyFound DEF TypeOK, Loop
    <3>2. CASE loop' = [loop EXCEPT ![f] = NoLoop]
      BY <3>2 DEF TypeOK
    <3> QED BY <3>1, <3>2, ApplyFound
  <2>5. /\ model'[f][log[i]] = i /\ \A k \in Item : k # log[i] => model'[f][k] = model[f][k]
    <3>1. model' = [model EXCEPT ![f] = [model[f] EXCEPT ![log[i]] = i]]
      BY ApplyFound
    <3> HIDE DEF i
    <3> QED BY <2>2, <3>1 DEF TypeOK
  <2> HIDE DEF i
  <2>6. ASSUME NEW j \in 1..Len(log), j <= i PROVE model'[f][log[j]] >= j
    <3>1. log[j] \in Item /\ j \in Nat
      BY DEF TypeOK
    <3>2. CASE log[j] = log[i]
      BY <2>2, <2>5, <2>6, <3>2
    <3>3. CASE log[j] # log[i]
      <4>1. j <= fapplied[f]
        BY <2>1, <2>2, <2>6, <3>1, <3>3
      <4>2. model[f][log[j]] >= j
        BY <2>1, <4>1 DEF Covers
      <4> QED BY <2>5, <3>1, <3>3, <4>2
    <3> QED BY <3>2, <3>3
  <2> QED BY <1>0, <2>1, <2>3, <2>4, <2>6 DEF Covers
<1>3. AppliedAt(f)'
  BY <1>0, <1>2 DEF AppliedAt
<1> QED BY <1>1, <1>3 DEF Applied

LEMMA AppliedUpsert ==
    ASSUME TypeOK, Bounded, Applied, NEW f \in Follower, Upsert(f) PROVE Applied'
<1>0. UNCHANGED <<log, fapplied, loop>>
  BY DEF Upsert, leaderVars
<1>1. PICK items \in [Item -> 0..MaxIndex] :
         /\ IsModelAt(install[f].upto, items)
         /\ model' = [model EXCEPT ![f] = [k \in Item |-> IF items[k] = 0 THEN @[k] ELSE items[k]]]
  BY DEF Upsert
<1>2. /\ install' = [install EXCEPT ![f] = [install[f] EXCEPT !.stage = "upserted"]]
      /\ spoilt' = [spoilt EXCEPT ![f] = spoilt[f] \/ Harmful(f)]
  BY DEF Upsert
<1>3. ASSUME NEW g \in Follower, g # f PROVE AppliedAt(g)'
  <2>1. /\ model'[g] = model[g] /\ install'[g] = install[g] /\ spoilt'[g] = spoilt[g]
    BY <1>1, <1>2, <1>3 DEF TypeOK
  <2> QED BY <1>0, <2>1, AppliedKept DEF Applied
<1>4. ASSUME ~spoilt'[f] PROVE AppliedAt(f)'
  <2>1. ~Harmful(f)
    BY <1>2, <1>4 DEF TypeOK
  <2>2. install[f] \in Install /\ install[f].upto \in Nat /\ install[f].label \in Nat
        /\ fapplied[f] \in Nat /\ Len(log) \in Nat /\ MaxIndex \in Nat
    BY BoundAssumption DEF TypeOK, Install
  <2>3. /\ install[f].label <= install[f].upto /\ fapplied[f] <= install[f].upto
        /\ loop[f] = NoLoop
    BY <2>1, <2>2 DEF Harmful
  <2>4. ASSUME NEW i \in 1..Len(log), i <= install[f].upto PROVE model'[f][log[i]] >= i
    <3>1. log[i] \in Item /\ i \in Nat /\ i >= 1 /\ items[log[i]] \in Nat
      <4>1. log[i] \in Item
        BY <2>2 DEF TypeOK
      <4> QED BY <2>2, <4>1
    <3>2. items[log[i]] >= i
      <4>1. CASE items[log[i]] + 1 <= i
        <5>1. i \in (items[log[i]] + 1)..install[f].upto
          BY <2>2, <2>4, <3>1, <4>1
        <5>2. log[i] # log[i]
          BY <1>1, <3>1, <5>1 DEF IsModelAt
        <5> QED BY <5>2
      <4> QED BY <3>1, <4>1
    <3>3. model'[f][log[i]] = items[log[i]]
      <4>1. items[log[i]] # 0
        BY <3>1, <3>2
      <4> QED BY <1>1, <3>1, <4>1 DEF TypeOK
    <3> QED BY <3>2, <3>3
  <2>5. install'[f].label = install[f].label
    BY <1>2, <2>2 DEF TypeOK, Install
  <2>6. ASSUME NEW n \in Nat, n <= install[f].upto
        PROVE  \A i \in 1..Len(log) : i <= n => model'[f][log[i]] >= i
    BY <2>2, <2>4, <2>6
  <2>7. Covers(f, fapplied[f])' /\ Covers(f, install[f].label)'
    BY <1>0, <2>2, <2>3, <2>5, <2>6 DEF Covers
  <2> QED BY <1>0, <2>3, <2>7 DEF AppliedAt
<1>5. AppliedAt(f)'
  BY <1>4 DEF AppliedAt
<1> QED BY <1>3, <1>5 DEF Applied

LEMMA AppliedMark ==
    ASSUME TypeOK, Bounded, Applied, NEW f \in Follower, MarkInstalled(f) PROVE Applied'
<1>0. UNCHANGED <<log, model, loop, spoilt>>
  BY DEF MarkInstalled, leaderVars
<1>1. /\ install[f].stage = "upserted"
      /\ fapplied' = [fapplied EXCEPT ![f] = Larger(fapplied[f], install[f].label)]
      /\ install' = [install EXCEPT ![f] = NoInstall]
  BY DEF MarkInstalled
<1>2. ASSUME NEW g \in Follower, g # f PROVE AppliedAt(g)'
  <2>1. fapplied'[g] = fapplied[g] /\ install'[g] = install[g]
    BY <1>1, <1>2 DEF TypeOK
  <2> QED BY <1>0, <2>1, AppliedKept DEF Applied
<1>3. ASSUME ~spoilt[f] PROVE AppliedAt(f)'
  <2>1. /\ Covers(f, fapplied[f]) /\ loop[f] = NoLoop /\ Covers(f, install[f].label)
    BY <1>1, <1>3 DEF Applied, AppliedAt
  <2>2. /\ fapplied'[f] = fapplied[f] \/ fapplied'[f] = install[f].label
        /\ install'[f].stage = "none"
    BY <1>1, Nothing DEF TypeOK, Larger
  <2>3. Covers(f, fapplied[f])'
    BY <1>0, <2>1, <2>2 DEF Covers
  <2> QED BY <1>0, <2>1, <2>2, <2>3 DEF AppliedAt
<1>4. AppliedAt(f)'
  BY <1>0, <1>3 DEF AppliedAt
<1> QED BY <1>2, <1>4 DEF Applied

LEMMA AppliedRestart ==
    ASSUME TypeOK, Bounded, Applied, NEW f \in Follower, Restart(f) PROVE Applied'
<1>0. UNCHANGED <<log, model, spoilt>>
  BY DEF Restart, leaderVars
<1>1. ASSUME NEW g \in Follower, g # f PROVE AppliedAt(g)'
  <2>1. fapplied'[g] = fapplied[g] /\ install'[g] = install[g] /\ loop'[g] = loop[g]
    BY <1>1 DEF Restart, TypeOK
  <2> QED BY <1>0, <2>1, AppliedKept DEF Applied
<1>2. fapplied'[f] = 0 /\ loop'[f] = NoLoop /\ install'[f].stage # "upserted"
  BY Nothing DEF Restart, TypeOK
<1>3. Covers(f, fapplied[f])'
  BY <1>2 DEF Covers
<1>4. AppliedAt(f)'
  BY <1>2, <1>3 DEF AppliedAt
<1> QED BY <1>1, <1>4 DEF Applied

LEMMA AppliedNext ==
    ASSUME TypeOK, Bounded, Applied, [NextWithRestarts]_vars PROVE Applied'
<1>1. ASSUME UNCHANGED <<log, spoilt, model, fapplied, loop>>,
             \A g \in Follower : install'[g].stage = "upserted" =>
               install[g].stage = "upserted" /\ install'[g].label = install[g].label
      PROVE  Applied'
  BY <1>1, AppliedKept DEF Applied
<1>2. ASSUME NEW i \in Idx, Commit(i) PROVE Applied'
  BY <1>1, <1>2 DEF Commit, followerVars
<1>3. CASE LeaderApplies
  BY <1>1, <1>3 DEF LeaderApplies, followerVars
<1>4. CASE TaskStep
  <2>1. UNCHANGED <<log, spoilt, model, fapplied, loop>>
    BY <1>4 DEF TaskStep, BeginResync, Collect, CatchUp, SendBatch, leaderVars, followerVars
  <2>2. \A g \in Follower : install'[g] = install[g] \/ install'[g].stage = "sent"
    BY <1>4 DEF TaskStep, BeginResync, Collect, CatchUp, SendBatch
  <2> QED BY <1>1, <2>1, <2>2
<1>5. ASSUME NEW f \in Follower, Record(f) PROVE Applied'
  BY <1>1, <1>5 DEF Record, RecordSuccess, RecordFailure, leaderVars, followerVars
<1>6. ASSUME NEW f \in Follower, Handle(f) PROVE Applied'
  BY <1>6, AppliedAppend, AppliedApply DEF Handle
<1>7. ASSUME NEW f \in Follower, HandleInstall(f) PROVE Applied'
  BY <1>7, AppliedUpsert, AppliedMark DEF HandleInstall
<1>8. ASSUME NEW f \in Follower, Fault(f) PROVE Applied'
  <2>1. UNCHANGED <<log, spoilt, model, fapplied, loop>>
    BY <1>8 DEF Fault, CallFails, InstallFails, leaderVars, followerVars
  <2>2. \/ UNCHANGED install
        \/ install' = [install EXCEPT ![f] = NoInstall]
        \/ install' = [install EXCEPT ![f] = [install[f] EXCEPT !.waits = FALSE]]
    BY <1>8 DEF Fault, CallFails, InstallFails
  <2>3. \A g \in Follower : install'[g].stage = "upserted" =>
          install[g].stage = "upserted" /\ install'[g].label = install[g].label
    <3>1. install \in [Follower -> Install]
      BY DEF TypeOK
    <3>2. CASE UNCHANGED install
      BY <3>2
    <3>3. CASE install' = [install EXCEPT ![f] = NoInstall]
      BY <3>1, <3>3, Nothing
    <3>4. CASE install' = [install EXCEPT ![f] = [install[f] EXCEPT !.waits = FALSE]]
      BY <3>1, <3>4 DEF Install
    <3> QED BY <2>2, <3>2, <3>3, <3>4
  <2> QED BY <1>1, <2>1, <2>3
<1>9. CASE UNCHANGED vars
  BY <1>1, <1>9 DEF vars, leaderVars, followerVars
<1> QED BY <1>2, <1>3, <1>4, <1>5, <1>6, <1>7, <1>8, <1>9, AppliedWrite, AppliedRestart
        DEF NextWithRestarts, Next, LeaderStep

\* Whatever a follower has marked as applied is in its models, unless a snapshot
\* did harm in one of the known ways.
THEOREM NothingIsSkipped == Spec => []NothingSkipped
<1>1. Init => Applied
  BY Nothing DEF Init, Applied, AppliedAt, Covers
<1>2. TypeOK /\ Bounded /\ Applied /\ [NextWithRestarts]_vars => Applied'
  BY AppliedNext
<1>3. TypeOK /\ Applied => NothingSkipped
  BY DEF Applied, AppliedAt, Covers, NothingSkipped
<1> QED BY <1>1, <1>2, <1>3, AlwaysTyped, PTL DEF Spec

----------------------------------------------------------------------------
(* SchemaChange: votes are decided by majorities, and nothing is in force or
   stored that was not accepted. *)

(* Helpers. *)

\* VoteCounts are finite sets, and a majority is more than half.
LEMMA VoteCounts ==
    ASSUME NEW S \in SUBSET Voter
    PROVE  /\ Cardinality(S) \in Nat /\ Cardinality(Voter) \in Nat
           /\ Cardinality(S) >= Majority <=> Cardinality(S) * 2 > Cardinality(Voter)
<1>1. IsFiniteSet(Voter) /\ IsFiniteSet(S)
  BY ClusterAssumption, FS_Subset
<1>2. Cardinality(S) \in Nat /\ Cardinality(Voter) \in Nat
  BY <1>1, FS_CardinalityType
<1>3. \A a, b \in Nat : a >= b \div 2 + 1 <=> a * 2 > b
  OBVIOUS
<1> QED BY <1>2, <1>3 DEF Majority

\* A new change is one, and nobody has voted on it.
LEMMA PendingFacts ==
    ASSUME NEW s \in Schema, NEW st \in {"Consensus", "ManualApproval"}
    PROVE  Pending(s, st) \in SchemaEdit
  BY DEF Pending, SchemaEdit

\* The strategy of a change that is not accepted at once.
LEMMA StrategyFacts ==
    ASSUME NEW m \in Migration, Strategy(m) # "AutoAccept"
    PROVE  Strategy(m) \in {"Consensus", "ManualApproval"}
  BY DEF Strategy, Migration

\* One change takes the place of another.
LEMMA Replaced ==
    ASSUME changes \in Seq(SchemaEdit), NEW c \in DOMAIN changes, NEW x \in SchemaEdit,
           changes' = [changes EXCEPT ![c] = x]
    PROVE  /\ changes' \in Seq(SchemaEdit) /\ Len(changes') = Len(changes)
           /\ DOMAIN changes' = DOMAIN changes /\ changes'[c] = x
           /\ \A d \in DOMAIN changes : d # c => changes'[d] = changes[d]
<1>1. changes' \in Seq(SchemaEdit) /\ Len(changes') = Len(changes)
  OBVIOUS
<1>2. /\ DOMAIN changes' = DOMAIN changes /\ changes'[c] = x
      /\ \A d \in DOMAIN changes : d # c => changes'[d] = changes[d]
  OBVIOUS
<1> QED BY <1>1, <1>2

\* A change is an element of the sequence.
LEMMA Element ==
    ASSUME changes \in Seq(SchemaEdit), NEW c \in DOMAIN changes
    PROVE  changes[c] \in SchemaEdit
  OBVIOUS

\* The change as it is after a vote.
Voted(c, n, approve) ==
    IF approve THEN [changes[c] EXCEPT !.approvals = @ \cup {n}]
    ELSE [changes[c] EXCEPT !.rejections = @ \cup {n}]
StatusOf(v) ==
    CASE HasEnoughApprovals(v) -> "Applied"
      [] ShouldReject(v) /\ ~HasEnoughApprovals(v) -> "Rejected"
      [] OTHER -> "Pending"

\* What a vote does, with its parts named.
LEMMA VoteParts ==
    ASSUME changes \in Seq(SchemaEdit), NEW c \in DOMAIN changes, NEW n \in Voter,
           NEW approve \in BOOLEAN, VoteOn(c, n, approve)
    PROVE  LET v == Voted(c, n, approve) IN
           /\ changes[c].status = "Pending"
           /\ v \in SchemaEdit /\ [v EXCEPT !.status = StatusOf(v)] \in SchemaEdit
           /\ v.spec = changes[c].spec
           /\ changes' = [changes EXCEPT ![c] = [v EXCEPT !.status = StatusOf(v)]]
           /\ \/ StatusOf(v) = "Applied" /\ schemaNow' = v.spec /\ accepted' = accepted \cup {v.spec}
              \/ StatusOf(v) # "Applied" /\ UNCHANGED <<schemaNow, accepted>>
           /\ UNCHANGED <<mode, binarySchema, storedSchema, lockState, revalidating, deploys,
                          schemaOps>>
<1> DEFINE v == Voted(c, n, approve)
<1>1. changes[c].status = "Pending"
  BY DEF VoteOn, IsPending
<1>2. changes[c] \in SchemaEdit
  BY Element
<1>3. v \in SchemaEdit /\ v.spec = changes[c].spec
  <2>1. CASE approve
    BY <2>1, <1>2 DEF Voted, SchemaEdit
  <2>2. CASE ~approve
    BY <2>2, <1>2 DEF Voted, SchemaEdit
  <2> QED BY <2>1, <2>2
<1>4. StatusOf(v) \in {"Pending", "Applied", "Rejected"}
  BY DEF StatusOf
<1>5. [v EXCEPT !.status = StatusOf(v)] \in SchemaEdit
  BY <1>3, <1>4 DEF SchemaEdit
<1>6. /\ changes' = [changes EXCEPT ![c] = [v EXCEPT !.status = StatusOf(v)]]
      /\ \/ StatusOf(v) = "Applied" /\ schemaNow' = v.spec /\ accepted' = accepted \cup {v.spec}
         \/ StatusOf(v) # "Applied" /\ UNCHANGED <<schemaNow, accepted>>
      /\ UNCHANGED <<mode, binarySchema, storedSchema, lockState, revalidating, deploys,
                     schemaOps>>
  BY DEF VoteOn, Voted, StatusOf
<1> QED BY <1>1, <1>3, <1>5, <1>6

\* A vote puts a schema in force and accepts it, or does neither.
LEMMA VoteSchema ==
    ASSUME NEW c, NEW n, NEW approve, VoteOn(c, n, approve)
    PROVE  LET s == Voted(c, n, approve).spec IN
           \/ schemaNow' = s /\ accepted' = accepted \cup {s}
           \/ UNCHANGED <<schemaNow, accepted>>
  BY DEF VoteOn, Voted

Approved(c, u) == [changes[c] EXCEPT !.humans = @ \cup {u}]

\* What an approval does, with its parts named.
LEMMA ApproveParts ==
    ASSUME changes \in Seq(SchemaEdit), NEW c \in DOMAIN changes, NEW u \in Approver,
           Approve(c, u)
    PROVE  LET a == Approved(c, u) IN
           /\ changes[c].status = "Pending"
           /\ a \in SchemaEdit /\ [a EXCEPT !.status = "Applied"] \in SchemaEdit
           /\ a.spec = changes[c].spec /\ a.status = "Pending" /\ u \in a.humans
           /\ \/ /\ HasEnoughApprovals(a)
                 /\ changes' = [changes EXCEPT ![c] = [a EXCEPT !.status = "Applied"]]
                 /\ schemaNow' = a.spec /\ storedSchema' \in Saved(a.spec)
                 /\ accepted' = accepted \cup {a.spec}
              \/ /\ ~HasEnoughApprovals(a)
                 /\ changes' = [changes EXCEPT ![c] = a]
                 /\ UNCHANGED <<schemaNow, storedSchema, accepted>>
           /\ UNCHANGED <<mode, binarySchema, lockState, revalidating, deploys, schemaOps>>
<1> DEFINE a == Approved(c, u)
<1>1. changes[c].status = "Pending"
  BY DEF Approve, IsPending
<1>2. changes[c] \in SchemaEdit
  BY Element
<1>3. a \in SchemaEdit /\ a.spec = changes[c].spec /\ a.status = "Pending" /\ u \in a.humans
  BY <1>1, <1>2 DEF Approved, SchemaEdit
<1>4. [a EXCEPT !.status = "Applied"] \in SchemaEdit
  BY <1>3 DEF SchemaEdit
<1>5. \/ /\ HasEnoughApprovals(a)
         /\ changes' = [changes EXCEPT ![c] = [a EXCEPT !.status = "Applied"]]
         /\ schemaNow' = a.spec /\ storedSchema' \in Saved(a.spec)
         /\ accepted' = accepted \cup {a.spec}
      \/ /\ ~HasEnoughApprovals(a)
         /\ changes' = [changes EXCEPT ![c] = a]
         /\ UNCHANGED <<schemaNow, storedSchema, accepted>>
  BY DEF Approve, Approved
<1>6. UNCHANGED <<mode, binarySchema, lockState, revalidating, deploys, schemaOps>>
  BY DEF Approve
<1> QED BY <1>1, <1>3, <1>4, <1>5, <1>6

----------------------------------------------------------------------------
(* Types. *)

LEMMA SchemaTypeInit == ASSUME SchemaInit PROVE SchemaTypeOK
<1>1. changes \in Seq(SchemaEdit) /\ Len(changes) <= MaxChanges
  BY ClusterAssumption DEF SchemaInit
<1>2. deploys \in 0..MaxDeploys /\ schemaOps \in 0..MaxSchemaOps
  BY ClusterAssumption DEF SchemaInit
<1> QED BY <1>1, <1>2 DEF SchemaInit, SchemaTypeOK

LEMMA SchemaTypeNext == ASSUME SchemaTypeOK, [SchemaNext]_schemaVars PROVE SchemaTypeOK'
<1> USE ClusterAssumption
<1>0. changes \in Seq(SchemaEdit)
  BY DEF SchemaTypeOK
<1>1. ASSUME NEW s \in Schema, NEW m \in Migration, Propose(s, m) PROVE SchemaTypeOK'
  <2>1. CASE Strategy(m) = "AutoAccept"
    BY <1>1, <2>1 DEF Propose, SchemaTypeOK
  <2>2. CASE Strategy(m) # "AutoAccept"
    <3>1. Pending(s, Strategy(m)) \in SchemaEdit
      BY <2>2, StrategyFacts, PendingFacts
    <3>2. /\ Len(changes) < MaxChanges
          /\ changes' = Append(changes, Pending(s, Strategy(m)))
      BY <1>1, <2>2 DEF Propose
    <3>3. changes' \in Seq(SchemaEdit) /\ Len(changes') <= MaxChanges
      BY <1>0, <3>1, <3>2
    <3> QED BY <1>1, <2>2, <3>3 DEF Propose, SchemaTypeOK
  <2> QED BY <2>1, <2>2
<1>2. ASSUME NEW b \in Schema, NEW m \in Migration, Deploy(b, m) PROVE SchemaTypeOK'
  <2>1. changes' \in Seq(SchemaEdit) /\ Len(changes') <= MaxChanges
    <3>1. CASE changes' = <<>>
      BY <3>1
    <3>2. CASE Strategy(m) # "AutoAccept" /\ changes' = <<Pending(b, Strategy(m))>>
      <4>1. Pending(b, Strategy(m)) \in SchemaEdit
        BY <3>2, StrategyFacts, PendingFacts
      <4> QED BY <3>2, <4>1
    <3> QED BY <1>2, <3>1, <3>2 DEF Deploy
  <2>2. /\ storedSchema' \in Saved(b) /\ schemaNow' \in {b, NoSchema}
        /\ accepted' \in {accepted, accepted \cup {b}}
    BY <1>2 DEF Deploy, Saved
  <2>3. /\ storedSchema' \in Schema \cup {NoSchema, Unreadable}
        /\ schemaNow' \in Schema \cup {NoSchema} /\ accepted' \in SUBSET Schema
    BY <2>2 DEF SchemaTypeOK, Saved
  <2>4. UNCHANGED <<mode, lockState, schemaOps>> /\ binarySchema' \in Schema
        /\ revalidating' = "none" /\ deploys < MaxDeploys /\ deploys' = deploys + 1
    BY <1>2 DEF Deploy
  <2>5. deploys' \in 0..MaxDeploys
    BY <2>4 DEF SchemaTypeOK
  <2> QED BY <2>1, <2>3, <2>4, <2>5 DEF SchemaTypeOK
<1>3. ASSUME NEW c \in DOMAIN changes, ProposeAgain(c) PROVE SchemaTypeOK'
  <2>1. changes[c] \in SchemaEdit
    BY <1>0, Element
  <2>2. Pending(changes[c].spec, changes[c].strategy) \in SchemaEdit
    BY <2>1, PendingFacts DEF SchemaEdit
  <2>3. changes' = [changes EXCEPT ![c] = Pending(changes[c].spec, changes[c].strategy)]
    BY <1>3 DEF ProposeAgain
  <2>4. changes' \in Seq(SchemaEdit) /\ Len(changes') = Len(changes)
    BY <1>0, <2>2, <2>3, Replaced
  <2> QED BY <1>3, <2>4 DEF ProposeAgain, SchemaTypeOK
<1>4. ASSUME NEW c \in DOMAIN changes, NEW n \in Voter, NEW approve \in BOOLEAN,
             VoteOn(c, n, approve)
      PROVE  SchemaTypeOK'
  <2> DEFINE v == Voted(c, n, approve)
             w == [v EXCEPT !.status = StatusOf(v)]
  <2>1. w \in SchemaEdit /\ v \in SchemaEdit /\ changes' = [changes EXCEPT ![c] = w]
    BY <1>0, <1>4, VoteParts
  <2>2. changes' \in Seq(SchemaEdit) /\ Len(changes') = Len(changes)
    BY <1>0, <2>1, Replaced
  <2>3. v.spec \in Schema
    BY <2>1 DEF SchemaEdit
  <2>4. \/ schemaNow' = v.spec /\ accepted' = accepted \cup {v.spec}
        \/ UNCHANGED <<schemaNow, accepted>>
    BY <1>4, VoteSchema
  <2>5. schemaNow' \in Schema \cup {NoSchema} /\ accepted' \in SUBSET Schema
    BY <2>3, <2>4 DEF SchemaTypeOK
  <2> QED BY <1>4, <2>2, <2>5 DEF VoteOn, SchemaTypeOK
<1>5. ASSUME NEW c \in DOMAIN changes, NEW u \in Approver, Approve(c, u) PROVE SchemaTypeOK'
  <2> DEFINE a == Approved(c, u)
             b == [a EXCEPT !.status = "Applied"]
  <2>1. a \in SchemaEdit /\ b \in SchemaEdit
    BY <1>0, <1>5, ApproveParts
  <2>2. changes' = [changes EXCEPT ![c] = a] \/ changes' = [changes EXCEPT ![c] = b]
    BY <1>0, <1>5, ApproveParts
  <2>3. changes' \in Seq(SchemaEdit) /\ Len(changes') = Len(changes)
    BY <1>0, <2>1, <2>2, Replaced
  <2>4. a.spec \in Schema
    BY <2>1 DEF SchemaEdit
  <2>5. \/ /\ schemaNow' = a.spec /\ storedSchema' \in Saved(a.spec)
           /\ accepted' = accepted \cup {a.spec}
        \/ UNCHANGED <<schemaNow, storedSchema, accepted>>
    BY <1>0, <1>5, ApproveParts
  <2>6. /\ storedSchema' \in Schema \cup {NoSchema, Unreadable}
        /\ schemaNow' \in Schema \cup {NoSchema} /\ accepted' \in SUBSET Schema
    BY <2>4, <2>5 DEF SchemaTypeOK, Saved
  <2> QED BY <1>5, <2>3, <2>6 DEF Approve, SchemaTypeOK
<1>6. ASSUME NEW c \in DOMAIN changes, RejectByAdmin(c) PROVE SchemaTypeOK'
  <2> DEFINE x == [changes[c] EXCEPT !.status = "Rejected", !.byAdmin = TRUE]
  <2>1. x \in SchemaEdit
    BY <1>0, Element DEF SchemaEdit
  <2>2. changes' = [changes EXCEPT ![c] = x]
    BY <1>0, <1>6 DEF RejectByAdmin
  <2>3. changes' \in Seq(SchemaEdit) /\ Len(changes') = Len(changes)
    BY <1>0, <2>1, <2>2, Replaced
  <2> QED BY <1>6, <2>3 DEF RejectByAdmin, SchemaTypeOK
<1>7. ASSUME NEW l \in {"locked", "open", "expiring"}, SetLock(l) PROVE SchemaTypeOK'
  BY <1>7 DEF SetLock, SchemaTypeOK
<1>8. CASE UnlockExpires
  BY <1>8 DEF UnlockExpires, SchemaTypeOK
<1>9. CASE BeginRevalidate \/ ReadSpec \/ Revalidate
  BY <1>9 DEF BeginRevalidate, ReadSpec, Revalidate, Saved, SchemaTypeOK
<1>10. CASE UNCHANGED schemaVars
  BY <1>10 DEF schemaVars, SchemaTypeOK
<1> QED BY <1>1, <1>2, <1>3, <1>4, <1>5, <1>6, <1>7, <1>8, <1>9, <1>10 DEF SchemaNext

\* Every reachable state has the types.
THEOREM SchemaTypeCorrect == SchemaSpec => []SchemaTypeOK
<1>1. SchemaInit => SchemaTypeOK
  BY SchemaTypeInit
<1>2. SchemaTypeOK /\ [SchemaNext]_schemaVars => SchemaTypeOK'
  BY SchemaTypeNext
<1> QED BY <1>1, <1>2, PTL DEF SchemaSpec

----------------------------------------------------------------------------
(* VoteCounts. *)

\* MajorityDecides for one change.
Decided(ch) ==
    LET approves == Cardinality(ch.approvals) * 2 > Cardinality(Voter)
        rejects == Cardinality(ch.rejections) * 2 > Cardinality(Voter)
    IN ch.strategy = "Consensus" =>
         /\ ch.status = "Applied" <=> approves
         /\ ch.status = "Rejected" <=> rejects \/ ch.byAdmin
         /\ ~(approves /\ rejects)

LEMMA AllDecided == MajorityDecides <=> \A c \in DOMAIN changes : Decided(changes[c])
  BY DEF MajorityDecides, Decided

\* Nobody has decided on a new change.
LEMMA PendingIsDecided ==
    ASSUME NEW s, NEW st PROVE Decided(Pending(s, st))
<1>1. Cardinality({}) = 0 /\ Cardinality(Voter) \in Nat
  BY VoteCounts, FS_EmptySet
<1> QED BY <1>1 DEF Decided, Pending

\* If all changes but one stay, that one matters.
LEMMA OneReplaced ==
    ASSUME changes \in Seq(SchemaEdit), MajorityDecides, NEW c \in DOMAIN changes,
           NEW x \in SchemaEdit, changes' = [changes EXCEPT ![c] = x], Decided(x)
    PROVE  MajorityDecides'
<1>1. /\ DOMAIN changes' = DOMAIN changes /\ changes'[c] = x
      /\ \A d \in DOMAIN changes : d # c => changes'[d] = changes[d]
  BY Replaced
<1>2. \A d \in DOMAIN changes : Decided(changes[d])
  BY AllDecided
<1>3. \A d \in DOMAIN changes' : Decided(changes'[d])
  BY <1>1, <1>2
<1> QED BY <1>3 DEF MajorityDecides, Decided

\* A vote decides by majority, and not twice.
LEMMA VoteDecides ==
    ASSUME SchemaTypeOK, MajorityDecides, NEW c \in DOMAIN changes, NEW n \in Voter,
           NEW approve \in BOOLEAN, VoteOn(c, n, approve)
    PROVE  MajorityDecides'
<1> DEFINE v == Voted(c, n, approve)
           w == [v EXCEPT !.status = StatusOf(v)]
<1>1. changes \in Seq(SchemaEdit) /\ changes[c] \in SchemaEdit
  BY Element DEF SchemaTypeOK
<1>2. /\ changes[c].status = "Pending" /\ v \in SchemaEdit /\ w \in SchemaEdit
      /\ changes' = [changes EXCEPT ![c] = w]
  BY <1>1, VoteParts
<1>3. Decided(changes[c])
  BY AllDecided
<1>4. SUFFICES Decided(w)
  BY <1>1, <1>2, OneReplaced
<1>5. SUFFICES ASSUME w.strategy = "Consensus" 
               PROVE  LET a == Cardinality(w.approvals) * 2 > Cardinality(Voter)
                          r == Cardinality(w.rejections) * 2 > Cardinality(Voter)
                      IN /\ w.status = "Applied" <=> a
                         /\ w.status = "Rejected" <=> r \/ w.byAdmin
                         /\ ~(a /\ r)
  BY DEF Decided
<1>6. /\ w.approvals = v.approvals /\ w.rejections = v.rejections /\ w.byAdmin = v.byAdmin
      /\ w.strategy = v.strategy /\ w.status = StatusOf(v)
  BY <1>2 DEF SchemaEdit
<1>7. /\ v.strategy = changes[c].strategy /\ v.byAdmin = changes[c].byAdmin
      /\ v.approvals \in SUBSET Voter /\ v.rejections \in SUBSET Voter
      /\ v.approvals = changes[c].approvals \/ v.rejections = changes[c].rejections
  <2>1. CASE approve
    BY <1>1, <2>1 DEF Voted, SchemaEdit
  <2>2. CASE ~approve
    BY <1>1, <2>2 DEF Voted, SchemaEdit
  <2> QED BY <2>1, <2>2
<1>8. /\ ~(Cardinality(changes[c].approvals) * 2 > Cardinality(Voter))
      /\ ~(Cardinality(changes[c].rejections) * 2 > Cardinality(Voter))
      /\ ~changes[c].byAdmin
  BY <1>2, <1>3, <1>5, <1>6, <1>7 DEF Decided
<1>9. /\ HasEnoughApprovals(v) <=> Cardinality(v.approvals) * 2 > Cardinality(Voter)
      /\ ShouldReject(v) <=> Cardinality(v.rejections) * 2 > Cardinality(Voter)
  BY <1>5, <1>6, <1>7, VoteCounts DEF HasEnoughApprovals, ShouldReject
<1>10. ~(HasEnoughApprovals(v) /\ ShouldReject(v))
  BY <1>7, <1>8, <1>9
<1>11. /\ StatusOf(v) = "Applied" <=> HasEnoughApprovals(v)
       /\ StatusOf(v) = "Rejected" <=> ShouldReject(v)
  BY <1>10 DEF StatusOf
<1> QED BY <1>6, <1>7, <1>8, <1>9, <1>10, <1>11

\* An approval leaves a change that is put to the vote as it is.
LEMMA ApproveDecides ==
    ASSUME SchemaTypeOK, MajorityDecides, NEW c \in DOMAIN changes, NEW u \in Approver,
           Approve(c, u)
    PROVE  MajorityDecides'
<1> DEFINE a == Approved(c, u)
           b == [a EXCEPT !.status = "Applied"]
<1>1. changes \in Seq(SchemaEdit) /\ changes[c] \in SchemaEdit
  BY Element DEF SchemaTypeOK
<1>2. /\ changes[c].status = "Pending" /\ a \in SchemaEdit /\ b \in SchemaEdit
      /\ \/ HasEnoughApprovals(a) /\ changes' = [changes EXCEPT ![c] = b]
         \/ changes' = [changes EXCEPT ![c] = a]
  BY <1>1, ApproveParts
<1>3. Decided(changes[c])
  BY AllDecided
<1>4. /\ a.strategy = changes[c].strategy /\ a.byAdmin = changes[c].byAdmin
      /\ a.approvals = changes[c].approvals /\ a.rejections = changes[c].rejections
      /\ a.status = changes[c].status /\ a.approvals \in SUBSET Voter
  BY <1>1 DEF Approved, SchemaEdit
<1>5. Decided(a)
  BY <1>3, <1>4 DEF Decided
<1>6. ASSUME HasEnoughApprovals(a) PROVE Decided(b)
  <2>1. a.strategy # "Consensus"
    BY <1>2, <1>3, <1>4, <1>6, VoteCounts DEF HasEnoughApprovals, Decided
  <2>2. b.strategy = a.strategy
    BY <1>2 DEF SchemaEdit
  <2> QED BY <2>1, <2>2 DEF Decided
<1> QED BY <1>1, <1>2, <1>5, <1>6, OneReplaced

LEMMA DecidedNext ==
    ASSUME SchemaTypeOK, MajorityDecides, [SchemaNext]_schemaVars PROVE MajorityDecides'
<1>0. changes \in Seq(SchemaEdit)
  BY DEF SchemaTypeOK
<1>1. CASE UNCHANGED changes
  BY <1>1 DEF MajorityDecides
<1>2. ASSUME NEW s \in Schema, NEW m \in Migration, Propose(s, m) PROVE MajorityDecides'
  <2>1. CASE changes' = Append(changes, Pending(s, Strategy(m)))
    <3>1. \A d \in DOMAIN changes' : \/ d \in DOMAIN changes /\ changes'[d] = changes[d]
                                    \/ changes'[d] = Pending(s, Strategy(m))
      BY <1>0, <2>1
    <3>2. \A d \in DOMAIN changes' : Decided(changes'[d])
      BY <3>1, AllDecided, PendingIsDecided
    <3> QED BY <3>2 DEF MajorityDecides, Decided
  <2> QED BY <1>1, <1>2, <2>1 DEF Propose
<1>3. ASSUME NEW b \in Schema, NEW m \in Migration, Deploy(b, m) PROVE MajorityDecides'
  <2>1. \A d \in DOMAIN changes' : changes'[d] = Pending(b, Strategy(m))
    BY <1>3 DEF Deploy
  <2>2. \A d \in DOMAIN changes' : Decided(changes'[d])
    BY <2>1, PendingIsDecided
  <2> QED BY <2>2 DEF MajorityDecides, Decided
<1>4. ASSUME NEW c \in DOMAIN changes, ProposeAgain(c) PROVE MajorityDecides'
  <2> DEFINE x == Pending(changes[c].spec, changes[c].strategy)
  <2>1. changes[c] \in SchemaEdit
    BY <1>0, Element
  <2>2. x \in SchemaEdit
    BY <2>1, PendingFacts DEF SchemaEdit
  <2>3. changes' = [changes EXCEPT ![c] = x]
    BY <1>4 DEF ProposeAgain
  <2> QED BY <1>0, <2>2, <2>3, PendingIsDecided, OneReplaced
<1>5. ASSUME NEW c \in DOMAIN changes, NEW n \in Voter, NEW approve \in BOOLEAN,
             VoteOn(c, n, approve)
      PROVE  MajorityDecides'
  BY <1>5, VoteDecides
<1>6. ASSUME NEW c \in DOMAIN changes, NEW u \in Approver, Approve(c, u) PROVE MajorityDecides'
  BY <1>6, ApproveDecides
<1>7. ASSUME NEW c \in DOMAIN changes, RejectByAdmin(c) PROVE MajorityDecides'
  <2> DEFINE x == [changes[c] EXCEPT !.status = "Rejected", !.byAdmin = TRUE]
  <2>1. changes[c] \in SchemaEdit /\ changes[c].status = "Pending" /\ Decided(changes[c])
    BY <1>0, <1>7, Element, AllDecided DEF RejectByAdmin, IsPending
  <2>2. /\ x \in SchemaEdit /\ x.strategy = changes[c].strategy /\ x.status = "Rejected"
        /\ x.byAdmin = TRUE
        /\ x.approvals = changes[c].approvals /\ x.rejections = changes[c].rejections
    BY <2>1 DEF SchemaEdit
  <2>3. Decided(x)
    BY <2>1, <2>2 DEF Decided
  <2>4. changes' = [changes EXCEPT ![c] = x]
    BY <1>0, <1>7 DEF RejectByAdmin
  <2> QED BY <1>0, <2>2, <2>3, <2>4, OneReplaced
<1>8. ASSUME NEW l \in {"locked", "open", "expiring"}, SetLock(l) PROVE UNCHANGED changes
  BY <1>8 DEF SetLock
<1>9. CASE UnlockExpires \/ BeginRevalidate \/ ReadSpec \/ Revalidate \/ UNCHANGED schemaVars
  BY <1>1, <1>9 DEF UnlockExpires, BeginRevalidate, ReadSpec, Revalidate, schemaVars
<1> QED BY <1>1, <1>2, <1>3, <1>4, <1>5, <1>6, <1>7, <1>8, <1>9 DEF SchemaNext

\* A change put to the vote is applied exactly by a majority, and rejected by one
\* or by an administrator, for any number of nodes, votes of any order, repeated
\* votes and proposals, approvals and restarts.
THEOREM VotesDecide == SchemaSpec => []MajorityDecides
<1>1. SchemaInit => MajorityDecides
  BY DEF SchemaInit, MajorityDecides
<1>2. SchemaTypeOK /\ MajorityDecides /\ [SchemaNext]_schemaVars => MajorityDecides'
  BY DecidedNext
<1> QED BY <1>1, <1>2, SchemaTypeCorrect, PTL DEF SchemaSpec

----------------------------------------------------------------------------
(* What is in force and what is stored. *)

\* OnlyAccepted, and a revalidation that will save, although not in Auto mode, saves
\* what was taken for the first schema.
AcceptedInv ==
    /\ OnlyAccepted
    /\ mode = "Warn" /\ revalidating = "saves" => binarySchema \in accepted

LEMMA AcceptedNext ==
    ASSUME SchemaTypeOK, AcceptedInv, [SchemaNext]_schemaVars PROVE AcceptedInv'
<1>0. changes \in Seq(SchemaEdit)
  BY DEF SchemaTypeOK
<1>1. ASSUME NEW s \in Schema, NEW m \in Migration, Propose(s, m) PROVE AcceptedInv'
  BY <1>1 DEF Propose, OnlyAccepted, AcceptedInv
<1>2. ASSUME NEW b \in Schema, NEW m \in Migration, Deploy(b, m) PROVE AcceptedInv'
  <2>1. UNCHANGED mode /\ revalidating' = "none"
    BY <1>2 DEF Deploy
  <2>2. \/ /\ storedSchema' \in Saved(b) /\ accepted' = accepted \cup {b} /\ schemaNow' = b
        \/ /\ storedSchema = b /\ schemaNow' = b /\ UNCHANGED <<storedSchema, accepted>>
        \/ /\ schemaNow' = NoSchema /\ UNCHANGED <<storedSchema, accepted>>
    BY <1>2 DEF Deploy
  <2>3. storedSchema = b /\ mode = "Warn" => b \in accepted
    BY ClusterAssumption DEF OnlyAccepted, AcceptedInv
  <2> QED BY <2>1, <2>2, <2>3 DEF OnlyAccepted, Saved, AcceptedInv
<1>3. ASSUME NEW c \in DOMAIN changes, NEW n \in Voter, NEW approve \in BOOLEAN,
             VoteOn(c, n, approve)
      PROVE  AcceptedInv'
  <2> DEFINE v == Voted(c, n, approve)
  <2>1. \/ schemaNow' = v.spec /\ accepted' = accepted \cup {v.spec}
        \/ UNCHANGED <<schemaNow, accepted>>
    BY <1>3, VoteSchema
  <2>2. UNCHANGED <<mode, storedSchema, binarySchema, revalidating>>
    BY <1>3 DEF VoteOn
  <2> QED BY <2>1, <2>2 DEF OnlyAccepted, AcceptedInv
<1>4. ASSUME NEW c \in DOMAIN changes, NEW u \in Approver, Approve(c, u) PROVE AcceptedInv'
  <2> DEFINE a == Approved(c, u)
  <2>1. \/ /\ schemaNow' = a.spec /\ storedSchema' \in Saved(a.spec)
           /\ accepted' = accepted \cup {a.spec}
        \/ UNCHANGED <<schemaNow, storedSchema, accepted>>
    BY <1>0, <1>4, ApproveParts
  <2>2. UNCHANGED <<mode, binarySchema, revalidating>>
    BY <1>4 DEF Approve
  <2> QED BY <2>1, <2>2 DEF OnlyAccepted, Saved, AcceptedInv
<1>5. ASSUME NEW c \in DOMAIN changes, ProposeAgain(c) \/ RejectByAdmin(c) PROVE AcceptedInv'
  BY <1>5 DEF ProposeAgain, RejectByAdmin, OnlyAccepted, AcceptedInv
<1>6. ASSUME NEW l \in {"locked", "open", "expiring"}, SetLock(l) PROVE AcceptedInv'
  BY <1>6 DEF SetLock, OnlyAccepted, AcceptedInv
<1>7. CASE UnlockExpires \/ BeginRevalidate \/ UNCHANGED schemaVars
  BY <1>7 DEF UnlockExpires, BeginRevalidate, schemaVars, OnlyAccepted, AcceptedInv
<1>8. CASE ReadSpec \/ Revalidate
  <2>1. CASE ReadSpec
    <3>1. /\ revalidating' = "saves" /\ mode = "Warn" => binarySchema \in accepted'
          /\ accepted \subseteq accepted'
      BY <2>1 DEF ReadSpec
    <3> QED BY <2>1, <3>1 DEF ReadSpec, OnlyAccepted, AcceptedInv
  <2>2. CASE Revalidate
    BY <2>2 DEF Revalidate, Saved, OnlyAccepted, AcceptedInv
  <2> QED BY <1>8, <2>1, <2>2
<1> QED BY <1>1, <1>2, <1>3, <1>4, <1>5, <1>6, <1>7, <1>8 DEF SchemaNext

\* Outside of Auto mode, no schema is in force or stored that neither the policy
\* nor a vote nor a person accepted, and that the node did not take for the first
\* for want of a readable spec, whatever binaries are deployed.
THEOREM AcceptedOnly == SchemaSpec => []OnlyAccepted
<1>1. SchemaInit => AcceptedInv
  BY DEF SchemaInit, OnlyAccepted, AcceptedInv
<1>2. SchemaTypeOK /\ AcceptedInv /\ [SchemaNext]_schemaVars => AcceptedInv'
  BY AcceptedNext
<1>3. AcceptedInv => OnlyAccepted
  BY DEF AcceptedInv
<1> QED BY <1>1, <1>2, <1>3, SchemaTypeCorrect, PTL DEF SchemaSpec

----------------------------------------------------------------------------
(* RollingMigration: equal logs make equal managers. *)

(* The manager after a number of entries. *)

NewManager == [version |-> 0, active |-> {}, completed |-> <<>>]

\* m is what the entries after a make of a manager, one after the other, up to n.
OpsRun(m, base, ops, a, n) ==
    m = [i \in a..n |-> IF i = a THEN base ELSE ApplyMigration(m[i - 1], ops[i])]

\* The manager of a node that applied the first n entries, and no others.
ManagerAfter(ops, n) ==
    (CHOOSE s : OpsRun(s, NewManager, ops, 0, n))[n]

LEMMA OpsRunExists ==
    ASSUME NEW base, NEW ops, NEW a \in Nat, NEW n \in Nat, a <= n
    PROVE  \E m : OpsRun(m, base, ops, a, n)
<1> DEFINE S == {k \in Nat : \E m : OpsRun(m, base, ops, a, a + k)}
<1>1. 0 \in S
  <2> DEFINE m == [i \in a..(a + 0) |-> base]
  <2>1. m = [i \in a..(a + 0) |-> IF i = a THEN base ELSE ApplyMigration(m[i - 1], ops[i])]
    OBVIOUS
  <2> QED BY <2>1 DEF OpsRun
<1>2. ASSUME NEW k \in Nat, k \in S PROVE k + 1 \in S
  <2>1. PICK m : OpsRun(m, base, ops, a, a + k)
    BY <1>2
  <2> DEFINE b == a + (k + 1)
             z == [i \in a..b |-> IF i = b THEN ApplyMigration(m[a + k], ops[b]) ELSE m[i]]
  <2>2. \A i \in a..(a + k) : z[i] = m[i]
    OBVIOUS
  <2>3. ASSUME NEW i \in a..b
        PROVE  z[i] = IF i = a THEN base ELSE ApplyMigration(z[i - 1], ops[i])
    <3>1. CASE i = b
      <4>1. i # a /\ i - 1 = a + k /\ a + k \in a..(a + k)
        BY <3>1
      <4>2. z[i - 1] = m[a + k]
        BY <2>2, <4>1
      <4>3. z[i] = ApplyMigration(m[a + k], ops[b])
        BY <3>1
      <4> QED BY <3>1, <4>1, <4>2, <4>3
    <3>2. CASE i # b
      <4>1. i \in a..(a + k) /\ z[i] = m[i]
        BY <3>2, <2>2
      <4>2. m[i] = IF i = a THEN base ELSE ApplyMigration(m[i - 1], ops[i])
        BY <2>1, <4>1 DEF OpsRun
      <4>3. i # a => i - 1 \in a..(a + k)
        BY <4>1
      <4> QED BY <2>2, <4>1, <4>2, <4>3
    <3> QED BY <3>1, <3>2
  <2>4. z = [i \in a..b |-> IF i = a THEN base ELSE ApplyMigration(z[i - 1], ops[i])]
    BY <2>3
  <2>5. OpsRun(z, base, ops, a, a + (k + 1))
    BY <2>4 DEF OpsRun
  <2> QED BY <2>5
<1>3. Nat \subseteq S
  <2> HIDE DEF S
  <2> QED BY <1>1, <1>2, SetInduction
<1>4. n - a \in Nat /\ a + (n - a) = n
  OBVIOUS
<1> QED BY <1>3, <1>4

SameOps(ops, ops2, n) == \A i \in 1..n : ops[i] = ops2[i]

\* Runs over the same entries are the same.
LEMMA OpsRunUnique ==
    ASSUME NEW base, NEW ops, NEW ops2, NEW n \in Nat, NEW k \in Nat, n <= k,
           SameOps(ops, ops2, n),
           NEW m, NEW z, OpsRun(m, base, ops, 0, n), OpsRun(z, base, ops2, 0, k)
    PROVE  \A i \in 0..n : m[i] = z[i]
<1> DEFINE S == {i \in Nat : i \in 0..n => m[i] = z[i]}
<1>1. 0 \in S
  BY DEF OpsRun
<1>2. ASSUME NEW i \in Nat, i \in S PROVE i + 1 \in S
  <2>1. SUFFICES ASSUME i + 1 \in 0..n PROVE m[i + 1] = z[i + 1]
    OBVIOUS
  <2>2. i \in 0..n /\ i + 1 # 0 /\ (i + 1) - 1 = i /\ i + 1 \in 1..n /\ i + 1 \in 0..k
    BY <2>1
  <2>3. m[i] = z[i] /\ ops[i + 1] = ops2[i + 1]
    BY <1>2, <2>2 DEF SameOps
  <2>4. m[i + 1] = ApplyMigration(m[i], ops[i + 1])
    BY <2>1, <2>2 DEF OpsRun
  <2>5. z[i + 1] = ApplyMigration(z[i], ops2[i + 1])
    BY <2>1, <2>2 DEF OpsRun
  <2> QED BY <2>3, <2>4, <2>5
<1>3. Nat \subseteq S
  <2> HIDE DEF S
  <2> QED BY <1>1, <1>2, SetInduction
<1> QED BY <1>3

\* The manager after n entries depends on those only.
LEMMA AfterSame ==
    ASSUME NEW ops, NEW ops2, NEW n \in Nat, SameOps(ops, ops2, n)
    PROVE  ManagerAfter(ops, n) = ManagerAfter(ops2, n)
<1> DEFINE m == CHOOSE s : OpsRun(s, NewManager, ops, 0, n)
           z == CHOOSE s : OpsRun(s, NewManager, ops2, 0, n)
<1>1. n <= n /\ 0 <= n /\ n \in 0..n
  OBVIOUS
<1>2. OpsRun(m, NewManager, ops, 0, n) /\ OpsRun(z, NewManager, ops2, 0, n)
  BY <1>1, OpsRunExists
<1>3. ManagerAfter(ops, n) = m[n] /\ ManagerAfter(ops2, n) = z[n]
  BY DEF ManagerAfter
<1> HIDE DEF m, z
<1>4. \A i \in 0..n : m[i] = z[i]
  BY <1>1, <1>2, OpsRunUnique
<1> QED BY <1>1, <1>3, <1>4

\* It is applied to one entry after the other.
LEMMA AfterSteps ==
    ASSUME NEW ops, NEW n \in Nat
    PROVE  /\ ManagerAfter(ops, 0) = NewManager
           /\ ManagerAfter(ops, n + 1) = ApplyMigration(ManagerAfter(ops, n), ops[n + 1])
<1>1. n <= n + 1 /\ n \in 0..n /\ n + 1 \in Nat /\ n + 1 \in 0..(n + 1) /\ (n + 1) - 1 = n
      /\ 0 <= n /\ 0 <= n + 1 /\ 0 <= 0 /\ 0 \in 0..0
  OBVIOUS
<1> DEFINE y == CHOOSE s : OpsRun(s, NewManager, ops, 0, 0)
           m == CHOOSE s : OpsRun(s, NewManager, ops, 0, n)
           z == CHOOSE s : OpsRun(s, NewManager, ops, 0, n + 1)
<1>2. /\ OpsRun(y, NewManager, ops, 0, 0) /\ OpsRun(m, NewManager, ops, 0, n)
      /\ OpsRun(z, NewManager, ops, 0, n + 1)
  BY <1>1, OpsRunExists
<1>3. /\ ManagerAfter(ops, 0) = y[0] /\ ManagerAfter(ops, n) = m[n]
      /\ ManagerAfter(ops, n + 1) = z[n + 1]
  BY DEF ManagerAfter
<1> HIDE DEF y, m, z
<1>4. SameOps(ops, ops, n)
  BY DEF SameOps
<1>5. m[n] = z[n]
  <2>1. \A i \in 0..n : m[i] = z[i]
    BY <1>1, <1>2, <1>4, OpsRunUnique
  <2> QED BY <1>1, <2>1
<1>6. z[n + 1] = ApplyMigration(z[n], ops[n + 1]) /\ y[0] = NewManager
  BY <1>1, <1>2 DEF OpsRun
<1> QED BY <1>3, <1>5, <1>6

\* A run that goes on where the first a entries ended gets where the first n end.
LEMMA RunGoesOn ==
    ASSUME NEW ops, NEW a \in Nat, NEW n \in Nat, a <= n, NEW m,
           OpsRun(m, ManagerAfter(ops, a), ops, a, n)
    PROVE  m[n] = ManagerAfter(ops, n)
<1> DEFINE S == {i \in Nat : i \in a..n => m[i] = ManagerAfter(ops, i)}
<1>1. 0 \in S
  BY DEF OpsRun
<1>2. ASSUME NEW i \in Nat, i \in S PROVE i + 1 \in S
  <2>1. SUFFICES ASSUME i + 1 \in a..n PROVE m[i + 1] = ManagerAfter(ops, i + 1)
    OBVIOUS
  <2>2. CASE i + 1 = a
    BY <2>1, <2>2 DEF OpsRun
  <2>3. CASE i + 1 # a
    <3>1. i \in a..n /\ (i + 1) - 1 = i
      BY <2>1, <2>3
    <3>2. m[i + 1] = ApplyMigration(m[i], ops[i + 1])
      BY <2>1, <2>3, <3>1 DEF OpsRun
    <3> QED BY <1>2, <3>1, <3>2, AfterSteps
  <2> QED BY <2>2, <2>3
<1>3. Nat \subseteq S
  <2> HIDE DEF S
  <2> QED BY <1>1, <1>2, SetInduction
<1>4. n \in a..n
  OBVIOUS
<1> QED BY <1>3, <1>4

LEMMA BeginType ==
    ASSUME NEW m \in Manager, NEW op \in MigrationOp, op.kind = "begin"
    PROVE  BeginMigration(m, op) \in Manager
<1> USE MigrationAssumption
<1>1. op.id \in MigrationId /\ op.from \in 0..(MaxVersion - 1)
  BY DEF MigrationOp
<1>2. op.from + 1 \in Version
  BY <1>1 DEF Version
<1>3. [id |-> op.id, to |-> op.from + 1, steps |-> 0] \in Context
  BY <1>1, <1>2 DEF Context
<1>4. {[id |-> op.id, to |-> op.from + 1, steps |-> 0]} \in SUBSET Context
  BY <1>3
<1> QED BY <1>4 DEF BeginMigration, Manager

LEMMA StepType ==
    ASSUME NEW m \in Manager, NEW op \in MigrationOp
    PROVE  RecordStep(m, op) \in Manager
<1> DEFINE stepped == {IF c.id = op.id THEN [c EXCEPT !.steps = @ + 1] ELSE c : c \in m.active}
<1>1. m.active \in SUBSET Context
  BY DEF Manager
<1>2. \A c \in Context : [c EXCEPT !.steps = @ + 1] \in Context
  BY DEF Context
<1>3. stepped \in SUBSET Context
  BY <1>1, <1>2
<1>4. RecordStep(m, op) = [m EXCEPT !.active = stepped]
  BY DEF RecordStep
<1> HIDE DEF stepped
<1> QED BY <1>3, <1>4 DEF Manager

LEMMA EndType ==
    ASSUME NEW m \in Manager, NEW op \in MigrationOp, op.kind \in {"commit", "rollback"}
    PROVE  EndMigration(m, op) \in Manager
<1> DEFINE mine == {c \in m.active : c.id = op.id}
           ended(status) == [m EXCEPT !.active = @ \ mine,
                                      !.completed = Append(@, [id |-> op.id, status |-> status])]
<1>1. /\ m.active \in SUBSET Context /\ mine \subseteq Context /\ m.version \in Version
      /\ m.completed \in Seq(Ended) /\ op.id \in MigrationId
  BY DEF Manager, MigrationOp
<1>2. ASSUME NEW status \in {"Committed", "RolledBack"}
      PROVE  ended(status) \in Manager
  <2>1. [id |-> op.id, status |-> status] \in Ended
    BY <1>1 DEF Ended
  <2>2. Append(m.completed, [id |-> op.id, status |-> status]) \in Seq(Ended)
    BY <1>1, <2>1
  <2>3. m.active \ mine \in SUBSET Context
    BY <1>1
  <2> HIDE DEF mine
  <2> QED BY <2>2, <2>3 DEF Manager
<1>3. CASE mine = {}
  BY <1>3 DEF EndMigration
<1>4. CASE mine # {} /\ op.kind = "commit"
  <2> DEFINE v == (CHOOSE c \in mine : TRUE).to
  <2>1. (CHOOSE c \in mine : TRUE) \in Context
    BY <1>1, <1>4
  <2>2. v \in Version
    BY <2>1 DEF Context
  <2>3. EndMigration(m, op) = [ended("Committed") EXCEPT !.version = v]
    BY <1>4 DEF EndMigration
  <2>4. ended("Committed") \in Manager
    BY <1>2
  <2> HIDE DEF v, ended
  <2> QED BY <2>2, <2>3, <2>4 DEF Manager
<1>5. CASE mine # {} /\ op.kind = "rollback"
  <2>1. EndMigration(m, op) = ended("RolledBack")
    BY <1>5 DEF EndMigration
  <2> QED BY <1>2, <2>1
<1> QED BY <1>3, <1>4, <1>5

\* An operation of the log leaves a manager a manager.
LEMMA ApplyType ==
    ASSUME NEW m \in Manager, NEW op \in MigrationOp
    PROVE  ApplyMigration(m, op) \in Manager
<1>1. op.kind \in {"begin", "step", "commit", "rollback"}
  BY DEF MigrationOp
<1>2. CASE op.kind = "begin"
  BY <1>2, BeginType DEF ApplyMigration
<1>3. CASE op.kind = "step"
  BY <1>3, StepType DEF ApplyMigration
<1>4. CASE op.kind \in {"commit", "rollback"}
  <2>1. ApplyMigration(m, op) = EndMigration(m, op)
    BY <1>4 DEF ApplyMigration
  <2> QED BY <1>4, <2>1, EndType
<1> QED BY <1>1, <1>2, <1>3, <1>4

\* A run that begins with a manager goes through managers.
LEMMA RunType ==
    ASSUME NEW ops \in Seq(MigrationOp), NEW base \in Manager, NEW a \in Nat, NEW n \in Nat,
           a <= n, n <= Len(ops), NEW m, OpsRun(m, base, ops, a, n)
    PROVE  m[n] \in Manager
<1> DEFINE S == {i \in Nat : i \in a..n => m[i] \in Manager}
<1>1. 0 \in S
  BY DEF OpsRun
<1>2. ASSUME NEW i \in Nat, i \in S PROVE i + 1 \in S
  <2>1. SUFFICES ASSUME i + 1 \in a..n PROVE m[i + 1] \in Manager
    OBVIOUS
  <2>2. CASE i + 1 = a
    BY <2>1, <2>2 DEF OpsRun
  <2>3. CASE i + 1 # a
    <3>1. i \in a..n /\ (i + 1) - 1 = i /\ ops[i + 1] \in MigrationOp
      BY <2>1, <2>3
    <3>2. m[i + 1] = ApplyMigration(m[i], ops[i + 1])
      BY <2>1, <2>3, <3>1 DEF OpsRun
    <3> QED BY <1>2, <3>1, <3>2, ApplyType
  <2> QED BY <2>2, <2>3
<1>3. Nat \subseteq S
  <2> HIDE DEF S
  <2> QED BY <1>1, <1>2, SetInduction
<1>4. n \in a..n
  OBVIOUS
<1> QED BY <1>3, <1>4

LEMMA AfterType ==
    ASSUME NEW ops \in Seq(MigrationOp)
    PROVE  \A n \in 0..Len(ops) : ManagerAfter(ops, n) \in Manager
<1> DEFINE S == {n \in Nat : n <= Len(ops) => ManagerAfter(ops, n) \in Manager}
<1>1. 0 \in S
  <2>1. <<>> \in Seq(Ended) /\ 0 \in Version /\ {} \in SUBSET Context
    BY MigrationAssumption DEF Version
  <2>2. NewManager \in Manager
    BY <2>1 DEF NewManager, Manager
  <2> QED BY <2>2, AfterSteps
<1>2. ASSUME NEW n \in Nat, n \in S PROVE n + 1 \in S
  <2>1. SUFFICES ASSUME n + 1 <= Len(ops) PROVE ManagerAfter(ops, n + 1) \in Manager
    OBVIOUS
  <2>2. ManagerAfter(ops, n) \in Manager /\ ops[n + 1] \in MigrationOp
    BY <1>2, <2>1
  <2> QED BY <2>2, AfterSteps, ApplyType
<1>3. Nat \subseteq S
  <2> HIDE DEF S
  <2> QED BY <1>1, <1>2, SetInduction
<1>4. Len(ops) \in Nat
  OBVIOUS
<1> QED BY <1>3, <1>4

----------------------------------------------------------------------------
(* The invariant. *)

\* A request carries a commit index the leader has reached.
OnTheWayIsCommitted == \A r \in onTheWay : r.commit <= leaderCommit

\* The leader applies what is in the log.
LeaderAppliesTheLog == \A k \in 1..Len(leaderApplied) : leaderApplied[k] <= Len(migrationLog)

\* Until a snapshot skips some, the follower applied the first entries and those
\* alone, each of them once.
FollowerIsAPrefix ==
    ~skipped => manager["follower"] = ManagerAfter(migrationLog, followerApplied)

\* So did the leader, while its handlers kept to the order of the log.
InOrder == \A k \in 1..Len(leaderApplied) : leaderApplied[k] = k
LeaderIsAPrefix ==
    InOrder => manager["leader"] = ManagerAfter(migrationLog, Len(leaderApplied))

MigrationInv ==
    /\ MigrationTypeOK
    /\ OnTheWayIsCommitted
    /\ LeaderAppliesTheLog
    /\ FollowerIsAPrefix
    /\ LeaderIsAPrefix

LEMMA MigrationInitially ==
    ASSUME MigrationInit
    PROVE  MigrationInv
<1> USE DEF MigrationInit
<1>1. NewManager \in Manager
  <2>1. ManagerAfter(<<>>, 0) \in Manager
    <3>1. <<>> \in Seq(MigrationOp) /\ 0 \in 0..Len(<<>>)
      OBVIOUS
    <3> QED BY <3>1, AfterType
  <2> QED BY <2>1, AfterSteps
<1>2. manager = [n \in Member |-> NewManager]
  BY DEF NewManager
<1>3. MigrationTypeOK
  <2>1. migrationLog \in Seq(MigrationOp) /\ leaderApplied \in Seq(LogIndex)
    OBVIOUS
  <2>2. Len(migrationLog) = 0
    OBVIOUS
  <2>3. manager \in [Member -> Manager]
    BY <1>1, <1>2
  <2>4. /\ migrating = {} /\ onTheWay = {} /\ followerHas = {} /\ skipped \in BOOLEAN
        /\ leaderCommit = 0 /\ followerCommit = 0 /\ followerApplied = 0
    OBVIOUS
  <2> HIDE DEF MigrationInit
  <2> QED BY <2>1, <2>2, <2>3, <2>4, MigrationAssumption DEF MigrationTypeOK
<1>4. OnTheWayIsCommitted /\ LeaderAppliesTheLog
  BY DEF OnTheWayIsCommitted, LeaderAppliesTheLog
<1>5. FollowerIsAPrefix /\ LeaderIsAPrefix
  BY <1>2, AfterSteps DEF FollowerIsAPrefix, LeaderIsAPrefix, Member
<1> QED BY <1>3, <1>4, <1>5 DEF MigrationInv

LEMMA SubmitKeeps ==
    ASSUME MigrationInv, NEW op \in MigrationOp, SubmitMigration(op)
    PROVE  MigrationInv'
<1> DEFINE i == Len(migrationLog) + 1
<1>1. /\ migrationLog \in Seq(MigrationOp) /\ i \in Nat /\ i <= MaxMigrationOps
      /\ migrationLog' = Append(migrationLog, op)
      /\ leaderCommit \in 0..Len(migrationLog) /\ followerCommit \in 0..leaderCommit
      /\ followerApplied \in 0..leaderCommit
  BY DEF MigrationInv, MigrationTypeOK, SubmitMigration
<1>2. /\ migrationLog' \in Seq(MigrationOp) /\ Len(migrationLog') = i
      /\ \A k \in 1..Len(migrationLog) : migrationLog'[k] = migrationLog[k]
  BY <1>1
<1>3. MigrationTypeOK'
  <2>1. migrating' \in SUBSET [idx : 1..i, stage : {"sent", "committed"}]
    <3>1. [idx |-> i, stage |-> "sent"] \in [idx : 1..i, stage : {"sent", "committed"}]
      BY <1>1
    <3>2. [idx : 1..Len(migrationLog), stage : {"sent", "committed"}]
            \subseteq [idx : 1..i, stage : {"sent", "committed"}]
      BY <1>1
    <3>3. migrating' = migrating \cup {[idx |-> i, stage |-> "sent"]}
      BY DEF SubmitMigration
    <3> QED BY <3>1, <3>2, <3>3 DEF MigrationInv, MigrationTypeOK
  <2>2. onTheWay' \in SUBSET [idx : 1..i, commit : 0..i]
    <3>1. [idx |-> i, commit |-> leaderCommit] \in [idx : 1..i, commit : 0..i]
      BY <1>1
    <3>2. [idx : 1..Len(migrationLog), commit : 0..Len(migrationLog)]
            \subseteq [idx : 1..i, commit : 0..i]
      BY <1>1
    <3>3. onTheWay' = onTheWay \cup {[idx |-> i, commit |-> leaderCommit]}
      BY DEF SubmitMigration
    <3> QED BY <3>1, <3>2, <3>3 DEF MigrationInv, MigrationTypeOK
  <2>3. followerHas' \in SUBSET (1..i) /\ leaderCommit' \in 0..i
    BY <1>1 DEF MigrationInv, MigrationTypeOK, SubmitMigration
  <2> QED BY <1>1, <1>2, <2>1, <2>2, <2>3 DEF MigrationInv, MigrationTypeOK, SubmitMigration
<1>4. OnTheWayIsCommitted'
  BY <1>1 DEF MigrationInv, OnTheWayIsCommitted, SubmitMigration
<1>5. LeaderAppliesTheLog'
  <2>1. leaderApplied' = leaderApplied /\ leaderApplied \in Seq(LogIndex)
    BY DEF MigrationInv, MigrationTypeOK, SubmitMigration
  <2>2. SUFFICES ASSUME NEW k \in 1..Len(leaderApplied)
                 PROVE  leaderApplied[k] <= Len(migrationLog')
    BY <2>1 DEF LeaderAppliesTheLog
  <2>3. leaderApplied[k] \in LogIndex /\ leaderApplied[k] <= Len(migrationLog)
    BY <2>1 DEF MigrationInv, LeaderAppliesTheLog
  <2> QED BY <1>1, <1>2, <2>3 DEF LogIndex
<1>6. ASSUME NEW n \in 0..Len(migrationLog)
      PROVE  ManagerAfter(migrationLog', n) = ManagerAfter(migrationLog, n)
  <2>1. n \in Nat /\ SameOps(migrationLog', migrationLog, n)
    BY <1>1, <1>2 DEF SameOps
  <2> QED BY <2>1, AfterSame
<1>7. FollowerIsAPrefix'
  BY <1>1, <1>6 DEF MigrationInv, FollowerIsAPrefix, SubmitMigration
<1>8. LeaderIsAPrefix'
  <2>1. leaderApplied' = leaderApplied /\ manager' = manager
    BY DEF SubmitMigration
  <2>2. SUFFICES ASSUME InOrder
                 PROVE  manager["leader"] = ManagerAfter(migrationLog', Len(leaderApplied))
    BY <2>1 DEF LeaderIsAPrefix, InOrder
  <2>3. Len(leaderApplied) \in 0..Len(migrationLog)
    BY <2>2, <1>1 DEF MigrationInv, MigrationTypeOK, LeaderAppliesTheLog, InOrder
  <2> QED BY <2>2, <2>3, <1>6 DEF MigrationInv, LeaderIsAPrefix
<1> QED BY <1>3, <1>4, <1>5, <1>7, <1>8 DEF MigrationInv

LEMMA CommitKeeps ==
    ASSUME MigrationInv, NEW h \in migrating, MigrationCommits(h) \/ MigrationFails(h)
    PROVE  MigrationInv'
<1>1. /\ h.idx \in 1..Len(migrationLog) /\ leaderCommit \in 0..Len(migrationLog)
      /\ followerCommit \in 0..leaderCommit
      /\ migrating \in SUBSET [idx : 1..Len(migrationLog), stage : {"sent", "committed"}]
      /\ onTheWay \in SUBSET [idx : 1..Len(migrationLog), commit : 0..Len(migrationLog)]
      /\ Len(migrationLog) \in Nat
  BY DEF MigrationInv, MigrationTypeOK
<1>2. /\ migrating' \in SUBSET [idx : 1..Len(migrationLog), stage : {"sent", "committed"}]
      /\ leaderCommit' \in 0..Len(migrationLog) /\ leaderCommit <= leaderCommit'
  <2>1. CASE MigrationCommits(h)
    <3>1. [h EXCEPT !.stage = "committed"] \in [idx : 1..Len(migrationLog),
                                               stage : {"sent", "committed"}]
      BY <1>1
    <3>2. leaderCommit' \in 0..Len(migrationLog) /\ leaderCommit <= leaderCommit'
      BY <1>1, <2>1 DEF MigrationCommits, Highest
    <3> QED BY <1>1, <2>1, <3>1, <3>2 DEF MigrationCommits
  <2>2. CASE MigrationFails(h)
    BY <1>1, <2>2 DEF MigrationFails
  <2> QED BY <2>1, <2>2
<1>3. UNCHANGED <<migrationLog, onTheWay, followerHas, followerCommit, followerApplied, manager,
                  leaderApplied, skipped>>
  BY DEF MigrationCommits, MigrationFails
<1>4. MigrationTypeOK'
  BY <1>1, <1>2, <1>3 DEF MigrationInv, MigrationTypeOK
<1>5. OnTheWayIsCommitted'
  <2>1. \A r \in onTheWay : r.commit \in 0..Len(migrationLog)
    BY <1>1
  <2> QED BY <1>1, <1>2, <1>3, <2>1 DEF MigrationInv, OnTheWayIsCommitted
<1>6. LeaderAppliesTheLog' /\ FollowerIsAPrefix' /\ LeaderIsAPrefix'
  BY <1>3 DEF MigrationInv, LeaderAppliesTheLog, FollowerIsAPrefix, LeaderIsAPrefix, InOrder
<1> QED BY <1>4, <1>5, <1>6 DEF MigrationInv

LEMMA LeaderAppliesKeeps ==
    ASSUME MigrationInv, NEW h \in migrating, LeaderAppliesMigration(h)
    PROVE  MigrationInv'
<1> USE DEF LeaderAppliesMigration
<1>1. /\ migrationLog \in Seq(MigrationOp) /\ Len(migrationLog) <= MaxMigrationOps
      /\ h.idx \in 1..Len(migrationLog) /\ leaderApplied \in Seq(LogIndex)
      /\ manager \in [Member -> Manager] /\ Len(migrationLog) \in Nat
  BY DEF MigrationInv, MigrationTypeOK
<1>2. h.idx \in LogIndex
  BY <1>1, MigrationAssumption DEF LogIndex
<1>3. ApplyMigration(manager["leader"], migrationLog[h.idx]) \in Manager
  BY <1>1, ApplyType DEF Member
<1>4. /\ leaderApplied' \in Seq(LogIndex) /\ Len(leaderApplied') = Len(leaderApplied) + 1
      /\ leaderApplied'[Len(leaderApplied) + 1] = h.idx
      /\ \A k \in 1..Len(leaderApplied) : leaderApplied'[k] = leaderApplied[k]
      /\ Len(leaderApplied) \in Nat
  BY <1>1, <1>2
<1>5. /\ manager' \in [Member -> Manager]
      /\ manager'["leader"] = ApplyMigration(manager["leader"], migrationLog[h.idx])
      /\ manager'["follower"] = manager["follower"]
  BY <1>1, <1>3 DEF Member
<1>6. MigrationTypeOK'
  BY <1>4, <1>5 DEF MigrationInv, MigrationTypeOK
<1>7. OnTheWayIsCommitted' /\ FollowerIsAPrefix'
  BY <1>5 DEF MigrationInv, OnTheWayIsCommitted, FollowerIsAPrefix
<1>8. LeaderAppliesTheLog'
  <2>1. ASSUME NEW k \in 1..Len(leaderApplied')
        PROVE  leaderApplied'[k] <= Len(migrationLog)
    <3>1. k \in 1..Len(leaderApplied) \/ k = Len(leaderApplied) + 1
      BY <1>4
    <3> QED BY <1>1, <1>4, <3>1 DEF MigrationInv, LeaderAppliesTheLog
  <2> QED BY <2>1 DEF LeaderAppliesTheLog
<1>9. LeaderIsAPrefix'
  <2>1. SUFFICES ASSUME InOrder'
                 PROVE  manager'["leader"] = ManagerAfter(migrationLog, Len(leaderApplied) + 1)
    BY <1>4 DEF LeaderIsAPrefix
  <2>2. InOrder /\ h.idx = Len(leaderApplied) + 1
    BY <1>4, <2>1 DEF InOrder
  <2>3. manager["leader"] = ManagerAfter(migrationLog, Len(leaderApplied))
    BY <2>2 DEF MigrationInv, LeaderIsAPrefix
  <2> QED BY <1>4, <1>5, <2>2, <2>3, AfterSteps
<1> QED BY <1>6, <1>7, <1>8, <1>9 DEF MigrationInv

\* What the follower takes it applies in log order, from where it stopped.
LEMMA FollowerTakesKeeps ==
    ASSUME MigrationInv,
           NEW hasOf \in SUBSET (1..Len(migrationLog)), followerHas \subseteq hasOf,
           NEW c \in followerCommit..leaderCommit,
           FollowerTakes(hasOf, c), onTheWay' \subseteq onTheWay,
           UNCHANGED <<migrationLog, migrating, leaderCommit, leaderApplied, skipped>>
    PROVE  MigrationInv'
<1>1. /\ migrationLog \in Seq(MigrationOp) /\ Len(migrationLog) \in Nat
      /\ leaderCommit \in 0..Len(migrationLog) /\ followerCommit \in 0..leaderCommit
      /\ followerApplied \in 0..leaderCommit /\ manager \in [Member -> Manager]
      /\ c \in 0..leaderCommit
  BY DEF MigrationInv, MigrationTypeOK
<1>2. PICK end \in followerApplied..MaxMigrationOps :
        FollowerRuns(hasOf, c, end) /\ followerApplied' = end
  BY DEF FollowerTakes
<1>3. /\ end \in Nat /\ followerApplied \in Nat /\ followerApplied <= end
      /\ end <= leaderCommit /\ end <= Len(migrationLog)
  <2>1. end \in Nat /\ followerApplied \in Nat /\ followerApplied <= end
    BY <1>1, <1>2, MigrationAssumption
  <2>2. end \in (followerApplied + 1)..end => end <= c
    BY <1>2 DEF FollowerRuns
  <2>3. end <= leaderCommit
    BY <1>1, <2>1, <2>2
  <2> QED BY <1>1, <2>1, <2>3
<1> DEFINE m == CHOOSE s : s = [i \in followerApplied..end |->
                                  IF i = followerApplied THEN manager["follower"]
                                  ELSE ApplyMigration(s[i - 1], migrationLog[i])]
<1>4. manager' = [manager EXCEPT !["follower"] = m[end]]
  BY <1>2 DEF FollowerRuns
<1>5. OpsRun(m, manager["follower"], migrationLog, followerApplied, end)
  <2>1. \E z : OpsRun(z, manager["follower"], migrationLog, followerApplied, end)
    BY <1>3, OpsRunExists
  <2> QED BY <2>1 DEF OpsRun
<1> HIDE DEF m
<1>6. m[end] \in Manager
  <2>1. manager["follower"] \in Manager
    BY <1>1 DEF Member
  <2> QED BY <1>1, <1>3, <1>5, <2>1, RunType
<1>7. ~skipped => m[end] = ManagerAfter(migrationLog, end)
  <2>1. SUFFICES ASSUME ~skipped PROVE m[end] = ManagerAfter(migrationLog, end)
    OBVIOUS
  <2>2. manager["follower"] = ManagerAfter(migrationLog, followerApplied)
    BY <2>1 DEF MigrationInv, FollowerIsAPrefix
  <2>3. OpsRun(m, ManagerAfter(migrationLog, followerApplied), migrationLog, followerApplied, end)
    BY <1>5, <2>2
  <2> QED BY <1>3, <2>3, RunGoesOn
<1>8. /\ manager' \in [Member -> Manager] /\ manager'["leader"] = manager["leader"]
      /\ manager'["follower"] = m[end]
  BY <1>1, <1>4, <1>6 DEF Member
<1>9. followerHas' = hasOf /\ followerCommit' = c
  BY DEF FollowerTakes
<1>10. MigrationTypeOK'
  BY <1>1, <1>2, <1>3, <1>8, <1>9 DEF MigrationInv, MigrationTypeOK
<1>11. OnTheWayIsCommitted' /\ LeaderAppliesTheLog' /\ LeaderIsAPrefix'
  BY <1>8 DEF MigrationInv, OnTheWayIsCommitted, LeaderAppliesTheLog, LeaderIsAPrefix, InOrder
<1>12. FollowerIsAPrefix'
  BY <1>2, <1>7, <1>8 DEF FollowerIsAPrefix
<1> QED BY <1>10, <1>11, <1>12 DEF MigrationInv

\* A snapshot leaves the manager alone; nothing is claimed of it afterwards.
LEMMA InstallKeeps ==
    ASSUME MigrationInv, NEW label \in 1..leaderCommit, FollowerInstalls(label)
    PROVE  MigrationInv'
<1> USE DEF FollowerInstalls
<1>1. followerApplied' \in 0..leaderCommit
  BY DEF MigrationInv, MigrationTypeOK
<1>2. MigrationTypeOK'
  BY <1>1 DEF MigrationInv, MigrationTypeOK
<1>3. OnTheWayIsCommitted' /\ LeaderAppliesTheLog' /\ LeaderIsAPrefix' /\ FollowerIsAPrefix'
  BY DEF MigrationInv, OnTheWayIsCommitted, LeaderAppliesTheLog, LeaderIsAPrefix, InOrder,
         FollowerIsAPrefix
<1> QED BY <1>2, <1>3 DEF MigrationInv

LEMMA MigrationStep ==
    ASSUME MigrationInv, [MigrationNext]_migrationVars
    PROVE  MigrationInv'
<1>1. ASSUME NEW op \in MigrationOp, SubmitMigration(op) PROVE MigrationInv'
  BY <1>1, SubmitKeeps
<1>2. ASSUME NEW h \in migrating, MigrationCommits(h) \/ MigrationFails(h) PROVE MigrationInv'
  BY <1>2, CommitKeeps
<1>3. ASSUME NEW h \in migrating, LeaderAppliesMigration(h) PROVE MigrationInv'
  BY <1>3, LeaderAppliesKeeps
<1>4. ASSUME NEW r \in onTheWay, FollowerAppends(r) PROVE MigrationInv'
  <2>1. /\ r.idx \in 1..Len(migrationLog) /\ r.commit \in 0..leaderCommit
        /\ followerCommit \in 0..leaderCommit /\ leaderCommit \in Nat
        /\ followerHas \in SUBSET (1..Len(migrationLog))
    BY DEF MigrationInv, MigrationTypeOK, OnTheWayIsCommitted
  <2>2. Highest(followerCommit, r.commit) \in followerCommit..leaderCommit
    BY <2>1 DEF Highest
  <2>3. followerHas \cup {r.idx} \in SUBSET (1..Len(migrationLog))
    BY <2>1
  <2>4. /\ FollowerTakes(followerHas \cup {r.idx}, Highest(followerCommit, r.commit))
        /\ onTheWay' \subseteq onTheWay
        /\ UNCHANGED <<migrationLog, migrating, leaderCommit, leaderApplied, skipped>>
    BY <1>4 DEF FollowerAppends
  <2> QED BY <2>2, <2>3, <2>4, FollowerTakesKeeps
<1>5. CASE FollowerCatchesUp
  <2>1. /\ followerCommit \in 0..leaderCommit /\ leaderCommit \in Nat
        /\ followerHas \in SUBSET (1..Len(migrationLog))
    BY DEF MigrationInv, MigrationTypeOK
  <2>2. Highest(followerCommit, leaderCommit) \in followerCommit..leaderCommit
    BY <2>1 DEF Highest
  <2>3. 1..Len(migrationLog) \in SUBSET (1..Len(migrationLog))
    OBVIOUS
  <2>4. /\ FollowerTakes(1..Len(migrationLog), Highest(followerCommit, leaderCommit))
        /\ onTheWay' \subseteq onTheWay
        /\ UNCHANGED <<migrationLog, migrating, leaderCommit, leaderApplied, skipped>>
    BY <1>5 DEF FollowerCatchesUp
  <2> QED BY <2>1, <2>2, <2>3, <2>4, FollowerTakesKeeps
<1>6. ASSUME NEW label \in 1..leaderCommit, FollowerInstalls(label) PROVE MigrationInv'
  BY <1>6, InstallKeeps
<1>7. CASE UNCHANGED migrationVars
  BY <1>7 DEF migrationVars, MigrationInv, MigrationTypeOK, OnTheWayIsCommitted,
     LeaderAppliesTheLog, FollowerIsAPrefix, LeaderIsAPrefix, InOrder
<1> QED BY <1>1, <1>2, <1>3, <1>4, <1>5, <1>6, <1>7 DEF MigrationNext

----------------------------------------------------------------------------
(* Theorems. *)

\* Every reachable state of the migrations satisfies the invariant: until a
\* snapshot skips some, the follower's manager is where the first followerApplied
\* operations of the log take a new one, and the leader's is where the operations
\* it applied take one as long as its handlers kept to the order of the log.
THEOREM MigrationInvariance == MigrationSpec => []MigrationInv
<1>1. MigrationInit => MigrationInv
  BY MigrationInitially
<1>2. MigrationInv /\ [MigrationNext]_migrationVars => MigrationInv'
  BY MigrationStep
<1> QED BY <1>1, <1>2, PTL DEF MigrationSpec

\* The migrations are type correct: the follower's commit and applied indexes stay
\* behind the leader's commit index, whatever requests get lost or late,
\* and begin_migration, record_step, commit_migration and rollback_migration keep
\* versions and outcomes in range.
THEOREM MigrationTypeCorrect == MigrationSpec => []MigrationTypeOK
<1>1. MigrationInv => MigrationTypeOK
  BY DEF MigrationInv
<1> QED BY <1>1, MigrationInvariance, PTL

\* Two nodes that applied the same entries of the log, however the entries
\* reached the second one, agree on the version, on the active migration and on
\* every outcome (apply_crud_operation on the leader and on a follower, which
\* stops for good before an operation that is refused).
THEOREM SameEntriesSameManager == MigrationSpec => []MigrationsAgree
<1>1. ASSUME MigrationInv PROVE MigrationsAgree
  <2>1. SUFFICES ASSUME ~skipped, leaderApplied = [i \in 1..Len(leaderApplied) |-> i],
                        followerApplied = Len(leaderApplied)
                 PROVE  manager["follower"] = manager["leader"]
    BY DEF MigrationsAgree
  <2>2. InOrder
    BY <2>1 DEF InOrder
  <2> QED BY <1>1, <2>1, <2>2 DEF MigrationInv, FollowerIsAPrefix, LeaderIsAPrefix
<1> QED BY <1>1, MigrationInvariance, PTL
=============================================================================
