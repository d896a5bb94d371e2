------------------------ MODULE ReplicatedLogProofs ------------------------
(***************************************************************************)
(* Proofs that the properties of ReplicatedLog hold for every cluster, set *)
(* of requests, choice of faults and bound on the log.                     *)
(***************************************************************************)
EXTENDS ReplicatedLog, FiniteSetTheorems, SequenceTheorems, TLAPS

----------------------------------------------------------------------------
(* The operations that a run of slots holds. *)

\* What a handler appends to a node's history: the heads of the slots from
\* a + 1 to k, as a sequence of requests.
LEMMA HeadsAreSeq ==
    ASSUME NEW entries \in Log, NEW a \in 0..MaxIndex, NEW k \in a..MaxIndex,
           \A i \in (a + 1)..k : Present(entries, i)
    PROVE  /\ [i \in 1..(k - a) |-> Head(entries[a + i])] \in Seq(Req)
           /\ Len([i \in 1..(k - a) |-> Head(entries[a + i])]) = k - a
<1> DEFINE s == [i \in 1..(k - a) |-> Head(entries[a + i])]
<1>1. k - a \in Nat
  BY BoundAssumption
<1>2. ASSUME NEW i \in 1..(k - a)
      PROVE  Head(entries[a + i]) \in Req
  <2>1. a + i \in (a + 1)..k /\ a + i \in Idx
    BY BoundAssumption DEF Idx
  <2>2. entries[a + i] \in Seq(Req) /\ entries[a + i] # <<>>
    BY <2>1 DEF Log, Present
  <2> QED
    BY <2>2, HeadTailProperties
<1>3. s \in Seq(Req)
  BY <1>1, <1>2, IsASeq
<1>4. Len(s) = k - a
  BY <1>1, <1>3, LenProperties
<1> QED
  BY <1>3, <1>4

\* A slot with one entry is not an empty slot.
LEMMA OneIsNotEmpty == \A x : <<x>> # <<>>
  OBVIOUS

----------------------------------------------------------------------------
(* Type correctness. *)

\* The initial state has the types.
LEMMA TypeInit == Init => TypeOK
<1> SUFFICES ASSUME Init PROVE TypeOK
  OBVIOUS
<1>1. NoEntries \in Log
  BY DEF NoEntries, Log
<1> QED
  BY <1>1, NodeAssumption, BoundAssumption DEF Init, TypeOK, PC

\* Applying the slots up to k, all of them filled, keeps the types.
LEMMA TypeApplyLoop ==
    ASSUME TypeOK, NEW n \in Node, NEW end \in appliedIndex[n]..MaxIndex,
           NEW k \in appliedIndex[n]..MaxIndex, k <= end,
           UnappliedUpTo(log[n], appliedIndex[n], commitIndex[n], end), ApplyLoop(n, k)
    PROVE  hist' \in [Node -> Seq(Req)] /\ appliedIndex' \in [Node -> 0..MaxIndex]
<1> DEFINE a == appliedIndex[n]
           s == [i \in 1..(k - a) |-> Head(log[n][a + i])]
<1>1. log[n] \in Log /\ a \in 0..MaxIndex /\ hist[n] \in Seq(Req)
  BY DEF TypeOK
<1>2. a \in Nat /\ k \in Nat /\ end \in Nat /\ k \in 0..MaxIndex
  BY <1>1, BoundAssumption
<1>3. \A i \in (a + 1)..k : Present(log[n], i)
  BY <1>2 DEF UnappliedUpTo
<1>4. s \in Seq(Req)
  BY <1>1, <1>3, HeadsAreSeq
<1>5. hist[n] \o s \in Seq(Req)
  BY <1>1, <1>4, ConcatProperties
<1>6. hist' = [hist EXCEPT ![n] = hist[n] \o s] /\ appliedIndex' = [appliedIndex EXCEPT ![n] = k]
  BY DEF ApplyLoop
<1> HIDE DEF s
<1> QED
  BY <1>2, <1>5, <1>6 DEF TypeOK

\* Every step of a handler, a follower or a fault keeps the types.
LEMMA TypeNext == TypeOK /\ [Next]_vars => TypeOK'
<1> SUFFICES ASSUME TypeOK, [Next]_vars PROVE TypeOK'
  OBVIOUS
<1> USE BoundAssumption, NodeAssumption
<1>1. ASSUME NEW r \in Req, NEW n \in Node, AssignIndex(r, n) PROVE TypeOK'
  <2>1. nextIndex' \in [Node -> 1..(MaxIndex + 1)] /\ idx' \in [Req -> 0..MaxIndex]
    <3>1. nextIndex[n] \in 1..(MaxIndex + 1) /\ nextIndex[n] <= MaxIndex
      BY <1>1 DEF TypeOK, AssignIndex
    <3>2. nextIndex[n] + 1 \in 1..(MaxIndex + 1) /\ nextIndex[n] \in 0..MaxIndex
      BY <3>1
    <3> QED
      BY <1>1, <3>2 DEF TypeOK, AssignIndex, TakenIndex
  <2>2. pc' \in [Req -> PC] /\ at' \in [Req -> Node]
    BY <1>1 DEF TypeOK, AssignIndex, PC
  <2> QED
    BY <1>1, <2>1, <2>2 DEF TypeOK, AssignIndex, netVars
<1>2. ASSUME NEW r \in Req, InsertEntry(r) PROVE TypeOK'
  <2>1. log' \in [Node -> Log]
    <3>1. log \in [Node -> Log] /\ at[r] \in Node
      BY DEF TypeOK
    <3>2. ASSUME NEW n \in Node, NEW i \in Idx
          PROVE  log'[n][i] \in Seq(Req)
      <4>1. log[n][i] \in Seq(Req) /\ Append(log[n][i], r) \in Seq(Req)
        BY <3>1, AppendProperties DEF Log
      <4>2. log'[n][i] = log[n][i] \/ log'[n][i] = Append(log[n][i], r)
        BY <1>2, <3>1 DEF InsertEntry, Log
      <4> QED
        BY <4>1, <4>2
    <3>3. \E f : log' = [n \in Node |-> f[n]] /\ \A n \in Node : f[n] = [i \in Idx |-> f[n][i]]
      <4>1. log' = [n \in Node |-> log'[n]]
        BY <1>2, <3>1 DEF InsertEntry
      <4>2. \A n \in Node : log'[n] = [i \in Idx |-> log'[n][i]]
        BY <1>2, <3>1 DEF InsertEntry, Log
      <4> QED
        BY <4>1, <4>2
    <3> QED
      BY <3>2, <3>3 DEF Log
  <2>2. pc' \in [Req -> PC]
    BY <1>2 DEF TypeOK, InsertEntry, PC
  <2> QED
    BY <1>2, <2>1, <2>2 DEF TypeOK, InsertEntry, netVars
<1>3. ASSUME NEW r \in Req, StartReplication(r) PROVE TypeOK'
  <2>1. \A p \in Peers(at[r]) :
          [req |-> r, from |-> at[r], to |-> p, entries |-> log[at[r]],
           commit |-> idx[r]] \in AppendRequest
    BY DEF TypeOK, AppendRequest, Peers
  <2>2. msgs' \subseteq AppendRequest
    BY <1>3, <2>1 DEF TypeOK, StartReplication
  <2>3. lastSent' \in [Req -> 0..MaxIndex] /\ pc' \in [Req -> PC]
    BY <1>3 DEF TypeOK, StartReplication, PC
  <2> QED
    BY <1>3, <2>2, <2>3 DEF TypeOK, StartReplication, nodeVars
<1>4. ASSUME NEW r \in Req, Commit(r) PROVE TypeOK'
  BY <1>4 DEF TypeOK, Commit, PC, Larger
<1>5. ASSUME NEW r \in Req, ReplicationFails(r) PROVE TypeOK'
  BY <1>5 DEF TypeOK, ReplicationFails, PC, nodeVars, netVars
<1>6. ASSUME NEW r \in Req, ApplyOwn(r) PROVE TypeOK'
  <2>1. hist' \in [Node -> Seq(Req)]
    <3> DEFINE s == Append(hist[at[r]], r)
    <3>1. s \in Seq(Req)
      BY AppendProperties DEF TypeOK
    <3>2. hist' = hist \/ hist' = [hist EXCEPT ![at[r]] = s]
      BY <1>6 DEF ApplyOwn
    <3> HIDE DEF s
    <3> QED
      BY <3>1, <3>2 DEF TypeOK
  <2>2. appliedIndex' \in [Node -> 0..MaxIndex]
    <3>1. appliedIndex \in [Node -> 0..MaxIndex] /\ idx[r] \in 0..MaxIndex
      BY DEF TypeOK
    <3> QED
      BY <1>6, <3>1 DEF ApplyOwn, Larger
  <2>3. pc' \in [Req -> PC]
    <3>1. pc \in [Req -> PC]
      BY DEF TypeOK
    <3> QED
      BY <1>6, <3>1 DEF ApplyOwn, PC
  <2> QED
    BY <1>6, <2>1, <2>2, <2>3 DEF TypeOK, ApplyOwn, netVars
<1>7. ASSUME NEW r \in Req, SendNotice(r) PROVE TypeOK'
  <2>1. \A p \in Peers(at[r]) :
          [req |-> NoReq, from |-> at[r], to |-> p, entries |-> log[at[r]],
           commit |-> lastSent[r]] \in AppendRequest
    BY DEF TypeOK, AppendRequest, Peers
  <2>2. msgs' \subseteq AppendRequest
    BY <1>7, <2>1 DEF TypeOK, SendNotice
  <2> QED
    BY <1>7, <2>2 DEF TypeOK, SendNotice, nodeVars, reqVars
<1>8. ASSUME NEW r \in Req, WalFlushFails(r) \/ ClientDisconnects(r) PROVE TypeOK'
  BY <1>8 DEF TypeOK, WalFlushFails, ClientDisconnects, PC, nodeVars, netVars
<1>9. ASSUME NEW r \in Req, NEW p \in Node, CallFails(r, p) PROVE TypeOK'
  BY <1>9 DEF TypeOK, CallFails, nodeVars, netVars
<1>10. ASSUME NEW m \in msgs, HandleAppend(m) PROVE TypeOK'
  <2>1. m.to \in Node /\ m.entries \in Log /\ m.commit \in 0..MaxIndex
    BY DEF TypeOK, AppendRequest
  <2>2. Merge(log[m.to], m.entries) \in Log
    <3> SUFFICES ASSUME NEW i \in Idx, Present(m.entries, i)
                 PROVE  <<Head(m.entries[i])>> \in Seq(Req)
      BY <2>1 DEF Merge, Log, TypeOK
    <3>1. m.entries[i] \in Seq(Req) /\ m.entries[i] # <<>>
      BY <2>1 DEF Log, Present
    <3> QED
      BY <3>1, HeadTailProperties
  <2> QED
    BY <1>10, <2>1, <2>2 DEF TypeOK, HandleAppend, Larger, reqVars
<1>11. ASSUME NEW m \in handling, HandleApply(m) PROVE TypeOK'
  <2> DEFINE n == m.to
  <2>1. n \in Node /\ m.req \in Req \cup {NoReq}
    BY DEF TypeOK, AppendRequest
  <2>2. PICK end \in appliedIndex[n]..MaxIndex, k \in appliedIndex[n]..MaxIndex :
          /\ UnappliedUpTo(log[n], appliedIndex[n], commitIndex[n], end)
          /\ AppliesUpTo(log[n], appliedIndex[n], end, k)
          /\ ApplyLoop(n, k)
          /\ half' = [half EXCEPT ![n] = IF k > appliedIndex[n] THEN NoReq ELSE @]
          /\ IF m.req = NoReq \/ n \in replied[m.req]
             THEN UNCHANGED <<replied, acks>>
             ELSE /\ replied' = [replied EXCEPT ![m.req] = @ \cup {n}]
                  /\ acks' = [acks EXCEPT ![m.req] = IF k = end THEN @ \cup {n} ELSE @]
    BY <1>11 DEF HandleApply
  <2>3. k <= end
    BY <2>2 DEF AppliesUpTo
  <2>4. hist' \in [Node -> Seq(Req)] /\ appliedIndex' \in [Node -> 0..MaxIndex]
    BY <2>1, <2>2, <2>3, TypeApplyLoop
  <2>5. half' \in [Node -> Req \cup {NoReq}]
    BY <2>1, <2>2 DEF TypeOK
  <2>6. replied' \in [Req -> SUBSET Node] /\ acks' \in [Req -> SUBSET Node]
    <3>1. CASE m.req = NoReq \/ n \in replied[m.req]
      BY <2>2, <3>1 DEF TypeOK
    <3>2. CASE ~(m.req = NoReq \/ n \in replied[m.req])
      <4>1. acks[m.req] \cup {n} \in SUBSET Node /\ replied[m.req] \cup {n} \in SUBSET Node
        BY <2>1, <3>2 DEF TypeOK
      <4>2. /\ replied' = [replied EXCEPT ![m.req] = @ \cup {n}]
            /\ acks' = acks \/ acks' = [acks EXCEPT ![m.req] = @ \cup {n}]
        BY <2>2, <3>2 DEF TypeOK
      <4>3. replied' \in [Req -> SUBSET Node]
        BY <4>1, <4>2 DEF TypeOK
      <4>4. acks' \in [Req -> SUBSET Node]
        BY <4>1, <4>2 DEF TypeOK
      <4> QED
        BY <4>3, <4>4
    <3> QED
      BY <3>1, <3>2
  <2> QED
    BY <1>11, <2>4, <2>5, <2>6 DEF TypeOK, HandleApply
<1>16. ASSUME NEW m \in handling, HandleApplyCut(m) PROVE TypeOK'
  <2> DEFINE n == m.to
  <2>1. n \in Node
    BY DEF TypeOK, AppendRequest
  <2>2. PICK end \in appliedIndex[n]..MaxIndex, k \in appliedIndex[n]..MaxIndex :
          /\ UnappliedUpTo(log[n], appliedIndex[n], commitIndex[n], end)
          /\ k < end
          /\ ApplyLoop(n, k)
          /\ half' = [half EXCEPT ![n] = Head(log[n][k + 1])]
    BY <1>16 DEF HandleApplyCut
  <2>3. appliedIndex[n] \in Nat /\ k \in Nat /\ end \in Nat /\ end <= MaxIndex
    BY <2>1 DEF TypeOK
  <2>4. hist' \in [Node -> Seq(Req)] /\ appliedIndex' \in [Node -> 0..MaxIndex]
    BY <2>1, <2>2, <2>3, TypeApplyLoop
  <2>5. k + 1 \in (appliedIndex[n] + 1)..end /\ k + 1 \in Idx
    BY <2>2, <2>3 DEF Idx
  <2>6. log[n][k + 1] \in Seq(Req) /\ log[n][k + 1] # <<>>
    BY <2>1, <2>2, <2>5 DEF UnappliedUpTo, Present, TypeOK, Log
  <2>7. Head(log[n][k + 1]) \in Req
    BY <2>6, HeadTailProperties
  <2>8. half' \in [Node -> Req \cup {NoReq}]
    BY <2>2, <2>7 DEF TypeOK
  <2> QED
    BY <1>16, <2>4, <2>8 DEF TypeOK, HandleApplyCut, reqVars
<1>17. ASSUME NEW r \in Req, ApplyOwnCut(r) PROVE TypeOK'
  <2>1. half' \in [Node -> Req \cup {NoReq}]
    BY <1>17 DEF TypeOK, ApplyOwnCut
  <2>2. pc' \in [Req -> PC]
    BY <1>17 DEF TypeOK, ApplyOwnCut, PC
  <2> QED
    BY <1>17, <2>1, <2>2 DEF TypeOK, ApplyOwnCut, netVars
<1>12. ASSUME NEW n \in Node, NEW p \in Node, NEW k \in 0..MaxIndex, NEW c \in Idx,
              CatchUp(n, p, k, c)
       PROVE  TypeOK'
  <2>1. <<>> \in Seq(Req)
    OBVIOUS
  <2>2. After(log[n], k) \in Log
    BY <2>1 DEF TypeOK, After, Log
  <2>3. [req |-> NoReq, from |-> n, to |-> p, entries |-> After(log[n], k), commit |-> c]
          \in AppendRequest
    BY <2>2 DEF AppendRequest, Idx
  <2>4. msgs' \subseteq AppendRequest /\ sends' \in 0..MaxSends
    BY <1>12, <2>3 DEF TypeOK, CatchUp
  <2> QED
    BY <1>12, <2>4 DEF TypeOK, CatchUp, nodeVars, reqVars
<1>13. ASSUME NEW n \in Node, NEW c \in Idx, SendBatch(n, c) PROVE TypeOK'
  <2>1. <<>> \in Seq(Req)
    OBVIOUS
  <2>2. QueuedEntries(n) \in Log
    BY <2>1 DEF TypeOK, QueuedEntries, Log
  <2>3. \A p \in Peers(n) : [req |-> NoReq, from |-> n, to |-> p,
                            entries |-> QueuedEntries(n), commit |-> c] \in AppendRequest
    BY <2>2 DEF AppendRequest, Idx, Peers
  <2>4. msgs' \subseteq AppendRequest
    BY <1>13, <2>3 DEF TypeOK, SendBatch
  <2>5. sends' \in 0..MaxSends
    BY <1>13 DEF TypeOK, SendBatch
  <2>6. batch' \in [Node -> SUBSET Req]
    BY <1>13 DEF TypeOK, SendBatch
  <2> QED
    BY <1>13, <2>4, <2>5, <2>6 DEF TypeOK, SendBatch, nodeVars, reqVars
<1>14. ASSUME NEW r \in Req, QueueEntry(r) PROVE TypeOK'
  <2>1. pc' \in [Req -> PC]
    BY <1>14 DEF TypeOK, QueueEntry, PC
  <2>2. batch' \in [Node -> SUBSET Req]
    BY <1>14 DEF TypeOK, QueueEntry
  <2> QED
    BY <1>14, <2>1, <2>2 DEF TypeOK, QueueEntry, nodeVars
<1>15. CASE UNCHANGED vars
  BY <1>15 DEF TypeOK, vars, nodeVars, reqVars, netVars
<1> QED
  BY <1>1, <1>2, <1>3, <1>4, <1>5, <1>6, <1>7, <1>8, <1>9, <1>10, <1>11, <1>12, <1>13,
     <1>14, <1>15, <1>16, <1>17
     DEF Next, RequestStep, Fault, Background

\* Every state of the write path has the types of the code's fields, and no
\* index leaves 0..MaxIndex.
THEOREM TypeCorrect == Spec => []TypeOK
  BY TypeInit, TypeNext, PTL DEF Spec

----------------------------------------------------------------------------
(* The inductive invariant. *)

InFlight == msgs \cup handling
Started == {"inserted", "queued", "replicating", "committed", "ok", "failed"}

\* Only the node that starts as leader serves writes, and it never sends to
\* itself.
OneLeader ==
    /\ isLeader = [n \in Node |-> n = Boot]
    /\ \A r \in Req : at[r] = Boot
    /\ \A m \in InFlight : m.to # Boot

\* Indices are handed out once, and the leader's log has each request's entry
\* in the slot of its index, and nothing else.
Slots ==
    /\ \A r \in Req : pc[r] # "idle" => idx[r] \in 1..(nextIndex[Boot] - 1)
    /\ \A r, s \in Req : pc[r] # "idle" /\ pc[s] # "idle" /\ idx[r] = idx[s] => r = s
    /\ \A r \in Req : pc[r] = "indexed" => ~Present(log[Boot], idx[r])
    /\ \A r \in Req : pc[r] \in Started => log[Boot][idx[r]] = <<r>>
    /\ \A i \in Idx : Present(log[Boot], i) =>
         \E r \in Req : pc[r] # "idle" /\ idx[r] = i /\ log[Boot][i] = <<r>>

\* Every copy of an entry, in a log or in a request under way, is the entry of
\* the leader's log.
Copies ==
    /\ \A n \in Node, i \in Idx : Present(log[n], i) => log[n][i] = log[Boot][i]
    /\ \A m \in InFlight, i \in Idx : Present(m.entries, i) => m.entries[i] = log[Boot][i]
    /\ \A m \in handling, i \in Idx : Present(m.entries, i) => Present(log[m.to], i)

\* A node's history is what its log holds up to applied_index.
Applied ==
    \A n \in Node :
        /\ Len(hist[n]) = appliedIndex[n]
        /\ \A i \in 1..appliedIndex[n] : log[n][i] = <<hist[n][i]>>

\* The leader has applied exactly the writes it confirmed.
LeaderApplied ==
    /\ appliedIndex[Boot] < nextIndex[Boot]
    /\ \A r \in Req : pc[r] = "ok" => idx[r] <= appliedIndex[Boot]
    /\ \A r \in Req : pc[r] \notin {"idle", "ok"} => appliedIndex[Boot] < idx[r]

\* A replication request carries the entry it is about; a follower that
\* answered it with success has that entry; a commit has a majority.
Votes ==
    /\ \A m \in InFlight : m.req # NoReq =>
         pc[m.req] \notin {"idle", "indexed"} /\ m.entries[idx[m.req]] = <<m.req>>
    /\ \A r \in Req : \A p \in acks[r] :
         pc[r] \notin {"idle", "indexed"} /\ p # Boot /\ log[p][idx[r]] = <<r>>
    /\ \A r \in Req : pc[r] \in {"committed", "ok"} =>
         replied[r] = Peers(Boot) /\ MajorityReached(r)

\* What a request commits covers its own entry.
Committed ==
    /\ \A r \in Req : pc[r] \in {"replicating", "committed"} => lastSent[r] >= idx[r]
    /\ CommitWaitIsVacuous

IInv == TypeOK /\ OneLeader /\ Slots /\ Copies /\ Applied /\ LeaderApplied /\ Votes /\ Committed

\* The index of a request that has one lies in the log, below next_index.
LEMMA IndexInLog ==
    ASSUME TypeOK, Slots, NEW r \in Req, pc[r] # "idle"
    PROVE  idx[r] \in Idx /\ idx[r] \in Nat /\ idx[r] < nextIndex[Boot]
<1>1. nextIndex[Boot] \in 1..(MaxIndex + 1)
  BY NodeAssumption DEF TypeOK
<1>2. idx[r] \in 1..(nextIndex[Boot] - 1)
  BY DEF Slots
<1> QED
  BY <1>1, <1>2, BoundAssumption DEF Idx

\* A handler that goes on after the insertion, or gives up, leaves the slots as
\* they are.
LEMMA SlotsKept ==
    ASSUME Slots, log'[Boot] = log[Boot], UNCHANGED <<nextIndex, idx>>,
           \A s \in Req : /\ pc'[s] # "idle" <=> pc[s] # "idle"
                          /\ pc'[s] = "indexed" => pc[s] = "indexed"
                          /\ pc'[s] \in Started => pc[s] \in Started
    PROVE  Slots'
  BY DEF Slots, Present

\* The invariant holds when the cluster starts: all logs are empty.
LEMMA InvInit == Init => IInv
<1> SUFFICES ASSUME Init PROVE IInv
  OBVIOUS
<1>1. TypeOK
  BY TypeInit
<1>2. OneLeader /\ Slots /\ Copies
  BY NodeAssumption DEF Init, OneLeader, InFlight, Slots, Started, Copies, Present, NoEntries
<1>3. Applied /\ LeaderApplied /\ Committed
  BY NodeAssumption DEF Init, Applied, LeaderApplied, Committed, CommitWaitIsVacuous
<1>4. Votes
  BY DEF Init, Votes, InFlight
<1> QED
  BY <1>1, <1>2, <1>3, <1>4 DEF IInv

\* A write takes an index nobody has had.
LEMMA InvAssignIndex ==
    ASSUME IInv, NEW r \in Req, NEW n \in Node, AssignIndex(r, n), TypeOK'
    PROVE  IInv'
<1> USE DEF IInv
<1>0. n = Boot /\ nextIndex[Boot] \in 1..MaxIndex
  <2>1. isLeader[n] = (n = Boot)
    BY DEF OneLeader
  <2>2. isLeader[n] /\ nextIndex[n] <= MaxIndex
    BY DEF AssignIndex
  <2>3. nextIndex[Boot] \in 1..(MaxIndex + 1)
    BY NodeAssumption DEF TypeOK
  <2>4. n = Boot
    BY <2>1, <2>2
  <2> QED
    BY <2>2, <2>3, <2>4, BoundAssumption
<1>1. /\ pc[r] = "idle"
      /\ pc' = [pc EXCEPT ![r] = "indexed"]
      /\ idx' = [idx EXCEPT ![r] = nextIndex[Boot]]
      /\ nextIndex' = [nextIndex EXCEPT ![Boot] = @ + 1]
      /\ at' = [at EXCEPT ![r] = Boot]
      /\ UNCHANGED <<log, commitIndex, appliedIndex, hist, isLeader, lastSent,
                     acks, replied, msgs, handling, notices>>
  BY <1>0 DEF AssignIndex, TakenIndex, netVars
<1> DEFINE next == nextIndex[Boot]
<1>1a. /\ pc'[r] = "indexed" /\ idx'[r] = next /\ nextIndex'[Boot] = next + 1
       /\ \A s \in Req : s # r => pc'[s] = pc[s] /\ idx'[s] = idx[s]
  BY <1>1, NodeAssumption DEF TypeOK
<1>1b. \A s \in Req : pc[s] # "idle" => idx[s] \in 1..(next - 1)
  BY DEF Slots
<1>2. OneLeader'
  BY <1>1, NodeAssumption DEF OneLeader, InFlight, TypeOK
<1>3. ~Present(log[Boot], nextIndex[Boot])
  <2>1. next \in Idx
    BY <1>0 DEF Idx
  <2>2. next \notin 1..(next - 1)
    BY <1>0
  <2> QED
    BY <1>1b, <2>1, <2>2 DEF Slots
<1>4. Slots'
  <2>1. \A s \in Req : pc'[s] # "idle" => idx'[s] \in 1..(nextIndex'[Boot] - 1)
    <3> SUFFICES ASSUME NEW s \in Req, pc'[s] # "idle"
                 PROVE  idx'[s] \in 1..next
      BY <1>0, <1>1a, BoundAssumption
    <3> QED
      BY <1>0, <1>1a, <1>1b, BoundAssumption
  <2>2. \A s, t \in Req : pc'[s] # "idle" /\ pc'[t] # "idle" /\ idx'[s] = idx'[t] => s = t
    <3> SUFFICES ASSUME NEW s \in Req, NEW t \in Req, s # t,
                        pc'[s] # "idle", pc'[t] # "idle"
                 PROVE  idx'[s] # idx'[t]
      OBVIOUS
    <3>1. CASE s # r /\ t # r
      BY <3>1, <1>1a DEF Slots
    <3>2. CASE s = r \/ t = r
      BY <3>2, <1>0, <1>1a, <1>1b, BoundAssumption
    <3> QED
      BY <3>1, <3>2
  <2>3. \A s \in Req : pc'[s] = "indexed" => ~Present(log[Boot], idx'[s])
    BY <1>1a, <1>3 DEF Slots
  <2>4. \A s \in Req : pc'[s] \in Started => log[Boot][idx'[s]] = <<s>>
    BY <1>1a DEF Slots, Started
  <2>5. \A i \in Idx : Present(log[Boot], i) =>
          \E s \in Req : pc'[s] # "idle" /\ idx'[s] = i /\ log[Boot][i] = <<s>>
    BY <1>1, <1>1a DEF Slots
  <2> QED
    BY <1>1, <2>1, <2>2, <2>3, <2>4, <2>5 DEF Slots, Present
<1>5. Copies' /\ Applied'
  BY <1>1 DEF Copies, Applied, InFlight, Present
<1>6. LeaderApplied'
  <2>1. appliedIndex[Boot] \in 0..MaxIndex /\ nextIndex[Boot] \in 1..(MaxIndex + 1)
    BY NodeAssumption DEF TypeOK
  <2>2. appliedIndex[Boot] \in Nat /\ nextIndex[Boot] \in Nat
    BY <2>1, BoundAssumption
  <2>3. appliedIndex[Boot] < nextIndex[Boot]
    BY DEF LeaderApplied
  <2>4. appliedIndex'[Boot] < nextIndex'[Boot]
    BY <1>0, <1>1, <2>2, <2>3
  <2>5. ASSUME NEW s \in Req, s # r
        PROVE  /\ pc'[s] = "ok" => idx'[s] <= appliedIndex'[Boot]
               /\ pc'[s] \notin {"idle", "ok"} => appliedIndex'[Boot] < idx'[s]
    BY <1>0, <1>1, <2>5 DEF LeaderApplied
  <2>6. pc'[r] = "indexed" /\ appliedIndex'[Boot] < idx'[r]
    BY <1>1, <1>1a, <2>3
  <2> QED
    BY <2>4, <2>5, <2>6 DEF LeaderApplied
<1>7. Votes'
  <2>0. \A m \in InFlight : m.req \in Req \cup {NoReq}
    BY DEF TypeOK, InFlight, AppendRequest
  <2>0a. \A s \in Req : pc[s] \notin {"idle", "indexed"} => pc'[s] = pc[s] /\ idx'[s] = idx[s]
    BY <1>1, <1>1a
  <2>1. \A m \in InFlight : m.req # NoReq =>
          pc'[m.req] \notin {"idle", "indexed"} /\ m.entries[idx'[m.req]] = <<m.req>>
    BY <2>0, <2>0a DEF Votes
  <2>2. \A s \in Req : \A p \in acks[s] :
          pc'[s] \notin {"idle", "indexed"} /\ p # Boot /\ log[p][idx'[s]] = <<s>>
    BY <2>0a DEF Votes
  <2>3. \A s \in Req : pc'[s] \in {"committed", "ok"} =>
          replied[s] = Peers(Boot) /\ MajorityReached(s)
    BY <1>1a DEF Votes
  <2> QED
    BY <1>1, <2>1, <2>2, <2>3 DEF Votes, InFlight, MajorityReached
<1>8. Committed'
  BY <1>1 DEF Committed, CommitWaitIsVacuous, TypeOK
<1> QED
  BY <1>2, <1>4, <1>5, <1>6, <1>7, <1>8

\* The leader's log gets the entry of r, in an empty slot.
LEMMA InvInsertEntry ==
    ASSUME IInv, NEW r \in Req, InsertEntry(r), TypeOK'
    PROVE  IInv'
<1> USE DEF IInv
<1>0. idx[r] \in Idx /\ ~Present(log[Boot], idx[r]) /\ at[r] = Boot
  BY BoundAssumption, NodeAssumption DEF InsertEntry, Slots, OneLeader, TypeOK, Idx
<1>1. /\ pc[r] = "indexed"
      /\ pc' = [pc EXCEPT ![r] = "inserted"]
      /\ UNCHANGED <<nextIndex, commitIndex, appliedIndex, hist, isLeader, at, idx,
                     lastSent, acks, replied, msgs, handling, notices>>
  BY DEF InsertEntry, netVars
<1>2. /\ log'[Boot][idx[r]] = <<r>>
      /\ \A i \in Idx : i # idx[r] => log'[Boot][i] = log[Boot][i]
      /\ \A n \in Node : n # Boot => log'[n] = log[n]
  <2>1. log' = [log EXCEPT ![Boot] = [log[Boot] EXCEPT ![idx[r]] = Append(log[Boot][idx[r]], r)]]
    BY <1>0 DEF InsertEntry
  <2>2. Append(log[Boot][idx[r]], r) = <<r>>
    <3>1. log[Boot][idx[r]] = <<>>
      BY <1>0 DEF Present
    <3>2. Append(<<>>, r) = <<r>>
      OBVIOUS
    <3> QED
      BY <3>1, <3>2
  <2> QED
    BY <1>0, <2>1, <2>2, NodeAssumption DEF TypeOK, Log
<1>2a. pc'[r] = "inserted" /\ \A s \in Req : s # r => pc'[s] = pc[s]
  BY <1>1 DEF TypeOK
<1>3. OneLeader'
  BY <1>1 DEF OneLeader, InFlight
<1>4. Slots'
  <2>1. \A s \in Req : pc'[s] # "idle" <=> pc[s] # "idle"
    BY <1>1, <1>2a
  <2>2. \A s \in Req : s # r /\ pc[s] # "idle" => idx[s] # idx[r] /\ idx[s] \in Idx
    BY <1>1, BoundAssumption, NodeAssumption DEF Slots, TypeOK, Idx
  <2>3. \A s \in Req : pc'[s] = "indexed" => ~Present(log'[Boot], idx[s])
    BY <1>2, <1>2a, <2>2 DEF Slots, Present
  <2>4. \A s \in Req : pc'[s] \in Started => log'[Boot][idx[s]] = <<s>>
    BY <1>2, <1>2a, <2>2 DEF Slots, Started
  <2>5. \A i \in Idx : Present(log'[Boot], i) =>
          \E s \in Req : pc'[s] # "idle" /\ idx[s] = i /\ log'[Boot][i] = <<s>>
    <3> SUFFICES ASSUME NEW i \in Idx, Present(log'[Boot], i)
                 PROVE  \E s \in Req : pc[s] # "idle" /\ idx[s] = i /\ log'[Boot][i] = <<s>>
      BY <2>1
    <3>1. CASE i = idx[r]
      BY <1>1, <1>2, <3>1
    <3>2. CASE i # idx[r]
      BY <1>2, <3>2 DEF Slots, Present
    <3> QED
      BY <3>1, <3>2
  <2>6. /\ \A s \in Req : pc'[s] # "idle" => idx'[s] \in 1..(nextIndex'[Boot] - 1)
        /\ \A s, t \in Req : pc'[s] # "idle" /\ pc'[t] # "idle" /\ idx'[s] = idx'[t] => s = t
    BY <1>1, <2>1 DEF Slots
  <2>7. idx' = idx
    BY <1>1
  <2> HIDE DEF IInv
  <2> QED
    BY <2>3, <2>4, <2>5, <2>6, <2>7 DEF Slots, Present
<1>5. \A n \in Node, i \in Idx : Present(log[n], i) => i # idx[r]
  BY <1>0, NodeAssumption DEF Copies, Present
<1>6. Copies'
  <2>1. \A m \in InFlight, i \in Idx : Present(m.entries, i) => i # idx[r]
    BY <1>0, NodeAssumption DEF Copies, Present
  <2>2. \A m \in InFlight : m.to # Boot /\ m.to \in Node
    BY DEF OneLeader, TypeOK, AppendRequest, InFlight
  <2> QED
    BY <1>1, <1>2, <1>5, <2>1, <2>2, NodeAssumption DEF Copies, Present, InFlight
<1>7. Applied'
  <2>1. \A n \in Node : \A i \in 1..appliedIndex[n] : i \in Idx /\ log'[n][i] = log[n][i]
    <3> SUFFICES ASSUME NEW n \in Node, NEW i \in 1..appliedIndex[n]
                 PROVE  i \in Idx /\ log'[n][i] = log[n][i]
      OBVIOUS
    <3>0. appliedIndex[n] \in 0..MaxIndex
      BY DEF TypeOK
    <3>1. i \in Idx
      BY <3>0, BoundAssumption DEF Idx
    <3>2. log[n][i] = <<hist[n][i]>>
      BY DEF Applied
    <3>3. log[n][i] # <<>>
      BY <3>2, OneIsNotEmpty
    <3> QED
      BY <1>2, <1>5, <3>1, <3>3 DEF Present
  <2> QED
    BY <1>1, <2>1 DEF Applied
<1>8. LeaderApplied'
  BY <1>1 DEF LeaderApplied, TypeOK
<1>9. Votes'
  <2>1. \A s \in Req : /\ pc'[s] \in {"idle", "indexed"} => pc[s] \in {"idle", "indexed"}
                       /\ pc'[s] \in {"committed", "ok"} => pc[s] \in {"committed", "ok"}
    BY <1>2a
  <2>2. \A s \in Req : \A p \in acks[s] : p # Boot /\ log'[p] = log[p]
    <3>1. \A s \in Req : acks[s] \subseteq Node
      BY DEF TypeOK
    <3>2. \A s \in Req : \A p \in acks[s] : p # Boot
      BY DEF Votes
    <3> QED
      BY <1>2, <3>1, <3>2
  <2>3. \A m \in InFlight : m.req \in Req \cup {NoReq}
    BY DEF TypeOK, InFlight, AppendRequest
  <2>4. \A m \in InFlight : m.req # NoReq =>
          pc'[m.req] \notin {"idle", "indexed"} /\ m.entries[idx[m.req]] = <<m.req>>
    BY <2>1, <2>3 DEF Votes
  <2>5. \A s \in Req : \A p \in acks[s] :
          pc'[s] \notin {"idle", "indexed"} /\ p # Boot /\ log'[p][idx[s]] = <<s>>
    BY <2>1, <2>2 DEF Votes
  <2>6. \A s \in Req : pc'[s] \in {"committed", "ok"} =>
          replied[s] = Peers(Boot) /\ MajorityReached(s)
    BY <2>1 DEF Votes
  <2> QED
    BY <1>1, <2>4, <2>5, <2>6 DEF Votes, InFlight, MajorityReached
<1>10. Committed'
  BY <1>1 DEF Committed, CommitWaitIsVacuous, TypeOK
<1> QED
  BY <1>3, <1>4, <1>6, <1>7, <1>8, <1>9, <1>10

\* The calls to the followers start: only requests under way are added, and
\* each carries a copy of the leader's log, which has the entry of r.
LEMMA InvStartReplication ==
    ASSUME IInv, NEW r \in Req, StartReplication(r), TypeOK'
    PROVE  IInv'
<1> USE DEF IInv
<1>0. at[r] = Boot /\ idx[r] \in Idx /\ log[Boot][idx[r]] = <<r>>
  BY BoundAssumption, NodeAssumption
     DEF StartReplication, OneLeader, Slots, Started, TypeOK, Idx
<1>1. /\ pc[r] = "queued"
      /\ pc' = [pc EXCEPT ![r] = "replicating"]
      /\ UNCHANGED <<log, nextIndex, commitIndex, appliedIndex, hist, isLeader, at, idx,
                     acks, replied, handling, notices>>
  BY DEF StartReplication, nodeVars
<1>1a. \A s \in Req : s # r => pc'[s] = pc[s]
  BY <1>1 DEF TypeOK
<1>1b. pc'[r] = "replicating"
  BY <1>1 DEF TypeOK
<1>2. ASSUME NEW m \in InFlight'
      PROVE  \/ m \in InFlight
             \/ m.to \in Node \ {Boot} /\ m.entries = log[Boot] /\ m.req = r
  BY <1>0, <1>1 DEF StartReplication, InFlight, Peers
<1>3. OneLeader'
  BY <1>1, <1>2 DEF OneLeader
<1>4. Slots'
  BY <1>1, <1>1a, <1>1b, SlotsKept DEF Started
<1>5. Copies'
  BY <1>1, <1>2 DEF Copies, Present
<1>6. Applied' /\ LeaderApplied'
  BY <1>1, <1>1a, <1>1b DEF Applied, LeaderApplied
<1>7. Votes'
  <2>1. \A m \in InFlight : m.req \in Req \cup {NoReq}
    BY DEF TypeOK, InFlight, AppendRequest
  <2>2. ASSUME NEW m \in InFlight', m.req # NoReq
        PROVE  pc'[m.req] \notin {"idle", "indexed"} /\ m.entries[idx[m.req]] = <<m.req>>
    BY <1>0, <1>1a, <1>1b, <1>2, <2>1, <2>2 DEF Votes
  <2>3. \A s \in Req : \A p \in acks[s] :
          pc'[s] \notin {"idle", "indexed"} /\ p # Boot /\ log[p][idx[s]] = <<s>>
    BY <1>1a, <1>1b DEF Votes
  <2>4. \A s \in Req : pc'[s] \in {"committed", "ok"} =>
          replied[s] = Peers(Boot) /\ MajorityReached(s)
    BY <1>1a, <1>1b DEF Votes
  <2> QED
    BY <1>1, <2>2, <2>3, <2>4 DEF Votes, MajorityReached
<1>8. Committed'
  <2>1. PICK k \in 0..MaxIndex : IsLast(log[Boot], k) /\ lastSent' = [lastSent EXCEPT ![r] = k]
    BY <1>0 DEF StartReplication
  <2>2. idx[r] <= k
    BY <1>0, <2>1, OneIsNotEmpty DEF IsLast, Present
  <2> QED
    BY <1>1, <1>1a, <1>1b, <2>1, <2>2 DEF Committed, CommitWaitIsVacuous, TypeOK
<1> QED
  BY <1>3, <1>4, <1>5, <1>6, <1>7, <1>8

\* A handler gives up, with an error or without an answer.
LEMMA InvGiveUp ==
    ASSUME IInv, NEW r \in Req, TypeOK',
           ReplicationFails(r) \/ WalFlushFails(r) \/ ClientDisconnects(r) \/ ApplyOwnCut(r)
    PROVE  IInv'
<1> USE DEF IInv
<1>1. /\ pc[r] \in {"indexed", "inserted", "queued", "replicating", "committed"}
      /\ pc'[r] = "gone" \/ (pc'[r] = "failed" /\ pc[r] = "replicating")
      /\ \A s \in Req : s # r => pc'[s] = pc[s]
  <2>0. pc \in [Req -> PC]
    BY DEF TypeOK
  <2>1. CASE ReplicationFails(r)
    BY <2>0, <2>1 DEF ReplicationFails, ReplicationReturned
  <2>2. CASE WalFlushFails(r) \/ ApplyOwnCut(r)
    BY <2>0, <2>2 DEF WalFlushFails, ApplyOwnCut
  <2>3. CASE ClientDisconnects(r)
    BY <2>0, <2>3 DEF ClientDisconnects
  <2> QED
    BY <2>1, <2>2, <2>3
<1>2. UNCHANGED <<log, nextIndex, commitIndex, appliedIndex, hist, isLeader, at, idx,
                  lastSent, acks, replied, msgs, handling, notices>>
  BY DEF ReplicationFails, WalFlushFails, ClientDisconnects, ApplyOwnCut, nodeVars, netVars
<1>3. OneLeader' /\ Copies' /\ Applied'
  BY <1>2 DEF OneLeader, Copies, Applied, InFlight, Present
<1>4. Slots'
  BY <1>1, <1>2, SlotsKept DEF Started
<1>5. LeaderApplied' /\ Committed'
  BY <1>1, <1>2 DEF LeaderApplied, Committed, CommitWaitIsVacuous
<1>6. Votes'
  <2>1. \A m \in InFlight : m.req \in Req \cup {NoReq}
    BY DEF TypeOK, InFlight, AppendRequest
  <2>2. \A m \in InFlight : m.req # NoReq =>
          pc'[m.req] \notin {"idle", "indexed"} /\ m.entries[idx[m.req]] = <<m.req>>
    BY <1>1, <2>1 DEF Votes
  <2>3. \A s \in Req : \A p \in acks[s] :
          pc'[s] \notin {"idle", "indexed"} /\ p # Boot /\ log[p][idx[s]] = <<s>>
    BY <1>1 DEF Votes
  <2>4. \A s \in Req : pc'[s] \in {"committed", "ok"} =>
          replied[s] = Peers(Boot) /\ MajorityReached(s)
    BY <1>1 DEF Votes
  <2> QED
    BY <1>2, <2>2, <2>3, <2>4 DEF Votes, InFlight, MajorityReached
<1> QED
  BY <1>3, <1>4, <1>5, <1>6

\* A majority answered: the commit index covers what was sent.
LEMMA InvCommit ==
    ASSUME IInv, NEW r \in Req, Commit(r), TypeOK'
    PROVE  IInv'
<1> USE DEF IInv
<1>0. at[r] = Boot
  BY DEF OneLeader
<1>1. /\ pc[r] = "replicating" /\ replied[r] = Peers(Boot) /\ MajorityReached(r)
      /\ pc'[r] = "committed"
      /\ \A s \in Req : s # r => pc'[s] = pc[s]
      /\ UNCHANGED <<log, nextIndex, appliedIndex, hist, isLeader, at, idx,
                     lastSent, acks, replied, msgs, handling>>
  BY <1>0 DEF Commit, ReplicationReturned, TypeOK
<1>2. commitIndex'[Boot] >= commitIndex[Boot] /\ commitIndex'[Boot] >= lastSent[r]
  BY <1>0, BoundAssumption, NodeAssumption DEF Commit, Larger, TypeOK
<1>3. OneLeader' /\ Copies' /\ Applied'
  BY <1>1 DEF OneLeader, Copies, Applied, InFlight, Present
<1>4. Slots'
  <2>1. \A s \in Req : /\ pc'[s] # "idle" <=> pc[s] # "idle"
                       /\ pc'[s] = "indexed" => pc[s] = "indexed"
                       /\ pc'[s] \in Started => pc[s] \in Started
    BY <1>1 DEF Started
  <2> QED
    BY <1>1, <2>1 DEF Slots, Present
<1>5. LeaderApplied'
  BY <1>1 DEF LeaderApplied
<1>6. Committed'
  <2>1. ASSUME NEW s \in Req, pc'[s] = "committed" PROVE commitIndex'[Boot] >= idx[s]
    <3>1. lastSent[r] \in Nat /\ idx[s] \in Nat /\ commitIndex[Boot] \in Nat /\ commitIndex'[Boot] \in Nat
      BY BoundAssumption, NodeAssumption DEF TypeOK
    <3> QED
      BY <1>1, <1>2, <2>1, <3>1 DEF Committed, CommitWaitIsVacuous, OneLeader
  <2> QED
    BY <1>1, <2>1 DEF Committed, CommitWaitIsVacuous, OneLeader
<1>7. Votes'
  <2>1. \A m \in InFlight : m.req \in Req \cup {NoReq}
    BY DEF TypeOK, InFlight, AppendRequest
  <2>2. \A m \in InFlight : m.req # NoReq =>
          pc'[m.req] \notin {"idle", "indexed"} /\ m.entries[idx[m.req]] = <<m.req>>
    BY <1>1, <2>1 DEF Votes
  <2>3. \A s \in Req : \A p \in acks[s] :
          pc'[s] \notin {"idle", "indexed"} /\ p # Boot /\ log[p][idx[s]] = <<s>>
    BY <1>1 DEF Votes
  <2>4. \A s \in Req : pc'[s] \in {"committed", "ok"} =>
          replied[s] = Peers(Boot) /\ MajorityReached(s)
    BY <1>1 DEF Votes
  <2> QED
    BY <1>1, <2>2, <2>3, <2>4 DEF Votes, InFlight, MajorityReached
<1> QED
  BY <1>3, <1>4, <1>5, <1>6, <1>7

\* The leader applies the entry that follows what it has applied.
LEMMA InvApplyOwn ==
    ASSUME IInv, NEW r \in Req, ApplyOwn(r), TypeOK'
    PROVE  IInv'
<1> USE DEF IInv
<1>0. /\ at[r] = Boot
      /\ idx[r] \in Idx
      /\ log[Boot][idx[r]] = <<r>>
      /\ appliedIndex[Boot] = idx[r] - 1
      /\ pc[r] = "committed"
  <2>1. at[r] = Boot /\ pc[r] = "committed" /\ appliedIndex[Boot] >= idx[r] - 1
    BY DEF ApplyOwn, OneLeader, EarlierApplied
  <2>2. idx[r] \in Idx /\ log[Boot][idx[r]] = <<r>>
    BY <2>1, IndexInLog DEF Slots, Started
  <2>3. appliedIndex[Boot] < idx[r]
    BY <2>1 DEF LeaderApplied
  <2>4. appliedIndex[Boot] \in Nat
    BY BoundAssumption, NodeAssumption DEF TypeOK
  <2> QED
    BY <2>1, <2>2, <2>3, <2>4, BoundAssumption DEF Idx
<1>1. /\ \A s \in Req : s # r => pc'[s] = pc[s]
      /\ UNCHANGED <<log, nextIndex, commitIndex, isLeader, at, idx,
                     lastSent, acks, replied, msgs, handling, notices>>
  BY DEF ApplyOwn, netVars, TypeOK
<1>2. \/ pc'[r] = "failed" /\ hist' = hist /\ appliedIndex' = appliedIndex
      \/ /\ pc'[r] = "ok"
         /\ hist' = [hist EXCEPT ![Boot] = Append(@, r)]
         /\ appliedIndex' = [appliedIndex EXCEPT ![Boot] = idx[r]]
  <2>1. Larger(appliedIndex[Boot], idx[r]) = idx[r]
    BY <1>0, BoundAssumption DEF Larger, Idx
  <2>2. CASE r \in Bad
    BY <2>2 DEF ApplyOwn, TypeOK
  <2>3. CASE r \notin Bad
    BY <1>0, <2>1, <2>3 DEF ApplyOwn, TypeOK
  <2> QED
    BY <2>2, <2>3
<1>3. OneLeader' /\ Copies'
  BY <1>1 DEF OneLeader, Copies, InFlight, Present
<1>4. Slots'
  <2>1. \A s \in Req : /\ pc'[s] # "idle" <=> pc[s] # "idle"
                       /\ pc'[s] = "indexed" => pc[s] = "indexed"
                       /\ pc'[s] \in Started => pc[s] \in Started
    BY <1>0, <1>1, <1>2 DEF Started
  <2> QED
    BY <1>1, <2>1 DEF Slots, Present
<1>5. Applied'
  <2>1. CASE hist' = hist /\ appliedIndex' = appliedIndex
    BY <1>1, <2>1 DEF Applied
  <2>2. CASE /\ hist' = [hist EXCEPT ![Boot] = Append(@, r)]
             /\ appliedIndex' = [appliedIndex EXCEPT ![Boot] = idx[r]]
    <3> DEFINE h == Append(hist[Boot], r)
    <3>1. hist[Boot] \in Seq(Req) /\ Len(hist[Boot]) = idx[r] - 1
      BY <1>0, NodeAssumption DEF Applied, TypeOK
    <3>2. Len(h) = idx[r] /\ h[idx[r]] = r /\ \A i \in 1..(idx[r] - 1) : h[i] = hist[Boot][i]
      BY <1>0, <3>1, AppendProperties, BoundAssumption DEF Idx
    <3>3. hist'[Boot] = h /\ appliedIndex'[Boot] = idx[r]
      BY <2>2, NodeAssumption DEF TypeOK
    <3>4. \A n \in Node : n # Boot => hist'[n] = hist[n] /\ appliedIndex'[n] = appliedIndex[n]
      BY <2>2 DEF TypeOK
    <3>5. \A i \in 1..idx[r] : log[Boot][i] = <<h[i]>>
      BY <1>0, <3>2, BoundAssumption, NodeAssumption DEF Applied, Idx
    <3> HIDE DEF h
    <3>6. ASSUME NEW n \in Node
          PROVE  /\ Len(hist'[n]) = appliedIndex'[n]
                 /\ \A i \in 1..appliedIndex'[n] : log[n][i] = <<hist'[n][i]>>
      <4>1. CASE n = Boot
        BY <3>2, <3>3, <3>5, <4>1
      <4>2. CASE n # Boot
        BY <3>4, <4>2 DEF Applied
      <4> QED
        BY <4>1, <4>2
    <3> QED
      BY <1>1, <3>6 DEF Applied
  <2> QED
    BY <1>2, <2>1, <2>2
<1>6. LeaderApplied'
  <2>1. CASE pc'[r] = "failed" /\ hist' = hist /\ appliedIndex' = appliedIndex
    BY <1>0, <1>1, <2>1 DEF LeaderApplied
  <2>2. CASE pc'[r] = "ok" /\ appliedIndex' = [appliedIndex EXCEPT ![Boot] = idx[r]]
    <3>1. appliedIndex'[Boot] = idx[r]
      BY <2>2, NodeAssumption DEF TypeOK
    <3>2. idx[r] < nextIndex[Boot]
      BY <1>0, IndexInLog
    <3>3. ASSUME NEW s \in Req, pc'[s] = "ok" PROVE idx[s] <= idx[r]
      <4>1. idx[s] \in Nat /\ idx[r] \in Nat
        BY BoundAssumption DEF TypeOK
      <4>2. CASE s # r
        <5>1. idx[s] <= appliedIndex[Boot]
          BY <1>1, <3>3, <4>2 DEF LeaderApplied
        <5> QED
          BY <1>0, <4>1, <5>1
      <4> QED
        BY <4>1, <4>2
    <3>4. ASSUME NEW s \in Req, pc'[s] \notin {"idle", "ok"} PROVE idx[r] < idx[s]
      <4>1. s # r /\ pc[s] \notin {"idle", "ok"}
        BY <1>1, <2>2, <3>4
      <4>2. appliedIndex[Boot] < idx[s] /\ idx[s] # idx[r]
        BY <1>0, <4>1 DEF LeaderApplied, Slots
      <4>3. idx[s] \in Nat /\ idx[r] \in Nat
        BY BoundAssumption DEF TypeOK
      <4> QED
        BY <1>0, <4>2, <4>3
    <3> QED
      BY <1>1, <3>1, <3>2, <3>3, <3>4 DEF LeaderApplied
  <2> QED
    BY <1>2, <2>1, <2>2
<1>7. Votes'
  <2>1. \A m \in InFlight : m.req \in Req \cup {NoReq}
    BY DEF TypeOK, InFlight, AppendRequest
  <2>2. \A s \in Req : /\ pc'[s] \in {"idle", "indexed"} => pc[s] \in {"idle", "indexed"}
                       /\ pc'[s] \in {"committed", "ok"} => pc[s] \in {"committed", "ok"}
    BY <1>0, <1>1, <1>2
  <2>3. \A m \in InFlight : m.req # NoReq =>
          pc'[m.req] \notin {"idle", "indexed"} /\ m.entries[idx[m.req]] = <<m.req>>
    BY <2>1, <2>2 DEF Votes
  <2>4. \A s \in Req : \A p \in acks[s] :
          pc'[s] \notin {"idle", "indexed"} /\ p # Boot /\ log[p][idx[s]] = <<s>>
    BY <2>2 DEF Votes
  <2>5. \A s \in Req : pc'[s] \in {"committed", "ok"} =>
          replied[s] = Peers(Boot) /\ MajorityReached(s)
    BY <2>2 DEF Votes
  <2> QED
    BY <1>1, <2>3, <2>4, <2>5 DEF Votes, InFlight, MajorityReached
<1>8. Committed'
  BY <1>1, <1>2 DEF Committed, CommitWaitIsVacuous
<1> QED
  BY <1>3, <1>4, <1>5, <1>6, <1>7, <1>8

\* The notification of a commit: copies of the leader's log go out.
LEMMA InvSendNotice ==
    ASSUME IInv, NEW r \in Req, SendNotice(r), TypeOK'
    PROVE  IInv'
<1> USE DEF IInv
<1>0. at[r] = Boot
  BY DEF OneLeader
<1>1. UNCHANGED <<log, nextIndex, commitIndex, appliedIndex, hist, isLeader,
                  pc, at, idx, lastSent, acks, replied, handling>>
  BY DEF SendNotice, nodeVars, reqVars
<1>2. ASSUME NEW m \in InFlight'
      PROVE  \/ m \in InFlight
             \/ m.to \in Node \ {Boot} /\ m.entries = log[Boot] /\ m.req = NoReq
  BY <1>0, <1>1 DEF SendNotice, InFlight, Peers
<1>3. OneLeader'
  BY <1>1, <1>2 DEF OneLeader
<1>4. Copies'
  BY <1>1, <1>2 DEF Copies, Present
<1>5. Votes'
  BY <1>1, <1>2 DEF Votes, MajorityReached
<1>6. Slots'
  BY <1>1, SlotsKept
<1>7. Applied' /\ LeaderApplied' /\ Committed'
  BY <1>1 DEF Applied, LeaderApplied, Committed, CommitWaitIsVacuous
<1> QED
  BY <1>3, <1>4, <1>5, <1>6, <1>7

\* The background catch-up: the end of the leader's log goes out.
LEMMA InvCatchUp ==
    ASSUME IInv, NEW n \in Node, NEW p \in Node, NEW k \in 0..MaxIndex, NEW c \in Idx,
           CatchUp(n, p, k, c), TypeOK'
    PROVE  IInv'
<1> USE DEF IInv
<1>0. n = Boot
  BY DEF CatchUp, OneLeader
<1>1. UNCHANGED <<log, nextIndex, commitIndex, appliedIndex, hist, isLeader,
                  pc, at, idx, lastSent, acks, replied, handling>>
  BY DEF CatchUp, nodeVars, reqVars
<1>2. ASSUME NEW m \in InFlight'
      PROVE  \/ m \in InFlight
             \/ /\ m.to \in Node \ {Boot} /\ m.req = NoReq
                /\ \A i \in Idx : Present(m.entries, i) => m.entries[i] = log[Boot][i]
  BY <1>0, <1>1 DEF CatchUp, InFlight, Peers, After, Present
<1>3. OneLeader'
  BY <1>1, <1>2 DEF OneLeader
<1>4. Copies'
  BY <1>1, <1>2 DEF Copies, Present
<1>5. Votes'
  BY <1>1, <1>2 DEF Votes, MajorityReached
<1>6. Slots' /\ Applied' /\ LeaderApplied' /\ Committed'
  BY <1>1 DEF Slots, Applied, LeaderApplied, Committed, CommitWaitIsVacuous, Present
<1> QED
  BY <1>3, <1>4, <1>5, <1>6

\* The background batch: entries of the leader's log go out.
LEMMA InvSendBatch ==
    ASSUME IInv, NEW n \in Node, NEW c \in Idx, SendBatch(n, c), TypeOK'
    PROVE  IInv'
<1> USE DEF IInv
<1>0. n = Boot
  BY DEF SendBatch, OneLeader
<1>1. UNCHANGED <<log, nextIndex, commitIndex, appliedIndex, hist, isLeader,
                  pc, at, idx, lastSent, acks, replied, handling>>
  BY DEF SendBatch, nodeVars, reqVars
<1>2. ASSUME NEW m \in InFlight'
      PROVE  \/ m \in InFlight
             \/ /\ m.to \in Node \ {Boot} /\ m.req = NoReq
                /\ \A i \in Idx : Present(m.entries, i) => m.entries[i] = log[Boot][i]
  BY <1>0, <1>1 DEF SendBatch, InFlight, Peers, QueuedEntries, Present
<1>3. OneLeader'
  BY <1>1, <1>2 DEF OneLeader
<1>4. Copies'
  BY <1>1, <1>2 DEF Copies, Present
<1>5. Votes'
  BY <1>1, <1>2 DEF Votes, MajorityReached
<1>6. Slots' /\ Applied' /\ LeaderApplied' /\ Committed'
  BY <1>1 DEF Slots, Applied, LeaderApplied, Committed, CommitWaitIsVacuous, Present
<1> QED
  BY <1>3, <1>4, <1>5, <1>6

\* An entry is queued for the background task.
LEMMA InvQueueEntry ==
    ASSUME IInv, NEW r \in Req, QueueEntry(r), TypeOK'
    PROVE  IInv'
<1> USE DEF IInv
<1>1. /\ pc[r] = "inserted" /\ pc'[r] = "queued"
      /\ \A s \in Req : s # r => pc'[s] = pc[s]
      /\ UNCHANGED <<log, nextIndex, commitIndex, appliedIndex, hist, isLeader,
                     at, idx, lastSent, acks, replied, msgs, handling>>
  BY DEF QueueEntry, nodeVars, TypeOK
<1>2. OneLeader' /\ Copies' /\ Applied'
  BY <1>1 DEF OneLeader, Copies, Applied, InFlight, Present
<1>3. Slots'
  BY <1>1, SlotsKept DEF Started
<1>4. LeaderApplied' /\ Committed'
  BY <1>1 DEF LeaderApplied, Committed, CommitWaitIsVacuous
<1>5. Votes'
  <2>1. \A m \in InFlight : m.req # NoReq => m.req \in Req
    BY DEF TypeOK, InFlight, AppendRequest
  <2> QED
    BY <1>1, <2>1 DEF Votes, InFlight, MajorityReached
<1> QED
  BY <1>2, <1>3, <1>4, <1>5

\* A failed call is counted as returned.
LEMMA InvCallFails ==
    ASSUME IInv, NEW r \in Req, NEW p \in Node, CallFails(r, p), TypeOK'
    PROVE  IInv'
<1> USE DEF IInv
<1>1. /\ pc[r] = "replicating"
      /\ \A s \in Req : s # r => replied'[s] = replied[s]
      /\ UNCHANGED <<log, nextIndex, commitIndex, appliedIndex, hist, isLeader,
                     pc, at, idx, lastSent, acks, msgs, handling, notices>>
  BY DEF CallFails, nodeVars, netVars, TypeOK
<1>2. OneLeader' /\ Copies' /\ Applied' /\ LeaderApplied' /\ Committed'
  BY <1>1 DEF OneLeader, Copies, Applied, LeaderApplied, Committed, CommitWaitIsVacuous,
              InFlight, Present
<1>3. Slots'
  BY <1>1 DEF Slots, Present
<1>4. Votes'
  BY <1>1 DEF Votes, InFlight, MajorityReached
<1> QED
  BY <1>2, <1>3, <1>4

\* A follower merges a request: what its log gains are the leader's entries,
\* and what it had it keeps.
LEMMA InvHandleAppend ==
    ASSUME IInv, NEW m \in msgs, HandleAppend(m), TypeOK'
    PROVE  IInv'
<1> USE DEF IInv
<1>0. m.to \in Node /\ m.to # Boot /\ m.entries \in Log /\ m \in InFlight
  BY DEF TypeOK, AppendRequest, OneLeader, InFlight
<1>1. /\ log' = [log EXCEPT ![m.to] = Merge(log[m.to], m.entries)]
      /\ msgs' = msgs \ {m}
      /\ handling' = handling \cup {m}
      /\ UNCHANGED <<nextIndex, appliedIndex, hist, isLeader, pc, at, idx, lastSent,
                     acks, replied, notices>>
  BY DEF HandleAppend, reqVars
<1>2. InFlight' = InFlight
  BY <1>1 DEF InFlight
<1>3. \A n \in Node : n # m.to => log'[n] = log[n]
  BY <1>1 DEF TypeOK
<1>4. log'[m.to] = Merge(log[m.to], m.entries)
  BY <1>0, <1>1 DEF TypeOK
<1>5. log'[Boot] = log[Boot] /\ commitIndex'[Boot] = commitIndex[Boot]
  BY <1>0, <1>3, NodeAssumption DEF HandleAppend, TypeOK
<1>6. ASSUME NEW i \in Idx, Present(m.entries, i)
      PROVE  <<Head(m.entries[i])>> = log[Boot][i]
  <2>1. m.entries[i] = log[Boot][i] /\ Present(log[Boot], i)
    BY <1>0, <1>6 DEF Copies, Present
  <2>2. PICK r \in Req : log[Boot][i] = <<r>>
    BY <2>1 DEF Slots
  <2>3. Head(<<r>>) = r
    OBVIOUS
  <2> QED
    BY <2>1, <2>2, <2>3
<1>7. ASSUME NEW i \in Idx
      PROVE  /\ Present(log[m.to], i) => log'[m.to][i] = log[m.to][i]
             /\ Present(log'[m.to], i) => log'[m.to][i] = log[Boot][i]
             /\ Present(m.entries, i) => Present(log'[m.to], i)
  <2>1. log'[m.to][i] = IF Present(log[m.to], i) \/ ~Present(m.entries, i)
                        THEN log[m.to][i] ELSE <<Head(m.entries[i])>>
    BY <1>4 DEF Merge
  <2>2. CASE Present(log[m.to], i) \/ ~Present(m.entries, i)
    BY <1>0, <2>1, <2>2 DEF Copies, Present
  <2>3. CASE ~(Present(log[m.to], i) \/ ~Present(m.entries, i))
    BY <1>6, <2>1, <2>3, OneIsNotEmpty DEF Present
  <2> QED
    BY <2>2, <2>3
<1>8. \A n \in Node, i \in Idx : Present(log[n], i) => log'[n][i] = log[n][i]
  BY <1>3, <1>7
<1>9. OneLeader'
  BY <1>1, <1>2 DEF OneLeader
<1>10. Slots'
  BY <1>1, <1>5, SlotsKept
<1>11. Copies'
  <2>1. \A n \in Node, i \in Idx : Present(log'[n], i) => log'[n][i] = log[Boot][i]
    BY <1>3, <1>7 DEF Copies
  <2>2. \A x \in InFlight, i \in Idx : Present(x.entries, i) => x.entries[i] = log[Boot][i]
    BY DEF Copies
  <2>3. ASSUME NEW x \in handling', NEW i \in Idx, Present(x.entries, i)
        PROVE  Present(log'[x.to], i)
    <3>1. x.to \in Node
      BY <1>0, <1>1 DEF TypeOK, AppendRequest
    <3>2. CASE x = m
      BY <1>7, <2>3, <3>2
    <3>3. CASE x # m
      <4>1. Present(log[x.to], i)
        BY <1>1, <2>3, <3>3 DEF Copies
      <4> QED
        BY <1>8, <3>1, <4>1 DEF Present
    <3> QED
      BY <3>2, <3>3
  <2> QED
    BY <1>2, <1>5, <2>1, <2>2, <2>3 DEF Copies, Present
<1>12. Applied'
  <2>1. ASSUME NEW n \in Node, NEW i \in 1..appliedIndex[n]
        PROVE  log'[n][i] = <<hist[n][i]>>
    <3>1. i \in Idx
      BY BoundAssumption DEF TypeOK, Idx
    <3>2. log[n][i] = <<hist[n][i]>>
      BY DEF Applied
    <3> QED
      BY <1>8, <3>1, <3>2, OneIsNotEmpty DEF Present
  <2> QED
    BY <1>1, <2>1 DEF Applied
<1>13. LeaderApplied'
  BY <1>1 DEF LeaderApplied
<1>14. Votes'
  <2>1. ASSUME NEW r \in Req, NEW p \in acks[r]
        PROVE  pc[r] \notin {"idle", "indexed"} /\ p # Boot /\ log'[p][idx[r]] = <<r>>
    <3>1. pc[r] \notin {"idle", "indexed"} /\ p # Boot /\ log[p][idx[r]] = <<r>>
      BY DEF Votes
    <3>2. idx[r] \in Idx /\ p \in Node
      BY <3>1, IndexInLog DEF TypeOK
    <3> QED
      BY <1>8, <3>1, <3>2, OneIsNotEmpty DEF Present
  <2> QED
    BY <1>1, <1>2, <2>1 DEF Votes, MajorityReached
<1>15. Committed'
  <2>1. \A r \in Req : at[r] = Boot
    BY DEF OneLeader
  <2> QED
    BY <1>1, <1>5, <2>1 DEF Committed, CommitWaitIsVacuous
<1> QED
  BY <1>9, <1>10, <1>11, <1>12, <1>13, <1>14, <1>15

\* What the apply loop of a follower and one that is cut short have in common:
\* the entries up to k of those it may apply are applied, and the answer, if
\* there is one, is a success only if these are all.
Answers(m, all) ==
    IF m.req = NoReq \/ m.to \in replied[m.req]
    THEN UNCHANGED <<replied, acks>>
    ELSE /\ replied' = [replied EXCEPT ![m.req] = @ \cup {m.to}]
         /\ acks' = [acks EXCEPT ![m.req] = IF all THEN @ \cup {m.to} ELSE @]

FollowerApplies(m) ==
    LET n == m.to IN
    /\ handling' = handling \ {m}
    /\ \E end, k \in appliedIndex[n]..MaxIndex :
         /\ UnappliedUpTo(log[n], appliedIndex[n], commitIndex[n], end)
         /\ k <= end
         /\ ApplyLoop(n, k)
         /\ Answers(m, k = end)
    /\ UNCHANGED <<log, nextIndex, commitIndex, isLeader, pc, at, idx, lastSent, msgs>>

\* Both actions of a follower are such steps.
LEMMA ApplyOrCut ==
    ASSUME IInv, NEW m \in handling, HandleApply(m) \/ HandleApplyCut(m)
    PROVE  FollowerApplies(m)
<1>1. CASE HandleApply(m)
  <2>1. \E end, k \in appliedIndex[m.to]..MaxIndex :
          /\ UnappliedUpTo(log[m.to], appliedIndex[m.to], commitIndex[m.to], end)
          /\ AppliesUpTo(log[m.to], appliedIndex[m.to], end, k)
          /\ ApplyLoop(m.to, k)
          /\ Answers(m, k = end)
    BY <1>1 DEF HandleApply, Answers
  <2> QED
    BY <1>1, <2>1 DEF HandleApply, FollowerApplies, AppliesUpTo
<1>2. CASE HandleApplyCut(m)
  <2>1. m.to \in Node /\ appliedIndex[m.to] \in Nat
    BY BoundAssumption DEF IInv, TypeOK, AppendRequest
  <2>2. PICK end \in appliedIndex[m.to]..MaxIndex, k \in appliedIndex[m.to]..MaxIndex :
          /\ UnappliedUpTo(log[m.to], appliedIndex[m.to], commitIndex[m.to], end)
          /\ k < end
          /\ ApplyLoop(m.to, k)
    BY <1>2 DEF HandleApplyCut
  <2>3. Answers(m, k = end)
    BY <1>2 DEF HandleApplyCut, Answers, reqVars
  <2>4. k <= end
    BY <2>1, <2>2, BoundAssumption
  <2> QED
    BY <1>2, <2>2, <2>3, <2>4 DEF HandleApplyCut, FollowerApplies, reqVars
<1> QED
  BY <1>1, <1>2

\* A follower applies the entries that follow what it has applied, and answers.
LEMMA InvHandleApply ==
    ASSUME IInv, NEW m \in handling, FollowerApplies(m), TypeOK'
    PROVE  IInv'
<1> USE DEF IInv
<1> DEFINE n == m.to
           a == appliedIndex[n]
<1>0. n \in Node /\ n # Boot /\ m \in InFlight /\ m.req \in Req \cup {NoReq}
  BY DEF TypeOK, AppendRequest, OneLeader, InFlight
<1>1. PICK end \in a..MaxIndex, k \in a..MaxIndex :
        /\ UnappliedUpTo(log[n], a, commitIndex[n], end)
        /\ k <= end
        /\ appliedIndex' = [appliedIndex EXCEPT ![n] = k]
        /\ hist' = [hist EXCEPT ![n] = @ \o [i \in 1..(k - a) |-> Head(log[n][a + i])]]
        /\ IF m.req = NoReq \/ n \in replied[m.req]
           THEN UNCHANGED <<replied, acks>>
           ELSE /\ replied' = [replied EXCEPT ![m.req] = @ \cup {n}]
                /\ acks' = [acks EXCEPT ![m.req] = IF k = end THEN @ \cup {n} ELSE @]
  BY DEF FollowerApplies, ApplyLoop, Answers
<1>2. /\ handling' = handling \ {m}
      /\ UNCHANGED <<log, nextIndex, commitIndex, isLeader, pc, at, idx, lastSent,
                     msgs>>
  BY DEF FollowerApplies
<1>3. InFlight' \subseteq InFlight
  BY <1>2 DEF InFlight
<1>4. /\ log[n] \in Log /\ a \in 0..MaxIndex /\ hist[n] \in Seq(Req) /\ Len(hist[n]) = a
      /\ k \in Nat /\ a \in Nat /\ k >= a
  <2>1. log[n] \in Log /\ a \in 0..MaxIndex /\ hist[n] \in Seq(Req)
    BY <1>0 DEF TypeOK
  <2>2. Len(hist[n]) = a
    BY <1>0 DEF Applied
  <2>3. k \in Nat /\ a \in Nat /\ k >= a
    BY <2>1, BoundAssumption
  <2> QED
    BY <2>1, <2>2, <2>3
<1>5. \A i \in (a + 1)..k : Present(log[n], i) /\ i \in Idx
  BY <1>1, <1>4, BoundAssumption DEF UnappliedUpTo, Idx
<1>6. OneLeader' /\ Copies'
  BY <1>2, <1>3 DEF OneLeader, Copies, Present
<1>7. Slots' /\ Committed'
  BY <1>2 DEF Slots, Committed, CommitWaitIsVacuous, Present
<1>8. Applied'
  <2> DEFINE s == [i \in 1..(k - a) |-> Head(log[n][a + i])]
             h == hist[n] \o s
  <2>1. s \in Seq(Req) /\ Len(s) = k - a
    BY <1>4, <1>5, HeadsAreSeq
  <2>2. Len(h) = k
    BY <1>4, <2>1, ConcatProperties
  <2>3. ASSUME NEW i \in 1..k PROVE log[n][i] = <<h[i]>>
    <3>1. CASE i <= a
      <4>1. h[i] = hist[n][i] /\ i \in 1..a
        BY <1>4, <2>1, <3>1, ConcatProperties
      <4> QED
        BY <1>0, <4>1 DEF Applied
    <3>2. CASE i > a
      <4>1. i - a \in 1..(k - a) /\ a + (i - a) = i /\ i \in (a + 1)..k
        BY <1>4, <3>2
      <4>2. h[i] = s[i - a]
        <5> HIDE DEF s, a
        <5>1. i \in 1..(Len(hist[n]) + Len(s)) /\ i > Len(hist[n])
          BY <1>4, <2>1, <3>2
        <5> QED
          BY <1>4, <2>1, <5>1, ConcatProperties
      <4>3. s[i - a] = Head(log[n][i])
        BY <4>1
      <4>4. \E r \in Req : log[n][i] = <<r>>
        BY <1>0, <1>5, <4>1 DEF Copies, Slots, Present
      <4>5. \A r : Head(<<r>>) = r
        OBVIOUS
      <4> QED
        BY <4>2, <4>3, <4>4, <4>5
    <3>3. i <= a \/ i > a
      <4> HIDE DEF a
      <4> QED
        BY <1>4
    <3> QED
      BY <3>1, <3>2, <3>3
  <2>4. hist'[n] = h /\ appliedIndex'[n] = k
    BY <1>0, <1>1 DEF TypeOK
  <2>5. \A x \in Node : x # n => hist'[x] = hist[x] /\ appliedIndex'[x] = appliedIndex[x]
    BY <1>1 DEF TypeOK
  <2> HIDE DEF h
  <2>6. ASSUME NEW x \in Node
        PROVE  /\ Len(hist'[x]) = appliedIndex'[x]
               /\ \A i \in 1..appliedIndex'[x] : log[x][i] = <<hist'[x][i]>>
    <3>1. CASE x = n
      BY <2>2, <2>3, <2>4, <3>1
    <3>2. CASE x # n
      BY <2>5, <3>2 DEF Applied
    <3> QED
      BY <3>1, <3>2
  <2> QED
    BY <1>2, <2>6 DEF Applied
<1>9. LeaderApplied'
  <2>1. appliedIndex'[Boot] = appliedIndex[Boot]
    BY <1>0, <1>1, NodeAssumption DEF TypeOK
  <2> QED
    BY <1>2, <2>1 DEF LeaderApplied
<1>10. Votes'
  <2>1. CASE UNCHANGED <<replied, acks>>
    BY <1>2, <1>3, <2>1 DEF Votes, MajorityReached
  <2>2. CASE /\ ~(m.req = NoReq \/ n \in replied[m.req])
             /\ replied' = [replied EXCEPT ![m.req] = @ \cup {n}]
             /\ acks' = [acks EXCEPT ![m.req] = IF k = end THEN @ \cup {n} ELSE @]
    <3> DEFINE q == m.req
    <3>1. q \in Req /\ pc[q] \notin {"idle", "indexed"} /\ m.entries[idx[q]] = <<q>>
      BY <1>0, <2>2 DEF Votes
    <3>2. idx[q] \in Idx
      BY <3>1, IndexInLog
    <3>3. log[n][idx[q]] = <<q>>
      <4>1. Present(m.entries, idx[q])
        BY <3>1, OneIsNotEmpty DEF Present
      <4>2. m.entries[idx[q]] = log[Boot][idx[q]] /\ Present(log[n], idx[q])
        BY <1>0, <3>2, <4>1 DEF Copies
      <4> QED
        BY <1>0, <3>1, <3>2, <4>2 DEF Copies
    <3>4. pc[q] \notin {"committed", "ok"}
      BY <1>0, <2>2, <3>1 DEF Votes, Peers
    <3>5. \A r \in Req : r # q => replied'[r] = replied[r] /\ acks'[r] = acks[r]
      BY <2>2, <3>1 DEF TypeOK
    <3>6. acks'[q] \subseteq acks[q] \cup {n}
      BY <2>2, <3>1 DEF TypeOK
    <3>7. \A r \in Req : \A p \in acks'[r] :
            pc[r] \notin {"idle", "indexed"} /\ p # Boot /\ log[p][idx[r]] = <<r>>
      BY <1>0, <3>1, <3>3, <3>5, <3>6 DEF Votes
    <3>8. \A r \in Req : pc[r] \in {"committed", "ok"} =>
            replied'[r] = Peers(Boot) /\ Cardinality(acks'[r]) >= NeededFromFollowers
      BY <3>4, <3>5 DEF Votes, MajorityReached
    <3>9. \A x \in InFlight' : x.req # NoReq =>
            pc[x.req] \notin {"idle", "indexed"} /\ x.entries[idx[x.req]] = <<x.req>>
      BY <1>3 DEF Votes
    <3> QED
      BY <1>2, <3>7, <3>8, <3>9 DEF Votes, MajorityReached
  <2> QED
    BY <1>1, <2>1, <2>2
<1> QED
  BY <1>6, <1>7, <1>8, <1>9, <1>10

\* Every step keeps the invariant: one lemma per action, put together.
LEMMA InvNext == IInv /\ [Next]_vars => IInv'
<1> SUFFICES ASSUME IInv, [Next]_vars PROVE IInv'
  OBVIOUS
<1>1. TypeOK'
  BY TypeNext DEF IInv
<1>2. CASE \E r \in Req, n \in Node : AssignIndex(r, n)
  BY <1>1, <1>2, InvAssignIndex
<1>3. CASE \E r \in Req : RequestStep(r)
  BY <1>1, <1>3, InvInsertEntry, InvStartReplication, InvCommit, InvGiveUp, InvApplyOwn,
     InvSendNotice, InvQueueEntry DEF RequestStep
<1>4. CASE \E r \in Req : Fault(r)
  BY <1>1, <1>4, InvGiveUp, InvCallFails DEF Fault
<1>5. CASE \E m \in msgs : HandleAppend(m)
  BY <1>1, <1>5, InvHandleAppend
<1>6. CASE \E m \in handling : HandleApply(m) \/ HandleApplyCut(m)
  BY <1>1, <1>6, ApplyOrCut, InvHandleApply
<1>7. CASE \E n \in Node, c \in Idx : Background(n, c)
  BY <1>1, <1>7, InvCatchUp, InvSendBatch DEF Background
<1>8. CASE UNCHANGED vars
  <2>1. UNCHANGED <<log, nextIndex, commitIndex, appliedIndex, hist, isLeader,
                    pc, at, idx, lastSent, acks, replied, msgs, handling>>
    BY <1>8 DEF vars, nodeVars, reqVars, netVars
  <2>2. OneLeader' /\ Slots' /\ Copies'
    BY <2>1 DEF IInv, OneLeader, Slots, Copies, InFlight, Present
  <2>3. Applied' /\ LeaderApplied' /\ Committed'
    BY <2>1 DEF IInv, Applied, LeaderApplied, Committed, CommitWaitIsVacuous
  <2>4. Votes'
    BY <2>1 DEF IInv, Votes, InFlight, MajorityReached
  <2> QED
    BY <1>1, <2>2, <2>3, <2>4 DEF IInv
<1> QED
  BY <1>2, <1>3, <1>4, <1>5, <1>6, <1>7, <1>8 DEF Next

\* The inductive invariant of the write path: one leader allocates the indices, a
\* slot has at most the request that took its index, a follower's slot is a copy
\* of the leader's, and what a node has applied is a prefix of the leader's log.
THEOREM Invariance == Spec => []IInv
  BY InvInit, InvNext, PTL DEF Spec

----------------------------------------------------------------------------
(* What a dropped handler leaves behind. *)

\* An operation that was applied and not marked is the entry that follows what
\* its node has applied; on the leader, its handler is gone.
Half ==
    /\ \A n \in Node : half[n] # NoReq =>
         /\ appliedIndex[n] + 1 \in Idx
         /\ log[n][appliedIndex[n] + 1] = <<half[n]>>
    /\ half[Boot] # NoReq => half[Boot] \in Req /\ pc[half[Boot]] = "gone"

\* Filled slots stay as they are and a handler that is gone stays gone: then a
\* step that applies nothing keeps Half.
LEMMA HalfKept ==
    ASSUME Half, half' = half, appliedIndex' = appliedIndex,
           \A n \in Node, i \in Idx : Present(log[n], i) => log'[n][i] = log[n][i],
           \A r \in Req : pc[r] = "gone" => pc'[r] = "gone"
    PROVE  Half'
<1>1. \A n \in Node : half[n] # NoReq =>
        appliedIndex[n] + 1 \in Idx /\ log'[n][appliedIndex[n] + 1] = <<half[n]>>
  BY OneIsNotEmpty DEF Half, Present
<1> QED
  BY <1>1 DEF Half

\* The steps of a request's handler, and its faults, keep Half.
LEMMA HalfRequest ==
    ASSUME IInv, Half, NEW r \in Req, RequestStep(r) \/ Fault(r)
    PROVE  Half'
<1> USE DEF IInv
<1>1. CASE InsertEntry(r)
  <2>1. at[r] = Boot /\ idx[r] \in Idx /\ ~Present(log[Boot], idx[r])
    BY <1>1, IndexInLog DEF InsertEntry, OneLeader, Slots
  <2>2. \A n \in Node, i \in Idx : Present(log[n], i) => log'[n][i] = log[n][i]
    BY <1>1, <2>1 DEF InsertEntry, TypeOK, Log
  <2> QED
    BY <1>1, <2>2, HalfKept DEF InsertEntry, TypeOK
<1>2. CASE ApplyOwn(r) \/ ApplyOwnCut(r)
  <2>1. /\ at[r] = Boot /\ pc[r] = "committed" /\ appliedIndex[Boot] + 1 = idx[r]
        /\ idx[r] \in Idx /\ log[Boot][idx[r]] = <<r>>
    <3>1. at[r] = Boot /\ pc[r] = "committed" /\ appliedIndex[Boot] >= idx[r] - 1
      BY <1>2 DEF ApplyOwn, ApplyOwnCut, OneLeader, EarlierApplied
    <3>2. idx[r] \in Idx /\ log[Boot][idx[r]] = <<r>>
      BY <3>1, IndexInLog DEF Slots, Started
    <3>3. appliedIndex[Boot] < idx[r] /\ appliedIndex[Boot] \in 0..MaxIndex
      BY <3>1, NodeAssumption DEF LeaderApplied, TypeOK
    <3> QED
      BY <3>1, <3>2, <3>3, BoundAssumption DEF Idx
  <2>2. half[Boot] = NoReq
    <3>1. \A x, y : <<x>> = <<y>> => x = y
      OBVIOUS
    <3> QED
      BY <2>1, <3>1, NodeAssumption DEF Half
  <2>3. CASE ApplyOwn(r)
    <3>1. /\ log' = log /\ half' = half
          /\ \A n \in Node : n # Boot => appliedIndex'[n] = appliedIndex[n]
      BY <2>1, <2>3 DEF ApplyOwn, TypeOK
    <3> QED
      BY <2>2, <3>1, NodeAssumption DEF Half
  <2>4. CASE ApplyOwnCut(r)
    <3>1. /\ log' = log /\ appliedIndex' = appliedIndex
          /\ half'[Boot] = r /\ pc'[r] = "gone"
          /\ \A n \in Node : n # Boot => half'[n] = half[n]
      BY <2>1, <2>4, NodeAssumption DEF ApplyOwnCut, TypeOK
    <3>2. \A n \in Node : half'[n] # NoReq =>
            appliedIndex[n] + 1 \in Idx /\ log[n][appliedIndex[n] + 1] = <<half'[n]>>
      BY <2>1, <3>1 DEF Half
    <3> QED
      BY <3>1, <3>2 DEF Half
  <2> QED
    BY <1>2, <2>3, <2>4
<1>3. CASE ~InsertEntry(r) /\ ~ApplyOwn(r) /\ ~ApplyOwnCut(r)
  <2>1. /\ UNCHANGED <<log, appliedIndex, half>>
        /\ pc[r] = "gone" => pc' = pc
        /\ \A s \in Req : s # r => pc'[s] = pc[s]
    <3>1. CASE QueueEntry(r) \/ StartReplication(r) \/ SendNotice(r)
      BY <3>1 DEF QueueEntry, StartReplication, SendNotice, nodeVars, reqVars, TypeOK
    <3>2. CASE Commit(r) \/ ReplicationFails(r)
      BY <3>2 DEF Commit, ReplicationFails, ReplicationReturned, nodeVars, TypeOK
    <3>3. CASE Fault(r)
      BY <1>3, <3>3 DEF Fault, WalFlushFails, ClientDisconnects, CallFails, nodeVars, TypeOK
    <3> QED
      BY <1>3, <3>1, <3>2, <3>3 DEF RequestStep
  <2> QED
    BY <2>1, HalfKept
<1> QED
  BY <1>1, <1>2, <1>3

\* A follower's two steps keep Half: Merge leaves filled slots alone, and what
\* the apply loop leaves unmarked is the next entry.
LEMMA HalfFollower ==
    ASSUME IInv, Half, NEW m \in InFlight,
           HandleAppend(m) \/ HandleApply(m) \/ HandleApplyCut(m)
    PROVE  Half'
<1> USE DEF IInv
<1> DEFINE n == m.to
           a == appliedIndex[n]
<1>0. n \in Node /\ n # Boot /\ a \in 0..MaxIndex /\ a \in Nat /\ log[n] \in Log
  BY BoundAssumption DEF TypeOK, AppendRequest, OneLeader, InFlight
<1>1. CASE HandleAppend(m)
  <2>1. \A x \in Node, i \in Idx : Present(log[x], i) => log'[x][i] = log[x][i]
    BY <1>0, <1>1 DEF HandleAppend, Merge, TypeOK, Log
  <2> QED
    BY <1>1, <2>1, HalfKept DEF HandleAppend, reqVars
<1>2. CASE HandleApply(m) \/ HandleApplyCut(m)
  <2>1. PICK end \in a..MaxIndex, k \in a..MaxIndex :
          /\ UnappliedUpTo(log[n], a, commitIndex[n], end)
          /\ appliedIndex' = [appliedIndex EXCEPT ![n] = k]
          /\ \/ half' = [half EXCEPT ![n] = IF k > a THEN NoReq ELSE @]
             \/ k < end /\ half' = [half EXCEPT ![n] = Head(log[n][k + 1])]
    BY <1>2 DEF HandleApply, HandleApplyCut, ApplyLoop
  <2>2. UNCHANGED <<log, pc>>
    BY <1>2 DEF HandleApply, HandleApplyCut, reqVars
  <2>3. /\ appliedIndex'[n] = k
        /\ \A x \in Node : x # n => appliedIndex'[x] = appliedIndex[x] /\ half'[x] = half[x]
    BY <1>0, <2>1 DEF TypeOK
  <2>4. half'[n] # NoReq => k + 1 \in Idx /\ log[n][k + 1] = <<half'[n]>>
    <3>1. CASE half' = [half EXCEPT ![n] = IF k > a THEN NoReq ELSE @]
      <4>1. CASE k > a
        BY <1>0, <3>1, <4>1 DEF TypeOK
      <4>2. CASE ~(k > a)
        <5>1. k = a
          BY <1>0, <4>2, BoundAssumption
        <5>2. half'[n] = half[n]
          BY <1>0, <3>1, <4>2 DEF TypeOK
        <5> QED
          BY <1>0, <5>1, <5>2 DEF Half
      <4> QED
        BY <4>1, <4>2
    <3>2. CASE k < end /\ half' = [half EXCEPT ![n] = Head(log[n][k + 1])]
      <4>1. k + 1 \in Idx /\ k + 1 \in (a + 1)..end
        BY <1>0, <3>2, BoundAssumption DEF Idx
      <4>2. Present(log[n], k + 1)
        BY <2>1, <4>1 DEF UnappliedUpTo
      <4>3. \E r \in Req : log[n][k + 1] = <<r>>
        BY <1>0, <4>1, <4>2 DEF Copies, Slots, Present
      <4>4. \A r : Head(<<r>>) = r
        OBVIOUS
      <4>5. half'[n] = Head(log[n][k + 1])
        BY <1>0, <3>2 DEF TypeOK
      <4> QED
        BY <4>1, <4>3, <4>4, <4>5
    <3> QED
      BY <2>1, <3>1, <3>2
  <2> QED
    <3>1. half'[Boot] = half[Boot]
      BY <1>0, <2>3, NodeAssumption
    <3>2. ASSUME NEW x \in Node, half'[x] # NoReq
          PROVE  appliedIndex'[x] + 1 \in Idx /\ log[x][appliedIndex'[x] + 1] = <<half'[x]>>
      <4>1. CASE x = n
        BY <2>3, <2>4, <3>2, <4>1
      <4>2. CASE x # n
        BY <2>3, <3>2, <4>2 DEF Half
      <4> QED
        BY <4>1, <4>2
    <3> QED
      BY <2>2, <3>1, <3>2 DEF Half
<1> QED
  BY <1>1, <1>2

\* Half holds at the start and every step keeps it.
LEMMA HalfInvariant == Spec => [](IInv /\ Half)
<1>1. Init => Half
  BY NodeAssumption DEF Init, Half
<1>2. IInv /\ Half /\ [Next]_vars => Half'
  <2> SUFFICES ASSUME IInv, Half, [Next]_vars PROVE Half'
    OBVIOUS
  <2>1. CASE \E r \in Req, n \in Node : AssignIndex(r, n)
    BY <2>1, HalfKept DEF AssignIndex, IInv, TypeOK
  <2>2. CASE \E r \in Req : RequestStep(r) \/ Fault(r)
    BY <2>2, HalfRequest
  <2>3. CASE \E n \in Node, c \in Idx : Background(n, c)
    BY <2>3, HalfKept DEF Background, SendBatch, CatchUp, nodeVars, reqVars
  <2>4. CASE \/ \E m \in msgs : HandleAppend(m)
             \/ \E m \in handling : HandleApply(m) \/ HandleApplyCut(m)
    BY <2>4, HalfFollower DEF InFlight
  <2>5. CASE UNCHANGED vars
    BY <2>5, HalfKept DEF vars, nodeVars, reqVars
  <2> QED
    BY <2>1, <2>2, <2>3, <2>4, <2>5 DEF Next
<1> QED
  BY <1>1, <1>2, InvInit, InvNext, PTL DEF Spec

----------------------------------------------------------------------------
(* Operations that fail to apply. *)

\* No history holds an operation that fails to apply.
NoneFailed == \A n \in Node : \A i \in 1..Len(hist[n]) : hist[n][i] \notin Bad

\* A follower's loop stops before the first operation that fails, so what it
\* appends to the history are operations that do not.
LEMMA NoneFailedFollower ==
    ASSUME IInv, NoneFailed, NEW m \in handling, HandleApply(m) \/ HandleApplyCut(m)
    PROVE  NoneFailed'
<1> DEFINE n == m.to
           a == appliedIndex[n]
<1>1. n \in Node /\ a \in 0..MaxIndex /\ log[n] \in Log /\ hist[n] \in Seq(Req)
  BY DEF IInv, TypeOK, AppendRequest
<1>2. PICK end \in a..MaxIndex, k \in a..MaxIndex :
        /\ UnappliedUpTo(log[n], a, commitIndex[n], end)
        /\ k <= end
        /\ \A i \in (a + 1)..k : Head(log[n][i]) \notin Bad
        /\ ApplyLoop(n, k)
  <2>1. CASE HandleApply(m)
    BY <2>1 DEF HandleApply, AppliesUpTo
  <2>2. CASE HandleApplyCut(m)
    <3>1. PICK end \in a..MaxIndex, k \in a..MaxIndex :
            /\ UnappliedUpTo(log[n], a, commitIndex[n], end)
            /\ k < end
            /\ \A i \in (a + 1)..(k + 1) : Head(log[n][i]) \notin Bad
            /\ ApplyLoop(n, k)
      BY <2>2 DEF HandleApplyCut
    <3>2. k <= end /\ (a + 1)..k \subseteq (a + 1)..(k + 1)
      BY <1>1, <3>1, BoundAssumption
    <3> QED
      BY <3>1, <3>2
  <2> QED
    BY <2>1, <2>2
<1> DEFINE s == [i \in 1..(k - a) |-> Head(log[n][a + i])]
<1>3. a \in Nat /\ k \in Nat /\ end \in Nat
  BY <1>1, BoundAssumption
<1>4. s \in Seq(Req) /\ Len(s) = k - a
  <2>1. \A i \in (a + 1)..k : Present(log[n], i)
    BY <1>2, <1>3 DEF UnappliedUpTo
  <2> QED
    BY <1>1, <2>1, HeadsAreSeq
<1>5. \A i \in 1..Len(s) : s[i] \notin Bad
  <2> SUFFICES ASSUME NEW i \in 1..(k - a) PROVE Head(log[n][a + i]) \notin Bad
    BY <1>4
  <2>1. a + i \in (a + 1)..k
    BY <1>3
  <2> QED
    BY <1>2, <2>1
<1>6. hist' = [hist EXCEPT ![n] = hist[n] \o s]
  BY <1>2 DEF ApplyLoop
<1>7. hist'[n] = hist[n] \o s /\ \A x \in Node : x # n => hist'[x] = hist[x]
  <2> HIDE DEF s
  <2> QED
    BY <1>1, <1>6 DEF IInv, TypeOK
<1> HIDE DEF s
<1>8. \A i \in 1..Len(hist[n] \o s) : (hist[n] \o s)[i] \notin Bad
  <2>1. \A i \in 1..Len(hist[n]) : hist[n][i] \notin Bad
    BY <1>1 DEF NoneFailed
  <2>2. Len(hist[n]) \in Nat /\ Len(s) \in Nat /\ Len(hist[n] \o s) = Len(hist[n]) + Len(s)
    BY <1>1, <1>4, ConcatProperties, LenProperties
  <2> SUFFICES ASSUME NEW i \in 1..Len(hist[n] \o s) PROVE (hist[n] \o s)[i] \notin Bad
    OBVIOUS
  <2>3. CASE i <= Len(hist[n])
    BY <1>1, <1>4, <2>1, <2>2, <2>3, ConcatProperties
  <2>4. CASE i > Len(hist[n])
    <3>1. i - Len(hist[n]) \in 1..Len(s)
      BY <2>2, <2>4
    <3>2. (hist[n] \o s)[i] = s[i - Len(hist[n])]
      BY <1>1, <1>4, <2>2, <2>4, ConcatProperties
    <3> QED
      BY <1>5, <3>1, <3>2
  <2> QED
    BY <2>2, <2>3, <2>4
<1> QED
  BY <1>7, <1>8 DEF NoneFailed

\* The handler of an operation that fails appends nothing.
LEMMA NoneFailedApplyOwn ==
    ASSUME IInv, NoneFailed, NEW r \in Req, ApplyOwn(r)
    PROVE  NoneFailed'
<1>1. at[r] \in Node /\ hist \in [Node -> Seq(Req)]
  BY DEF IInv, TypeOK
<1>2. CASE r \in Bad
  BY <1>2 DEF ApplyOwn, NoneFailed
<1>3. CASE r \notin Bad
  <2>1. hist[at[r]] \in Seq(Req)
    BY <1>1
  <2>2. /\ hist'[at[r]] = Append(hist[at[r]], r)
        /\ \A n \in Node : n # at[r] => hist'[n] = hist[n]
    BY <1>1, <1>3 DEF ApplyOwn
  <2>3. /\ Len(Append(hist[at[r]], r)) = Len(hist[at[r]]) + 1
        /\ \A i \in 1..Len(hist[at[r]]) : Append(hist[at[r]], r)[i] = hist[at[r]][i]
        /\ Append(hist[at[r]], r)[Len(hist[at[r]]) + 1] = r
    BY <2>1, AppendProperties
  <2>4. Len(hist[at[r]]) \in Nat
    BY <2>1, LenProperties
  <2>5. \A i \in 1..(Len(hist[at[r]]) + 1) : i \in 1..Len(hist[at[r]]) \/ i = Len(hist[at[r]]) + 1
    BY <2>4
  <2> QED
    BY <1>1, <1>3, <2>2, <2>3, <2>5 DEF NoneFailed
<1> QED
  BY <1>2, <1>3

\* NoneFailed holds at the start and every step keeps it.
LEMMA NoneFailedInvariant == Spec => [](IInv /\ NoneFailed)
<1>1. Init => NoneFailed
  BY DEF Init, NoneFailed
<1>2. IInv /\ NoneFailed /\ [Next]_vars => NoneFailed'
  <2> SUFFICES ASSUME IInv, NoneFailed, [Next]_vars PROVE NoneFailed'
    OBVIOUS
  <2>1. CASE \E r \in Req : ApplyOwn(r)
    BY <2>1, NoneFailedApplyOwn
  <2>2. CASE \E m \in handling : HandleApply(m) \/ HandleApplyCut(m)
    BY <2>2, NoneFailedFollower
  <2>3. CASE ~(\E r \in Req : ApplyOwn(r)) /\ ~(\E m \in handling : HandleApply(m) \/ HandleApplyCut(m))
    <3>1. hist' = hist
      <4>1. CASE \E r \in Req, n \in Node : AssignIndex(r, n)
        BY <4>1 DEF AssignIndex
      <4>2. CASE \E r \in Req : RequestStep(r)
        BY <2>3, <4>2 DEF RequestStep, InsertEntry, QueueEntry, StartReplication, Commit,
           ReplicationFails, SendNotice, nodeVars
      <4>3. CASE \E r \in Req : Fault(r)
        BY <4>3 DEF Fault, WalFlushFails, ClientDisconnects, ApplyOwnCut, CallFails, nodeVars
      <4>4. CASE \E n \in Node, c \in Idx : Background(n, c)
        BY <4>4 DEF Background, SendBatch, CatchUp, nodeVars
      <4>5. CASE \E m \in msgs : HandleAppend(m)
        BY <4>5 DEF HandleAppend
      <4>6. CASE UNCHANGED vars
        BY <4>6 DEF vars, nodeVars
      <4> QED
        BY <2>3, <4>1, <4>2, <4>3, <4>4, <4>5, <4>6 DEF Next
    <3> QED
      BY <3>1 DEF NoneFailed
  <2> QED
    BY <2>1, <2>2, <2>3
<1> QED
  BY <1>1, <1>2, InvInit, InvNext, PTL DEF Spec

\* A node whose applied_index reached the place of r has r in its history there.
LEMMA InvFailed == IInv /\ NoneFailed => FailedStaysUnmarked
<1> SUFFICES ASSUME IInv, NoneFailed, NEW n \in Node, NEW r \in Bad, pc[r] # "idle",
                    ~(appliedIndex[n] < idx[r])
             PROVE  FALSE
  BY DEF FailedStaysUnmarked
<1>1. r \in Req /\ idx[r] \in Idx
  BY ReqAssumption, IndexInLog DEF IInv
<1>2. idx[r] \in 1..appliedIndex[n] /\ appliedIndex[n] = Len(hist[n])
  <2>1. appliedIndex[n] \in 0..MaxIndex /\ appliedIndex[n] = Len(hist[n])
    BY DEF IInv, TypeOK, Applied
  <2> QED
    BY <1>1, <2>1, BoundAssumption DEF Idx
<1>3. log[n][idx[r]] = <<hist[n][idx[r]]>>
  BY <1>2 DEF IInv, Applied
<1>4. log[Boot][idx[r]] = <<hist[n][idx[r]]>> /\ Present(log[Boot], idx[r])
  BY <1>1, <1>3, OneIsNotEmpty DEF IInv, Copies, Present
<1>5. PICK s \in Req : pc[s] # "idle" /\ idx[s] = idx[r] /\ log[Boot][idx[r]] = <<s>>
  BY <1>1, <1>4 DEF IInv, Slots
<1>6. s = r
  BY <1>1, <1>5 DEF IInv, Slots
<1>7. \A x, y : <<x>> = <<y>> => x = y
  OBVIOUS
<1>8. hist[n][idx[r]] = r
  BY <1>4, <1>5, <1>6, <1>7
<1> QED
  BY <1>2, <1>8 DEF NoneFailed

----------------------------------------------------------------------------
(* What the invariant says about the properties of ReplicatedLog. *)

\* Whatever a node has applied at place i is the entry of the leader's log there.
LEMMA AppliedIsLeaders ==
    ASSUME IInv, Half, NEW n \in Node, NEW i \in Idx, NEW r \in Req, AppliedAt(n, i, r)
    PROVE  log[Boot][i] = <<r>>
<1> USE DEF IInv
<1>1. appliedIndex[n] \in 0..MaxIndex /\ Len(hist[n]) = appliedIndex[n]
  BY DEF TypeOK, Applied
<1>2. log[n][i] = <<r>>
  <2>1. CASE i <= Len(hist[n]) /\ hist[n][i] = r
    <3>1. i \in 1..appliedIndex[n]
      BY <1>1, <2>1, BoundAssumption DEF Idx
    <3> QED
      BY <2>1, <3>1 DEF Applied
  <2>2. CASE i = Len(hist[n]) + 1 /\ half[n] = r
    BY <1>1, <2>2, ReqAssumption DEF Half
  <2> QED
    BY <2>1, <2>2 DEF AppliedAt
<1> QED
  BY <1>2, OneIsNotEmpty DEF Copies, Present

\* Two operations applied at one place are both the entry of the leader's log.
LEMMA InvAgreement == IInv /\ Half => Agreement
<1> SUFFICES ASSUME IInv, Half, NEW m \in Node, NEW n \in Node, NEW i \in Idx,
                    NEW r \in Req, NEW s \in Req, AppliedAt(m, i, r), AppliedAt(n, i, s)
             PROVE  r = s
  BY DEF Agreement
<1>1. log[Boot][i] = <<r>> /\ log[Boot][i] = <<s>>
  BY AppliedIsLeaders
<1>2. \A x, y : <<x>> = <<y>> => x = y
  OBVIOUS
<1> QED
  BY <1>1, <1>2

\* The leader and the followers that answered hold the entry: a majority.
LEMMA InvAcked == IInv => AckedIsReplicated
<1> SUFFICES ASSUME IInv, NEW r \in Req, pc[r] = "ok"
             PROVE  /\ 2 * Cardinality(Holders(r)) > Cardinality(Node)
                    /\ idx[r] <= Len(hist[at[r]])
                    /\ hist[at[r]][idx[r]] = r
  BY DEF AckedIsReplicated
<1>1. at[r] = Boot /\ idx[r] \in Idx /\ log[Boot][idx[r]] = <<r>>
  BY IndexInLog DEF IInv, OneLeader, Slots, Started
<1>2. idx[r] <= Len(hist[Boot]) /\ hist[Boot][idx[r]] = r
  <2>1. idx[r] <= appliedIndex[Boot] /\ appliedIndex[Boot] \in 0..MaxIndex
    BY NodeAssumption DEF IInv, LeaderApplied, TypeOK
  <2>2. idx[r] \in 1..appliedIndex[Boot]
    BY <1>1, <2>1, BoundAssumption DEF Idx
  <2>3. log[Boot][idx[r]] = <<hist[Boot][idx[r]]>> /\ Len(hist[Boot]) = appliedIndex[Boot]
    BY <2>2, NodeAssumption DEF IInv, Applied
  <2>4. \A x, y : <<x>> = <<y>> => x = y
    OBVIOUS
  <2> QED
    BY <1>1, <2>1, <2>3, <2>4
<1>3. 2 * Cardinality(Holders(r)) > Cardinality(Node)
  <2> DEFINE A == acks[r]
  <2>1. A \in SUBSET Node /\ Boot \notin A /\ Cardinality(A) >= NeededFromFollowers
    BY DEF IInv, TypeOK, Votes, MajorityReached
  <2>2. A \cup {Boot} \in SUBSET Holders(r) /\ Holders(r) \in SUBSET Node
    BY <1>1, <2>1, NodeAssumption DEF IInv, Votes, Holders
  <2>3. IsFiniteSet(A) /\ IsFiniteSet(Holders(r))
    BY <2>1, <2>2, NodeAssumption, FS_Subset
  <2>4. Cardinality(A \cup {Boot}) = Cardinality(A) + 1
    BY <2>1, <2>3, FS_AddElement
  <2>5. Cardinality(A \cup {Boot}) <= Cardinality(Holders(r))
    BY <2>2, <2>3, FS_Subset
  <2>6. /\ Cardinality(A) \in Nat /\ Cardinality(Holders(r)) \in Nat
        /\ Cardinality(Node) \in Nat
    BY <2>3, NodeAssumption, FS_CardinalityType
  <2>7. 2 * ((Cardinality(Node) \div 2) + 1) > Cardinality(Node)
    BY <2>6
  <2> QED
    BY <2>1, <2>4, <2>5, <2>6, <2>7 DEF NeededFromFollowers
<1> QED
  BY <1>1, <1>2, <1>3

\* State machine safety holds in every cluster, whatever faults happen.
THEOREM StateMachineSafety == Spec => []Agreement
  BY HalfInvariant, InvAgreement, PTL

\* No node's applied_index ever passes a write that fails to apply, whatever is
\* committed after it and whoever marks it.
THEOREM FailuresBlock == Spec => []FailedStaysUnmarked
  BY NoneFailedInvariant, InvFailed, PTL

\* A confirmed write is on a majority and in its place on the leader, always.
THEOREM AckedDurability == Spec => []AckedIsReplicated
  BY Invariance, InvAcked, PTL

\* The commit wait of the write handler is dead code.
THEOREM CommitWait == Spec => []CommitWaitIsVacuous
<1>1. IInv => CommitWaitIsVacuous
  BY DEF IInv, Committed
<1> QED
  BY <1>1, Invariance, PTL

----------------------------------------------------------------------------
(* The write path implements TotalOrder. *)

AbstractStep == [Order!Next]_(Order!vars)

\* A step that leaves the leader's log, the histories and what clients were
\* told as they are is a step TotalOrder does not see.
LEMMA HiddenStep ==
    ASSUME log'[Boot] = log[Boot], hist' = hist, Told' = Told
    PROVE  AbstractStep
<1>1. LeaderOrder' = LeaderOrder
  BY DEF LeaderOrder, Present
<1> QED
  BY <1>1 DEF AbstractStep, Order!vars

\* What a client was told, read off where its handler stands.
LEMMA ToldOf ==
    ASSUME NEW r \in Req
    PROVE  /\ pc[r] = "ok" => Told[r] = "ok"
           /\ pc[r] \in {"failed", "gone"} => Told[r] = "refused"
           /\ pc[r] \notin {"ok", "failed", "gone"} => Told[r] = "pending"
  BY DEF Told

\* The client of r is told something, and nobody else's is.
LEMMA ToldChange ==
    ASSUME TypeOK, NEW r \in Req, NEW x \in PC, pc' = [pc EXCEPT ![r] = x]
    PROVE  /\ x = "ok" => Told' = [Told EXCEPT ![r] = "ok"]
           /\ x \in {"failed", "gone"} => Told' = [Told EXCEPT ![r] = "refused"]
           /\ x \notin {"ok", "failed", "gone"} => Told' = [Told EXCEPT ![r] = "pending"]
<1>1. pc'[r] = x /\ \A s \in Req : s # r => pc'[s] = pc[s]
  BY DEF TypeOK
<1> QED
  BY <1>1 DEF Told, PC

\* A step that moves no handler tells no client anything.
LEMMA ToldSame ==
    ASSUME NEW r \in Req, Told[r] = "pending", Told' = [Told EXCEPT ![r] = "pending"]
    PROVE  Told' = Told
  BY DEF Told

\* A handler that fails, hangs or is dropped refuses its client in the abstract.
LEMMA RefineRefuse ==
    ASSUME IInv, NEW r \in Req, NEW x \in {"failed", "gone"},
           pc[r] \notin {"ok", "failed", "gone"},
           pc' = [pc EXCEPT ![r] = x], log' = log, hist' = hist
    PROVE  AbstractStep
<1>1. Told[r] = "pending" /\ Told' = [Told EXCEPT ![r] = "refused"]
  BY ToldOf, ToldChange DEF IInv, PC
<1>2. LeaderOrder' = LeaderOrder
  BY DEF LeaderOrder, Present
<1>3. Order!Refuse(r)
  BY <1>1, <1>2 DEF Order!Refuse
<1> QED
  BY <1>3 DEF AbstractStep, Order!Next

\* Inserting the entry of r gives it its place.
LEMMA RefineInsert ==
    ASSUME IInv, NEW r \in Req, InsertEntry(r)
    PROVE  AbstractStep
<1> USE DEF IInv
<1>1. /\ at[r] = Boot /\ pc[r] = "indexed" /\ idx[r] \in Idx
      /\ ~Present(log[Boot], idx[r])
  BY IndexInLog DEF InsertEntry, OneLeader, Slots
<1>2. log' = [log EXCEPT ![Boot] = [log[Boot] EXCEPT ![idx[r]] = Append(log[Boot][idx[r]], r)]]
  BY <1>1 DEF InsertEntry
<1>3. Append(log[Boot][idx[r]], r) = <<r>>
  <2>1. log[Boot][idx[r]] = <<>>
    BY <1>1 DEF Present
  <2>2. Append(<<>>, r) = <<r>>
    OBVIOUS
  <2> QED
    BY <2>1, <2>2
<1>4. log'[Boot] = [log[Boot] EXCEPT ![idx[r]] = <<r>>]
  BY <1>2, <1>3, NodeAssumption DEF TypeOK
<1>5. \A x : Head(<<x>>) = x
  OBVIOUS
<1>6. LeaderOrder' = [LeaderOrder EXCEPT ![idx[r]] = r]
  <2>1. log'[Boot][idx[r]] = <<r>> /\ \A i \in Idx : i # idx[r] => log'[Boot][i] = log[Boot][i]
    <3>1. log[Boot] \in [Idx -> Seq(Req)]
      BY NodeAssumption DEF TypeOK, Log
    <3> QED
      BY <1>1, <1>4, <3>1
  <2>2. \A i \in Idx : LeaderOrder'[i] = IF i = idx[r] THEN r ELSE LeaderOrder[i]
    BY <1>5, <2>1, OneIsNotEmpty DEF LeaderOrder, Present
  <2>3. LeaderOrder' = [i \in Idx |-> LeaderOrder'[i]] /\ LeaderOrder = [i \in Idx |-> LeaderOrder[i]]
    BY DEF LeaderOrder
  <2> HIDE DEF IInv
  <2> QED
    BY <1>1, <2>2, <2>3
<1>7. LeaderOrder[idx[r]] = NoReq
  BY <1>1 DEF LeaderOrder
<1>8. ASSUME NEW j \in Idx PROVE LeaderOrder[j] # r
  <2>1. CASE ~Present(log[Boot], j)
    BY <2>1, ReqAssumption DEF LeaderOrder
  <2>2. CASE Present(log[Boot], j)
    <3>1. PICK s \in Req : pc[s] # "idle" /\ idx[s] = j /\ log[Boot][j] = <<s>>
      BY <2>2 DEF Slots
    <3>2. LeaderOrder[j] = s
      BY <1>5, <2>2, <3>1 DEF LeaderOrder
    <3>3. s # r
      BY <1>1, <2>2, <3>1 DEF Slots
    <3> QED
      BY <3>2, <3>3
  <2> QED
    BY <2>1, <2>2
<1>9. Told' = Told /\ hist' = hist
  BY <1>1, ToldOf, ToldChange, ToldSame DEF InsertEntry, PC
<1>10. Order!Place(r, idx[r])
  BY <1>6, <1>7, <1>8, <1>9 DEF Order!Place, Order!Places, Idx
<1> QED
  BY <1>1, <1>10 DEF AbstractStep, Order!Next, Order!Places, Idx

\* The leader applies the operation in the next place and confirms it.
LEMMA RefineApplyOwn ==
    ASSUME IInv, NEW r \in Req, ApplyOwn(r)
    PROVE  AbstractStep
<1> USE DEF IInv
<1>1. at[r] = Boot /\ pc[r] = "committed" /\ log' = log
  BY DEF ApplyOwn, OneLeader
<1>2. CASE r \in Bad
  BY <1>1, <1>2, RefineRefuse DEF ApplyOwn
<1>3. CASE r \notin Bad
  <2>1. Told[r] = "pending" /\ Told' = [Told EXCEPT ![r] = "ok"]
    BY <1>1, <1>3, ToldOf, ToldChange DEF ApplyOwn, PC
  <2>2. idx[r] \in Idx /\ log[Boot][idx[r]] = <<r>>
    BY <1>1, IndexInLog DEF Slots, Started
  <2>3. Len(hist[Boot]) = idx[r] - 1
    <3>1. appliedIndex[Boot] >= idx[r] - 1 /\ appliedIndex[Boot] < idx[r]
      BY <1>1 DEF ApplyOwn, EarlierApplied, LeaderApplied
    <3>2. Len(hist[Boot]) = appliedIndex[Boot] /\ appliedIndex[Boot] \in 0..MaxIndex
      BY NodeAssumption DEF Applied, TypeOK
    <3> QED
      BY <2>2, <3>1, <3>2, BoundAssumption DEF Idx
  <2>4. Len(hist[Boot]) < MaxIndex /\ Len(hist[Boot]) + 1 = idx[r]
    BY <2>2, <2>3, BoundAssumption DEF Idx
  <2>5. LeaderOrder[idx[r]] = r
    <3>1. Head(<<r>>) = r
      OBVIOUS
    <3> QED
      BY <2>2, <3>1, OneIsNotEmpty DEF LeaderOrder, Present
  <2>6. LeaderOrder' = LeaderOrder
    BY <1>1 DEF LeaderOrder, Present
  <2>7. hist' = [hist EXCEPT ![Boot] = Append(@, r)]
    BY <1>1, <1>3 DEF ApplyOwn
  <2>8. Order!Confirm(r)
    BY <2>1, <2>4, <2>5, <2>6, <2>7 DEF Order!Confirm
  <2> QED
    BY <2>8 DEF AbstractStep, Order!Next
<1> QED
  BY <1>2, <1>3

\* A follower applies the places that follow what it has applied.
LEMMA RefineHandleApply ==
    ASSUME IInv, NEW m \in handling, FollowerApplies(m)
    PROVE  AbstractStep
<1> USE DEF IInv
<1> DEFINE n == m.to
           a == appliedIndex[n]
<1>1. n \in Node /\ n # Boot
  BY DEF TypeOK, AppendRequest, OneLeader, InFlight
<1>2. PICK end \in a..MaxIndex, k \in a..MaxIndex :
        /\ UnappliedUpTo(log[n], a, commitIndex[n], end)
        /\ k <= end
        /\ hist' = [hist EXCEPT ![n] = @ \o [i \in 1..(k - a) |-> Head(log[n][a + i])]]
  BY DEF FollowerApplies, ApplyLoop
<1>3. log' = log /\ pc' = pc
  BY DEF FollowerApplies
<1>4. a \in 0..MaxIndex /\ Len(hist[n]) = a /\ hist[n] \in Seq(Req)
  BY <1>1 DEF TypeOK, Applied
<1>5. \A i \in (a + 1)..k : Present(log[n], i) /\ i \in Idx
  BY <1>2, <1>4, BoundAssumption DEF UnappliedUpTo, Idx
<1>6. ASSUME NEW i \in (a + 1)..k
      PROVE  LeaderOrder[i] = Head(log[n][i]) /\ LeaderOrder[i] # NoReq
  <2>1. log[n][i] = log[Boot][i] /\ Present(log[Boot], i) /\ i \in Idx
    BY <1>1, <1>5 DEF Copies, Present
  <2>2. PICK r \in Req : log[Boot][i] = <<r>>
    BY <2>1 DEF Slots
  <2>3. Head(<<r>>) = r
    OBVIOUS
  <2> QED
    BY <2>1, <2>2, <2>3, ReqAssumption DEF LeaderOrder
<1>7. LeaderOrder' = LeaderOrder /\ Told' = Told
  BY <1>3 DEF LeaderOrder, Told, Present
<1>8. CASE k = a
  <2>1. [i \in 1..(k - a) |-> Head(log[n][a + i])] = <<>>
    BY <1>4, <1>8, BoundAssumption
  <2>2. hist[n] \o <<>> = hist[n]
    BY <1>4, ConcatEmptySeq
  <2>3. hist' = hist
    BY <1>2, <2>1, <2>2 DEF TypeOK
  <2> QED
    BY <1>3, <1>7, <2>3, HiddenStep
<1>9. CASE k # a
  <2>1. k \in 1..MaxIndex
    BY <1>4, <1>9, BoundAssumption
  <2>2. [i \in 1..(k - a) |-> Head(log[n][a + i])] = [i \in 1..(k - a) |-> LeaderOrder[a + i]]
    <3>1. \A i \in 1..(k - a) : a + i \in (a + 1)..k
      BY <1>4, <2>1, BoundAssumption
    <3> QED
      BY <1>6, <3>1
  <2>3. Order!Follow(n, k)
    BY <1>1, <1>2, <1>4, <1>6, <1>7, <2>2 DEF Order!Follow
  <2> QED
    BY <1>1, <2>1, <2>3 DEF AbstractStep, Order!Next, Order!Places
<1> QED
  BY <1>8, <1>9

\* The initial state maps to the initial state of TotalOrder.
LEMMA RefineInit == Init => Order!Init
<1> SUFFICES ASSUME Init PROVE Order!Init
  OBVIOUS
<1>1. LeaderOrder = [i \in Idx |-> NoReq]
  BY NodeAssumption DEF Init, LeaderOrder, Present, NoEntries
<1>2. Told = [r \in Req |-> "pending"]
  BY DEF Init, Told
<1> QED
  BY <1>1, <1>2 DEF Init, Order!Init, Order!Places, Idx

\* Every step maps to a step of TotalOrder or to none.
LEMMA RefineNext == IInv /\ [Next]_vars => AbstractStep
<1> SUFFICES ASSUME IInv, [Next]_vars PROVE AbstractStep
  OBVIOUS
<1> USE DEF IInv
<1>1. ASSUME NEW r \in Req, NEW n \in Node, AssignIndex(r, n) PROVE AbstractStep
  <2>1. Told' = Told
    BY <1>1, ToldOf, ToldChange, ToldSame DEF AssignIndex, PC
  <2> QED
    BY <1>1, <2>1, HiddenStep DEF AssignIndex
<1>2. ASSUME NEW r \in Req, QueueEntry(r) \/ StartReplication(r) \/ Commit(r)
      PROVE  AbstractStep
  <2>1. Told' = Told
    BY <1>2, ToldOf, ToldChange, ToldSame
       DEF QueueEntry, StartReplication, Commit, ReplicationReturned, PC
  <2> QED
    BY <1>2, <2>1, HiddenStep DEF QueueEntry, StartReplication, Commit, nodeVars
<1>3. ASSUME NEW r \in Req, SendNotice(r) \/ \E p \in Node : CallFails(r, p)
      PROVE  AbstractStep
  BY <1>3, HiddenStep DEF SendNotice, CallFails, Told, nodeVars, reqVars
<1>4. ASSUME NEW r \in Req, \/ ReplicationFails(r) \/ WalFlushFails(r)
                           \/ ClientDisconnects(r) \/ ApplyOwnCut(r)
      PROVE  AbstractStep
  BY <1>4, RefineRefuse DEF ReplicationFails, ReplicationReturned, WalFlushFails,
     ClientDisconnects, ApplyOwnCut, nodeVars
<1>5. ASSUME NEW m \in msgs, HandleAppend(m) PROVE AbstractStep
  <2>1. m.to # Boot
    BY DEF OneLeader, InFlight
  <2>2. log'[Boot] = log[Boot]
    BY <1>5, <2>1, NodeAssumption DEF HandleAppend, TypeOK
  <2> QED
    BY <1>5, <2>2, HiddenStep DEF HandleAppend, Told, reqVars
<1>6. CASE UNCHANGED vars
  BY <1>6, HiddenStep DEF vars, nodeVars, reqVars, Told
<1>7. ASSUME NEW n \in Node, NEW c \in Idx, Background(n, c) PROVE AbstractStep
  BY <1>7, HiddenStep DEF Background, CatchUp, SendBatch, Told, nodeVars, reqVars
<1> QED
  BY <1>1, <1>2, <1>3, <1>4, <1>5, <1>6, <1>7, RefineInsert, RefineApplyOwn, ApplyOrCut,
     RefineHandleApply
     DEF Next, RequestStep, Fault

\* Every behaviour of the write path, seen through the mapping, is one of
\* TotalOrder.
THEOREM Refinement == Spec => RefinesTotalOrder
<1>1. Spec => []IInv
  BY Invariance
<1>2. Init => Order!Init
  BY RefineInit
<1>3. IInv /\ [Next]_vars => [Order!Next]_(Order!vars)
  BY RefineNext DEF AbstractStep
<1> QED
  BY <1>1, <1>2, <1>3, PTL DEF Spec, RefinesTotalOrder, Order!Spec

----------------------------------------------------------------------------
(* What handlers wait for. *)

\* Every index that was handed out is that of a request.
Taken ==
    \A i \in 1..(nextIndex[Boot] - 1) : \E q \in Req : pc[q] # "idle" /\ idx[q] = i

\* The call to a follower that has not answered is under way.
CallsKept ==
    \A r \in Req : pc[r] = "replicating" =>
        \A p \in Peers(at[r]) \ replied[r] : \E m \in InFlight : m.req = r /\ m.to = p

\* A replication request tells its follower the index of its entry as committed.
Learned ==
    /\ \A m \in InFlight : m.req # NoReq => m.commit = idx[m.req]
    /\ \A m \in handling : m.commit <= commitIndex[m.to]
    /\ \A r \in Req : \A p \in acks[r] : idx[r] <= commitIndex[p]

WaitInv == Taken /\ CallsKept /\ Learned /\ AcksMeanApplied

\* What does not concern the requests under way keeps WaitInv: no request loses
\* its index, begins to replicate or is answered, no call is lost, and indexes of
\* nodes only grow.
LEMMA WaitKept ==
    ASSUME WaitInv, IInv, IInv', nextIndex' = nextIndex, UNCHANGED <<idx, acks, at>>,
           \A r \in Req : /\ pc'[r] # "idle" <=> pc[r] # "idle"
                          /\ pc'[r] = "replicating" => pc[r] = "replicating",
           \A r \in Req : replied[r] \subseteq replied'[r],
           InFlight \subseteq InFlight', handling' = handling,
           \A m \in InFlight' : m \in InFlight \/ m.req = NoReq,
           \A n \in Node : /\ commitIndex[n] <= commitIndex'[n]
                           /\ appliedIndex[n] <= appliedIndex'[n]
    PROVE  WaitInv'
<1>1. Taken'
  BY DEF WaitInv, Taken
<1>2. CallsKept'
  BY DEF WaitInv, CallsKept, Peers
<1>3. Learned'
  <2>1. \A m \in InFlight' : m.req # NoReq => m.commit = idx[m.req]
    BY DEF WaitInv, Learned
  <2>2. /\ commitIndex \in [Node -> 0..MaxIndex] /\ commitIndex' \in [Node -> 0..MaxIndex]
        /\ \A m \in handling : m.to \in Node /\ m.commit \in 0..MaxIndex
        /\ \A r \in Req : idx[r] \in 0..MaxIndex /\ acks[r] \subseteq Node
    BY DEF IInv, TypeOK, AppendRequest
  <2>3. \A m \in handling : m.commit <= commitIndex'[m.to]
    BY <2>2, BoundAssumption DEF WaitInv, Learned
  <2>4. \A r \in Req : \A p \in acks[r] : idx[r] <= commitIndex'[p]
    BY <2>2, BoundAssumption DEF WaitInv, Learned
  <2> QED BY <2>1, <2>3, <2>4 DEF Learned
<1>4. AcksMeanApplied'
  <2>1. /\ appliedIndex \in [Node -> 0..MaxIndex] /\ appliedIndex' \in [Node -> 0..MaxIndex]
        /\ \A r \in Req : idx[r] \in 0..MaxIndex
    BY DEF IInv, TypeOK
  <2> QED BY <2>1, BoundAssumption DEF WaitInv, AcksMeanApplied
<1> QED BY <1>1, <1>2, <1>3, <1>4 DEF WaitInv

\* No request has an index, and nothing is under way.
LEMMA WaitInit == Init => WaitInv
<1> SUFFICES ASSUME Init PROVE WaitInv
  OBVIOUS
<1>1. Taken
  BY NodeAssumption DEF Init, Taken
<1> QED BY <1>1 DEF Init, WaitInv, CallsKept, Learned, AcksMeanApplied, InFlight

\* A write that takes an index is the one that has it; nobody answered it yet.
LEMMA WaitAssignIndex ==
    ASSUME WaitInv, IInv, IInv', NEW r \in Req, NEW n \in Node, AssignIndex(r, n)
    PROVE  WaitInv'
<1>1. /\ pc \in [Req -> PC] /\ idx \in [Req -> 0..MaxIndex] /\ at \in [Req -> Node]
      /\ nextIndex \in [Node -> 1..(MaxIndex + 1)] /\ acks \in [Req -> SUBSET Node]
  BY DEF IInv, TypeOK
<1>2. n = Boot /\ pc[r] = "idle"
  BY DEF AssignIndex, IInv, OneLeader
<1>3. /\ nextIndex'[Boot] = nextIndex[Boot] + 1
      /\ pc'[r] = "indexed" /\ idx'[r] = nextIndex[Boot]
      /\ \A s \in Req : s # r => pc'[s] = pc[s] /\ idx'[s] = idx[s] /\ at'[s] = at[s]
      /\ UNCHANGED <<acks, replied, msgs, handling, commitIndex, appliedIndex>>
  BY <1>1, <1>2, NodeAssumption DEF AssignIndex, TakenIndex, netVars
<1>4. acks[r] = {} /\ \A m \in InFlight : m.req # r
  BY <1>2, ReqAssumption DEF IInv, Votes
<1>5. Taken'
  <2> SUFFICES ASSUME NEW i \in 1..(nextIndex'[Boot] - 1)
               PROVE  \E q \in Req : pc'[q] # "idle" /\ idx'[q] = i
    BY DEF Taken
  <2>1. nextIndex[Boot] \in Nat
    BY <1>1, NodeAssumption, BoundAssumption
  <2>2. CASE i = nextIndex[Boot]
    BY <1>3, <2>2
  <2>3. CASE i \in 1..(nextIndex[Boot] - 1)
    BY <1>2, <1>3, <2>3 DEF WaitInv, Taken
  <2> QED BY <1>3, <2>1, <2>2, <2>3
<1>6. CallsKept'
  BY <1>3 DEF WaitInv, CallsKept, InFlight, Peers
<1>7. Learned'
  <2>1. \A m \in InFlight' : m.req # NoReq => m.commit = idx'[m.req]
    <3>1. \A m \in InFlight : m.req \in Req \cup {NoReq}
      BY DEF IInv, TypeOK, AppendRequest, InFlight
    <3> QED BY <1>3, <1>4, <3>1 DEF WaitInv, Learned, InFlight
  <2>2. \A s \in Req : \A p \in acks[s] : idx'[s] <= commitIndex[p]
    BY <1>3, <1>4 DEF WaitInv, Learned
  <2> QED BY <1>3, <2>1, <2>2 DEF WaitInv, Learned
<1>8. AcksMeanApplied'
  <2> SUFFICES ASSUME NEW s \in Req, NEW p \in Node, pc'[s] # "idle",
                      \A q \in Req : pc'[q] # "idle" /\ idx'[q] <= idx'[s] => p \in acks[q]
               PROVE  appliedIndex[p] >= idx'[s]
    BY <1>3 DEF AcksMeanApplied
  <2>1. s # r
    BY <1>1, <1>3, <1>4, NodeAssumption, BoundAssumption
  <2>2. \A q \in Req : pc[q] # "idle" /\ idx[q] <= idx[s] => p \in acks[q]
    BY <1>2, <1>3, <2>1
  <2> QED BY <1>3, <2>1, <2>2 DEF WaitInv, AcksMeanApplied
<1> QED BY <1>5, <1>6, <1>7, <1>8 DEF WaitInv

\* The replication of a write is sent to every follower.
LEMMA WaitStartReplication ==
    ASSUME WaitInv, IInv, IInv', NEW r \in Req, StartReplication(r)
    PROVE  WaitInv'
<1>1. /\ pc \in [Req -> PC] /\ at[r] \in Node
      /\ pc[r] = "queued" /\ pc' = [pc EXCEPT ![r] = "replicating"]
      /\ UNCHANGED <<nextIndex, commitIndex, appliedIndex, at, idx, acks, replied, handling>>
  BY DEF StartReplication, nodeVars, IInv, TypeOK
<1> DEFINE Calls == {[req |-> r, from |-> at[r], to |-> p, entries |-> log[at[r]],
                      commit |-> idx[r]] : p \in Peers(at[r])}
<1>2. msgs' = msgs \cup Calls
  BY DEF StartReplication
<1>3. /\ \A m \in Calls : m.req = r /\ m.commit = idx[r]
      /\ \A p \in Peers(at[r]) : \E m \in Calls : m.req = r /\ m.to = p
      /\ InFlight' = InFlight \cup Calls
  <2>1. \A m \in Calls : m.req = r /\ m.commit = idx[r]
    OBVIOUS
  <2>2. ASSUME NEW p \in Peers(at[r]) PROVE \E m \in Calls : m.req = r /\ m.to = p
    <3>1. [req |-> r, from |-> at[r], to |-> p, entries |-> log[at[r]], commit |-> idx[r]] \in Calls
      OBVIOUS
    <3> QED BY <3>1
  <2>3. InFlight' = InFlight \cup Calls
    <3> HIDE DEF Calls
    <3> QED BY <1>1, <1>2 DEF InFlight
  <2> QED BY <2>1, <2>2, <2>3
<1> HIDE DEF Calls
<1>4. \A s \in Req : /\ pc'[s] # "idle" <=> pc[s] # "idle"
                     /\ s # r => pc'[s] = pc[s]
  BY <1>1
<1>5. Taken'
  BY <1>1, <1>4 DEF WaitInv, Taken
<1>6. CallsKept'
  BY <1>1, <1>3, <1>4 DEF WaitInv, CallsKept, Peers
<1>7. Learned'
  BY <1>1, <1>3 DEF WaitInv, Learned
<1>8. AcksMeanApplied'
  BY <1>1, <1>4 DEF WaitInv, AcksMeanApplied
<1> QED BY <1>5, <1>6, <1>7, <1>8 DEF WaitInv

\* The other steps of a request's handler, its faults, and the background task.
LEMMA WaitRequest ==
    ASSUME WaitInv, IInv, IInv', NEW r \in Req, RequestStep(r) \/ Fault(r)
    PROVE  WaitInv'
<1>1. /\ pc \in [Req -> PC] /\ replied \in [Req -> SUBSET Node] /\ at[r] \in Node
      /\ commitIndex \in [Node -> 0..MaxIndex] /\ appliedIndex \in [Node -> 0..MaxIndex]
      /\ \A s \in Req : lastSent[s] \in 0..MaxIndex /\ idx[s] \in 0..MaxIndex
  BY DEF IInv, TypeOK
<1>2. \A n \in Node : commitIndex[n] <= commitIndex[n] /\ appliedIndex[n] <= appliedIndex[n]
  BY <1>1, BoundAssumption
<1>3. CASE InsertEntry(r)
  BY <1>1, <1>2, <1>3, WaitKept DEF InsertEntry, netVars, InFlight
<1>4. CASE QueueEntry(r)
  BY <1>1, <1>2, <1>4, WaitKept DEF QueueEntry, nodeVars, InFlight
<1>5. CASE ReplicationFails(r)
  BY <1>1, <1>2, <1>5, WaitKept DEF ReplicationFails, ReplicationReturned, nodeVars, netVars, InFlight
<1>6. CASE WalFlushFails(r)
  BY <1>1, <1>2, <1>6, WaitKept DEF WalFlushFails, nodeVars, netVars, InFlight
<1>7. CASE ClientDisconnects(r)
  BY <1>1, <1>2, <1>7, WaitKept DEF ClientDisconnects, nodeVars, netVars, InFlight
<1>8. CASE ApplyOwnCut(r)
  BY <1>1, <1>2, <1>8, WaitKept DEF ApplyOwnCut, netVars, InFlight
<1>9. CASE \E p \in Node : CallFails(r, p)
  BY <1>1, <1>2, <1>9, WaitKept DEF CallFails, nodeVars, netVars, InFlight
<1>10. CASE Commit(r)
  <2>1. \A n \in Node : commitIndex[n] <= commitIndex'[n]
    BY <1>1, <1>10, BoundAssumption DEF Commit, Larger
  <2> QED BY <1>1, <1>2, <1>10, <2>1, WaitKept DEF Commit, ReplicationReturned, InFlight
<1>11. CASE ApplyOwn(r)
  <2>1. \A n \in Node : appliedIndex[n] <= appliedIndex'[n]
    BY <1>1, <1>11, BoundAssumption DEF ApplyOwn, Larger
  <2>2. \A s \in Req : /\ pc'[s] # "idle" <=> pc[s] # "idle"
                       /\ pc'[s] = "replicating" => pc[s] = "replicating"
    BY <1>1, <1>11 DEF ApplyOwn
  <2> QED BY <1>1, <1>2, <1>11, <2>1, <2>2, WaitKept DEF ApplyOwn, netVars, InFlight
<1>12. CASE SendNotice(r)
  BY <1>1, <1>2, <1>12, WaitKept DEF SendNotice, nodeVars, reqVars, InFlight
<1>13. CASE StartReplication(r)
  BY <1>13, WaitStartReplication
<1> QED BY <1>3, <1>4, <1>5, <1>6, <1>7, <1>8, <1>9, <1>10, <1>11, <1>12, <1>13
        DEF RequestStep, Fault

\* What the background task sends, nobody waits for.
LEMMA WaitBackground ==
    ASSUME WaitInv, IInv, IInv', NEW n \in Node, NEW c \in Idx, Background(n, c)
    PROVE  WaitInv'
<1>1. \A p \in Node : commitIndex[p] <= commitIndex[p] /\ appliedIndex[p] <= appliedIndex[p]
  <2>1. commitIndex \in [Node -> 0..MaxIndex] /\ appliedIndex \in [Node -> 0..MaxIndex]
    BY DEF IInv, TypeOK
  <2> QED BY <2>1, BoundAssumption
<1>2. /\ UNCHANGED <<nextIndex, commitIndex, appliedIndex, pc, at, idx, acks, replied, handling>>
      /\ msgs \subseteq msgs' /\ \A m \in msgs' \ msgs : m.req = NoReq
  <2>1. CASE SendBatch(n, c)
    BY <2>1 DEF SendBatch, nodeVars, reqVars
  <2>2. CASE \E p \in Node, k \in 0..MaxIndex : CatchUp(n, p, k, c)
    BY <2>2 DEF CatchUp, nodeVars, reqVars
  <2> QED BY <2>1, <2>2 DEF Background
<1> QED BY <1>1, <1>2, WaitKept DEF InFlight

\* A follower learns the commit index of a request when it merges the entries.
LEMMA WaitHandleAppend ==
    ASSUME WaitInv, IInv, IInv', NEW m \in msgs, HandleAppend(m)
    PROVE  WaitInv'
<1>1. /\ m.to \in Node /\ m.commit \in 0..MaxIndex
      /\ commitIndex \in [Node -> 0..MaxIndex] /\ appliedIndex \in [Node -> 0..MaxIndex]
      /\ \A x \in handling : x.to \in Node /\ x.commit \in 0..MaxIndex
      /\ \A s \in Req : idx[s] \in 0..MaxIndex /\ acks[s] \subseteq Node
  BY DEF IInv, TypeOK, AppendRequest
<1>2. /\ UNCHANGED <<nextIndex, appliedIndex, pc, at, idx, acks, replied>>
      /\ handling' = handling \cup {m} /\ InFlight' = InFlight
  BY DEF HandleAppend, reqVars, InFlight
<1>3. /\ \A p \in Node : commitIndex[p] <= commitIndex'[p]
      /\ m.commit <= commitIndex'[m.to]
      /\ \A p \in Node : commitIndex'[p] \in Nat
  BY <1>1, BoundAssumption DEF HandleAppend, Larger
<1>4. Taken'
  BY <1>2 DEF WaitInv, Taken
<1>5. CallsKept'
  BY <1>2 DEF WaitInv, CallsKept, Peers
<1>6. Learned'
  <2>1. \A x \in handling' : x.commit <= commitIndex'[x.to]
    BY <1>1, <1>2, <1>3, BoundAssumption DEF WaitInv, Learned
  <2>2. \A s \in Req : \A p \in acks[s] : idx[s] <= commitIndex'[p]
    BY <1>1, <1>3, BoundAssumption DEF WaitInv, Learned
  <2> QED BY <1>2, <2>1, <2>2 DEF WaitInv, Learned
<1>7. AcksMeanApplied'
  BY <1>2 DEF WaitInv, AcksMeanApplied
<1> QED BY <1>4, <1>5, <1>6, <1>7 DEF WaitInv

\* A follower that had merged a request of each write up to r, and heard of its
\* index as committed, applies all up to r if nothing fails.
LEMMA WaitHandleApply ==
    ASSUME WaitInv, IInv, IInv', NEW m \in handling, FollowerApplies(m)
    PROVE  WaitInv'
<1> DEFINE n == m.to
           a == appliedIndex[n]
<1>1. /\ n \in Node /\ n # Boot /\ m \in InFlight /\ m.req \in Req \cup {NoReq}
      /\ appliedIndex \in [Node -> 0..MaxIndex] /\ commitIndex \in [Node -> 0..MaxIndex]
      /\ acks \in [Req -> SUBSET Node] /\ replied \in [Req -> SUBSET Node]
      /\ \A s \in Req : idx[s] \in 0..MaxIndex /\ at[s] \in Node
  BY DEF IInv, TypeOK, AppendRequest, OneLeader, InFlight
<1>2. PICK end \in a..MaxIndex, k \in a..MaxIndex :
        /\ UnappliedUpTo(log[n], a, commitIndex[n], end)
        /\ ApplyLoop(n, k)
        /\ Answers(m, k = end)
  BY DEF FollowerApplies
<1>3. /\ UNCHANGED <<log, nextIndex, commitIndex, pc, at, idx, msgs>>
      /\ InFlight' \subseteq InFlight /\ handling' \subseteq handling
      /\ \A x \in InFlight : x # m => x \in InFlight'
  BY DEF FollowerApplies, InFlight
<1>4. /\ \A p \in Node : appliedIndex[p] <= appliedIndex'[p]
      /\ appliedIndex'[n] = k
  BY <1>1, <1>2, BoundAssumption DEF ApplyLoop
<1>5. /\ \A s \in Req : replied[s] \subseteq replied'[s]
      /\ m.req # NoReq => n \in replied'[m.req]
  BY <1>1, <1>2 DEF Answers
<1>6. ASSUME NEW s \in Req
      PROVE  \/ acks'[s] = acks[s]
             \/ s = m.req /\ m.req # NoReq /\ k = end /\ acks'[s] = acks[s] \cup {n}
  <2>1. CASE m.req = NoReq \/ n \in replied[m.req]
    BY <1>2, <2>1 DEF Answers
  <2>2. CASE ~(m.req = NoReq \/ n \in replied[m.req])
    <3>1. acks' = [acks EXCEPT ![m.req] = IF k = end THEN @ \cup {n} ELSE @]
      BY <1>2, <2>2 DEF Answers
    <3> QED BY <1>1, <2>2, <3>1
  <2> QED BY <2>1, <2>2
<1>7. Taken'
  BY <1>3 DEF WaitInv, Taken
<1>8. CallsKept'
  <2> SUFFICES ASSUME NEW r \in Req, pc'[r] = "replicating", NEW p \in Peers(at'[r]) \ replied'[r]
               PROVE  \E x \in InFlight' : x.req = r /\ x.to = p
    BY DEF CallsKept
  <2>1. PICK x \in InFlight : x.req = r /\ x.to = p
    BY <1>3, <1>5 DEF WaitInv, CallsKept, Peers
  <2>2. x # m
    BY <1>5, <2>1, ReqAssumption
  <2> QED BY <1>3, <2>1, <2>2
<1>9. Learned'
  <2>1. /\ \A x \in InFlight' : x.req # NoReq => x.commit = idx'[x.req]
        /\ \A x \in handling' : x.commit <= commitIndex'[x.to]
    BY <1>3 DEF WaitInv, Learned
  <2>2. ASSUME NEW s \in Req, NEW p \in acks'[s] PROVE idx[s] <= commitIndex[p]
    <3>1. CASE p \in acks[s]
      BY <3>1 DEF WaitInv, Learned
    <3>2. CASE p = n /\ s = m.req /\ m.req # NoReq
      BY <1>1, <3>2 DEF WaitInv, Learned
    <3> QED BY <1>6, <2>2, <3>1, <3>2
  <2> QED BY <1>3, <2>1, <2>2 DEF Learned
<1>10. AcksMeanApplied'
  <2> SUFFICES ASSUME NEW s \in Req, NEW p \in Node, pc[s] # "idle",
                      \A q \in Req : pc[q] # "idle" /\ idx[q] <= idx[s] => p \in acks'[q]
               PROVE  appliedIndex'[p] >= idx[s]
    BY <1>3 DEF AcksMeanApplied
  <2>1. /\ appliedIndex[p] \in Int /\ appliedIndex'[p] \in Int /\ a \in Nat
        /\ \A q \in Req : idx[q] \in Int
    <3>1. appliedIndex' \in [Node -> 0..MaxIndex]
      BY DEF IInv, TypeOK
    <3> QED BY <1>1, <3>1, BoundAssumption
  <2>2. CASE \A q \in Req : p \in acks'[q] => p \in acks[q]
    <3>1. appliedIndex[p] >= idx[s]
      BY <2>2 DEF WaitInv, AcksMeanApplied
    <3> QED BY <1>4, <2>1, <3>1
  <2>3. CASE p = n /\ k = end
    <3>1. SUFFICES ASSUME end < idx[s] PROVE FALSE
      BY <1>4, <2>1, <2>3, BoundAssumption
    <3>2. n \in acks'[s] /\ idx[s] <= commitIndex[n]
      <4>1. idx[s] <= idx[s]
        BY <2>1
      <4> QED BY <1>3, <1>9, <2>3, <4>1 DEF Learned
    <3>3. /\ idx[s] \in Idx /\ idx[s] < nextIndex[Boot] /\ end \in Nat
          /\ nextIndex[Boot] \in Nat /\ commitIndex[n] \in Int
      <4>1. idx[s] \in Idx /\ idx[s] < nextIndex[Boot]
        BY IndexInLog DEF IInv
      <4>2. nextIndex \in [Node -> 1..(MaxIndex + 1)]
        BY DEF IInv, TypeOK
      <4>3. nextIndex[Boot] \in Nat
        BY <4>2, NodeAssumption, BoundAssumption
      <4>4. end \in Nat
        BY <2>1, BoundAssumption
      <4>5. commitIndex[n] \in Int
        BY <1>1, BoundAssumption
      <4> QED BY <4>1, <4>3, <4>4, <4>5
    <3>4. end < commitIndex[n] /\ end < MaxIndex /\ end + 1 <= idx[s]
          /\ end + 1 \in 1..(nextIndex[Boot] - 1)
      BY <3>1, <3>2, <3>3, BoundAssumption DEF Idx
    <3>5. ~Present(log[n], end + 1)
      BY <1>2, <3>4 DEF UnappliedUpTo
    <3>6. PICK q \in Req : pc[q] # "idle" /\ idx[q] = end + 1
      BY <3>4 DEF WaitInv, Taken
    <3>7. n \in acks'[q]
      BY <2>3, <3>4, <3>6
    <3>8. log[n][end + 1] = <<q>>
      BY <1>3, <3>6, <3>7 DEF IInv, Votes
    <3> QED BY <3>5, <3>8, OneIsNotEmpty DEF Present
  <2> QED BY <1>6, <2>2, <2>3
<1> QED BY <1>7, <1>8, <1>9, <1>10 DEF WaitInv

\* WaitInv holds at the start and every step keeps it.
LEMMA WaitInvariant == Spec => [](IInv /\ WaitInv)
<1>1. IInv /\ WaitInv /\ [Next]_vars => WaitInv'
  <2> SUFFICES ASSUME IInv, WaitInv, [Next]_vars PROVE WaitInv'
    OBVIOUS
  <2>1. IInv'
    BY InvNext
  <2>2. CASE \E r \in Req, n \in Node : AssignIndex(r, n)
    BY <2>1, <2>2, WaitAssignIndex
  <2>3. CASE \E r \in Req : RequestStep(r) \/ Fault(r)
    BY <2>1, <2>3, WaitRequest
  <2>4. CASE \E n \in Node, c \in Idx : Background(n, c)
    BY <2>1, <2>4, WaitBackground
  <2>5. CASE \E m \in msgs : HandleAppend(m)
    BY <2>1, <2>5, WaitHandleAppend
  <2>6. CASE \E m \in handling : HandleApply(m) \/ HandleApplyCut(m)
    BY <2>1, <2>6, ApplyOrCut, WaitHandleApply
  <2>7. CASE UNCHANGED vars
    BY <2>7 DEF vars, nodeVars, reqVars, netVars, WaitInv, Taken, CallsKept, Learned,
       AcksMeanApplied, InFlight, Peers
  <2> QED BY <2>2, <2>3, <2>4, <2>5, <2>6, <2>7 DEF Next
<1> QED BY <1>1, InvInit, InvNext, WaitInit, PTL DEF Spec

\* A handler that waits for earlier writes waits for the one whose turn it is.
LEMMA InvWaits == IInv /\ WaitInv => NoCircularWait
<1> SUFFICES ASSUME IInv, WaitInv, NEW r \in Req, pc[r] \notin {"idle", "ok"},
                    ~Ended(r), ~Unblocked(r)
             PROVE  \E q \in Req : /\ idx[q] = appliedIndex[at[r]] + 1 /\ idx[q] < idx[r]
                                  /\ (Ended(q) \/ Unblocked(q))
  BY DEF NoCircularWait
<1>1. /\ \A s \in Req : at[s] = Boot /\ pc[s] \in PC /\ idx[s] \in Int
      /\ appliedIndex[Boot] \in Nat /\ nextIndex[Boot] \in Nat
  BY NodeAssumption, BoundAssumption DEF IInv, OneLeader, TypeOK
<1>2. \A s \in Req : pc[s] = "replicating" => Unblocked(s)
  BY DEF WaitInv, CallsKept, Unblocked, InFlight
<1>3. pc[r] = "committed" /\ ~EarlierApplied(r)
  BY <1>1, <1>2 DEF PC, Ended, Unblocked
<1>4. appliedIndex[Boot] + 1 < idx[r] /\ idx[r] < nextIndex[Boot]
  BY <1>1, <1>3, IndexInLog DEF EarlierApplied, IInv
<1>5. PICK q \in Req : pc[q] # "idle" /\ idx[q] = appliedIndex[Boot] + 1
  BY <1>1, <1>4 DEF WaitInv, Taken
<1>6. pc[q] # "ok"
  BY <1>1, <1>5 DEF IInv, LeaderApplied
<1>7. EarlierApplied(q)
  BY <1>1, <1>5 DEF EarlierApplied
<1>8. Ended(q) \/ Unblocked(q)
  BY <1>1, <1>2, <1>5, <1>6, <1>7 DEF PC, Ended, Unblocked
<1> QED BY <1>1, <1>4, <1>5, <1>8

\* A follower that answered a write and every earlier one with success has applied
\* it: what the leader may conclude from the answers (replicate_log_batch).
THEOREM SuccessesMeanApplied == Spec => []AcksMeanApplied
<1>1. WaitInv => AcksMeanApplied
  BY DEF WaitInv
<1> QED BY <1>1, WaitInvariant, PTL

\* The waits of the write path are for others, never in a circle: the handler that
\* waits for earlier writes waits for one that can go on, or that has ended.
THEOREM WaitsEndSomewhere == Spec => []NoCircularWait
  BY WaitInvariant, InvWaits, PTL

\* Where a wait has no end: a write that failed, or whose handler is gone, is not
\* applied by the leader, and no later one is ever confirmed (wait_for_apply).
THEOREM EndedBlocksLater ==
    Spec => [](\A q, r \in Req : Ended(q) /\ pc[r] = "ok" => idx[r] < idx[q])
<1>1. IInv => \A q, r \in Req : Ended(q) /\ pc[r] = "ok" => idx[r] < idx[q]
  <2> SUFFICES ASSUME IInv, NEW q \in Req, NEW r \in Req, Ended(q), pc[r] = "ok"
               PROVE  idx[r] < idx[q]
    OBVIOUS
  <2>1. idx[r] <= appliedIndex[Boot] /\ appliedIndex[Boot] < idx[q]
    BY DEF IInv, LeaderApplied, Ended
  <2>2. idx[r] \in Int /\ idx[q] \in Int /\ appliedIndex[Boot] \in Int
    BY NodeAssumption, BoundAssumption DEF IInv, TypeOK
  <2> QED BY <2>1, <2>2
<1> QED BY <1>1, Invariance, PTL

----------------------------------------------------------------------------
(* A cluster without faults. *)

\* No write ends without being applied, and every call that returned succeeded.
NoneEnded == \A r \in Req : ~Ended(r) /\ acks[r] = replied[r]

\* All followers are a majority of the rest.
LEMMA PeersSuffice == Cardinality(Peers(Boot)) >= NeededFromFollowers
<1>1. Cardinality(Node) \in Nat /\ Cardinality(Peers(Boot)) = Cardinality(Node) - 1
  BY NodeAssumption, FS_CardinalityType, FS_RemoveElement DEF Peers
<1> QED BY <1>1, NodeAssumption DEF NeededFromFollowers

\* Without faults every handler goes on, and every follower answers with success.
LEMMA NoneEndedNext ==
    ASSUME Faults = {}, Bad = {}, IInv, NoneEnded, [Next]_vars
    PROVE  NoneEnded'
<1>1. /\ pc \in [Req -> PC] /\ acks \in [Req -> SUBSET Node] /\ replied \in [Req -> SUBSET Node]
      /\ \A r \in Req : at[r] = Boot
  BY DEF IInv, TypeOK, OneLeader
<1>2. ASSUME NEW r \in Req, NEW n \in Node, AssignIndex(r, n) PROVE NoneEnded'
  BY <1>1, <1>2 DEF AssignIndex, NoneEnded, Ended
<1>3. ASSUME NEW r \in Req, RequestStep(r) PROVE NoneEnded'
  <2>1. CASE InsertEntry(r)
    BY <1>1, <2>1 DEF InsertEntry, NoneEnded, Ended
  <2>2. CASE QueueEntry(r)
    BY <1>1, <2>2 DEF QueueEntry, NoneEnded, Ended
  <2>3. CASE StartReplication(r)
    BY <1>1, <2>3 DEF StartReplication, NoneEnded, Ended
  <2>4. CASE Commit(r)
    BY <1>1, <2>4 DEF Commit, NoneEnded, Ended
  <2>5. CASE ReplicationFails(r)
    <3>1. acks[r] = Peers(Boot)
      BY <1>1, <2>5 DEF ReplicationFails, ReplicationReturned, NoneEnded
    <3> QED BY <2>5, <3>1, PeersSuffice DEF ReplicationFails, MajorityReached
  <2>6. CASE ApplyOwn(r)
    <3>1. pc' = [pc EXCEPT ![r] = "ok"] /\ UNCHANGED <<acks, replied>>
      BY <2>6 DEF ApplyOwn
    <3> QED BY <1>1, <3>1 DEF NoneEnded, Ended
  <2>7. CASE SendNotice(r)
    BY <2>7 DEF SendNotice, reqVars, NoneEnded, Ended
  <2> QED BY <1>3, <2>1, <2>2, <2>3, <2>4, <2>5, <2>6, <2>7 DEF RequestStep
<1>4. \A r \in Req : ~Fault(r)
  BY DEF Fault, WalFlushFails, ClientDisconnects, ApplyOwnCut, CallFails
<1>5. ASSUME NEW n \in Node, NEW c \in Idx, Background(n, c) PROVE NoneEnded'
  <2>1. UNCHANGED <<pc, acks, replied>>
    BY <1>5 DEF Background, SendBatch, CatchUp, reqVars
  <2> QED BY <2>1 DEF NoneEnded, Ended
<1>6. ASSUME NEW m \in msgs, HandleAppend(m) PROVE NoneEnded'
  BY <1>6 DEF HandleAppend, reqVars, NoneEnded, Ended
<1>7. ASSUME NEW m \in handling, HandleApply(m) PROVE NoneEnded'
  <2> DEFINE n == m.to
  <2>1. PICK end \in appliedIndex[n]..MaxIndex, k \in appliedIndex[n]..MaxIndex :
          /\ AppliesUpTo(log[n], appliedIndex[n], end, k)
          /\ IF m.req = NoReq \/ n \in replied[m.req]
             THEN UNCHANGED <<replied, acks>>
             ELSE /\ replied' = [replied EXCEPT ![m.req] = @ \cup {n}]
                  /\ acks' = [acks EXCEPT ![m.req] = IF k = end THEN @ \cup {n} ELSE @]
    BY <1>7 DEF HandleApply
  <2>2. k = end
    <3>1. n \in Node
      BY DEF IInv, TypeOK, AppendRequest
    <3>2. appliedIndex[n] \in Int /\ MaxIndex \in Int
      BY <3>1, BoundAssumption DEF IInv, TypeOK
    <3> QED BY <2>1, <3>2 DEF AppliesUpTo
  <2>3. \A r \in Req : acks'[r] = replied'[r]
    BY <1>1, <2>1, <2>2 DEF NoneEnded
  <2>4. pc' = pc
    BY <1>7 DEF HandleApply
  <2> QED BY <2>3, <2>4 DEF NoneEnded, Ended
<1>8. \A m \in handling : ~HandleApplyCut(m)
  BY DEF HandleApplyCut
<1>9. CASE UNCHANGED vars
  BY <1>9 DEF vars, reqVars, NoneEnded, Ended
<1> QED BY <1>2, <1>3, <1>4, <1>5, <1>6, <1>7, <1>8, <1>9 DEF Next

\* A confirmed write and all before it were answered by every follower.
AppliedEverywhere(r) == \A n \in Node : appliedIndex[n] >= idx[r]

LEMMA InvEverywhere ==
    ASSUME IInv, WaitInv, NoneEnded, NEW r \in Req, pc[r] = "ok"
    PROVE  AppliedEverywhere(r)
<1>1. /\ \A q \in Req : idx[q] \in Int
      /\ \A n \in Node : appliedIndex[n] \in Int
      /\ Boot \in Node
  BY NodeAssumption, BoundAssumption DEF IInv, TypeOK
<1>2. idx[r] <= appliedIndex[Boot]
  BY DEF IInv, LeaderApplied
<1>3. ASSUME NEW n \in Node, n # Boot PROVE appliedIndex[n] >= idx[r]
  <2>1. ASSUME NEW q \in Req, pc[q] # "idle", idx[q] <= idx[r] PROVE n \in acks[q]
    <3>1. pc[q] = "ok"
      BY <1>1, <1>2, <2>1 DEF IInv, LeaderApplied
    <3>2. acks[q] = Peers(Boot)
      BY <3>1 DEF IInv, Votes, NoneEnded
    <3> QED BY <1>3, <3>2 DEF Peers
  <2> QED BY <2>1 DEF WaitInv, AcksMeanApplied
<1>4. appliedIndex[Boot] >= idx[r]
  BY <1>1, <1>2
<1> QED BY <1>3, <1>4 DEF AppliedEverywhere

NoneLost == \A r \in Req : ~Ended(r) /\ (pc[r] = "ok" => AppliedEverywhere(r))

\* Without faults no write ends in an error, and a client that is told of success
\* finds its write in the models of every node.
THEOREM ConfirmedIsEverywhere ==
    ASSUME Faults = {}, Bad = {}
    PROVE  Spec => []NoneLost
<1>1. Init => NoneEnded
  BY DEF Init, NoneEnded, Ended
<1>2. IInv /\ NoneEnded /\ [Next]_vars => NoneEnded'
  BY NoneEndedNext
<1>3. IInv /\ WaitInv /\ NoneEnded => NoneLost
  BY InvEverywhere DEF NoneLost, NoneEnded
<1> QED BY <1>1, <1>2, <1>3, WaitInvariant, PTL DEF Spec

\* So followers converge: what leads to is what already is.
THEOREM Convergence ==
    ASSUME Faults = {}, Bad = {}
    PROVE  Spec => FollowersConverge
<1>1. Spec => []NoneLost
  BY ConfirmedIsEverywhere
<1>2. ASSUME NEW r \in Req
      PROVE  Spec => (pc[r] = "ok" ~> \A n \in Node : appliedIndex[n] >= idx[r])
  <2>1. NoneLost => (pc[r] = "ok" => \A n \in Node : appliedIndex[n] >= idx[r])
    BY DEF NoneLost, AppliedEverywhere
  <2> QED BY <1>1, <2>1, PTL
<1> QED BY <1>2 DEF FollowersConverge
=============================================================================
