--------------------------- MODULE ReplicatedLog ---------------------------
(***************************************************************************)
(* The write path of a Lithair cluster under a stable leader: concurrent   *)
(* HTTP write handlers on the leader (app/mod.rs, handle_model_request),   *)
(* the in-memory consensus log of every node (cluster/consensus_log.rs),   *)
(* and the /_raft/append handler on the followers.                         *)
(*                                                                         *)
(* A log is the code's Vec<LogEntry>, sorted by LogId = (term, index).  No *)
(* call in the program raises a term (increment_term has no caller), so a  *)
(* LogId is its index, and the Vec is a function from indices to slots: a  *)
(* slot is the sequence of the entries that carry this index, in Vec order *)
(* (ConsensusLog::append does not look for an existing id).  An operation  *)
(* is identified with the client request that carries it.                  *)
(***************************************************************************)
EXTENDS Integers, Sequences, FiniteSets

CONSTANTS
    Node,       \* the cluster: the leader and its cluster_peers
    Boot,       \* the node that starts as leader (node_id 0)
    Req,        \* client write requests, each carrying one CRUD operation
    Bad,        \* operations no model can deserialize: applying them fails
    NoReq,      \* the request of a message that nobody waits for
    Faults,     \* which of "net", "wal" and "client" may fail in a run
    MaxIndex,   \* bound: highest log index a run allocates
    MaxSends    \* bound: rounds of the background replication task

ASSUME NodeAssumption == IsFiniteSet(Node) /\ Boot \in Node /\ Cardinality(Node) > 1
ASSUME ReqAssumption == Bad \subseteq Req /\ NoReq \notin Req
ASSUME FaultAssumption == Faults \subseteq {"net", "wal", "client"}
ASSUME BoundAssumption == MaxIndex \in Nat /\ MaxSends \in Nat

VARIABLES
    log,            \* ConsensusLog.entries of each node, as slots
    nextIndex,      \* ConsensusLog.next_index
    commitIndex,    \* ConsensusLog.commit_index
    appliedIndex,   \* ConsensusLog.applied_index
    hist,           \* history: the operations each node has applied and marked
    half,           \* the operation a dropped handler left applied, not marked
    isLeader,       \* RaftLeadershipState.is_leader
    pc,             \* where each request's handler stands
    at,             \* the node that runs the handler of a request
    idx,            \* entry_index of a request's log entry
    lastSent,       \* index of entries.last() in what a request replicated
    acks,           \* followers whose answer to a request was a success
    replied,        \* followers whose call has returned, failed calls included
    msgs,           \* /_raft/append requests under way
    handling,       \* /_raft/append handlers between append_entries and apply
    notices,        \* requests whose spawned commit notification is not sent yet
    batch,          \* requests in the immediate_batch of each node's batcher
    sends           \* rounds of the background replication task so far

nodeVars == <<log, nextIndex, commitIndex, appliedIndex, hist, half, isLeader>>
reqVars  == <<pc, at, idx, lastSent, acks, replied>>
netVars  == <<msgs, handling, notices, batch, sends>>
vars     == <<nodeVars, reqVars, netVars>>

Idx  == 1..MaxIndex
Log  == [Idx -> Seq(Req)]
NoEntries == [i \in Idx |-> <<>>]
AppendRequest == [req : Req \cup {NoReq}, from : Node, to : Node,
                  entries : Log, commit : 0..MaxIndex]
PC == {"idle", "indexed", "inserted", "queued", "replicating", "committed",
       "ok", "failed", "gone"}

Latest(a, b) == b
Larger(a, b) == IF a >= b THEN a ELSE b     \* AtomicU64::fetch_max
Peers(n) == Node \ {n}                      \* cluster_peers

OneTooFew == (Cardinality(Node) \div 2) - 1

\* total_nodes / 2 + 1, less the leader's own vote.
NeededFromFollowers == Cardinality(Node) \div 2

----------------------------------------------------------------------------
(* The consensus log. *)

Present(entries, i) == entries[i] # <<>>

\* k is the index of the last entry of a log, 0 if there is none (last_index).
IsLast(entries, k) ==
    /\ k > 0 => Present(entries, k)
    /\ \A i \in Idx : Present(entries, i) => i <= k

MergeAtTail(entries, new) ==
    [i \in Idx |-> IF ~Present(new, i) \/ \E j \in Idx : j >= i /\ Present(entries, j)
                   THEN entries[i]
                   ELSE <<Head(new[i])>>]

\* append_entries: an entry whose id the log already has is dropped, any other
\* goes to its place; a request with two entries of one id inserts the first.
Merge(entries, new) ==
    [i \in Idx |-> IF Present(entries, i) \/ ~Present(new, i)
                   THEN entries[i]
                   ELSE <<Head(new[i])>>]

\* get_unapplied_entries returns the entries after applied up to end: those up
\* to committed, stopping at the first gap.
UnappliedUpTo(entries, applied, committed, end) ==
    /\ \A i \in (applied + 1)..end : i <= committed /\ Present(entries, i)
    /\ end < committed /\ end < MaxIndex => ~Present(entries, end + 1)

AppliesAll(entries, applied, end, k) == k = end

\* The apply loop gets through those entries up to k: it stops at the first
\* operation that fails.
AppliesUpTo(entries, applied, end, k) ==
    /\ k <= end
    /\ \A i \in (applied + 1)..k : Head(entries[i]) \notin Bad
    /\ k < end => Head(entries[k + 1]) \in Bad

----------------------------------------------------------------------------
Init ==
    /\ log = [n \in Node |-> NoEntries]
    /\ nextIndex = [n \in Node |-> 1]
    /\ commitIndex = [n \in Node |-> 0]
    /\ appliedIndex = [n \in Node |-> 0]
    /\ hist = [n \in Node |-> <<>>]
    /\ half = [n \in Node |-> NoReq]
    /\ isLeader = [n \in Node |-> n = Boot]
    /\ pc = [r \in Req |-> "idle"]
    /\ at = [r \in Req |-> Boot]
    /\ idx = [r \in Req |-> 0]
    /\ lastSent = [r \in Req |-> 0]
    /\ acks = [r \in Req |-> {}]
    /\ replied = [r \in Req |-> {}]
    /\ msgs = {}
    /\ handling = {}
    /\ notices = {}
    /\ batch = [n \in Node |-> {}]
    /\ sends = 0

(* The leader's handler of a write request. *)

AfterIncrement(n) == nextIndex[n] + 1
TakenIndex(n) == nextIndex[n]       \* fetch_add returns the value before

AssignIndexUnreserved(r, n) ==
    /\ pc[r] = "idle"
    /\ isLeader[n]
    /\ nextIndex[n] <= MaxIndex
    /\ pc' = [pc EXCEPT ![r] = "indexed"]
    /\ at' = [at EXCEPT ![r] = n]
    /\ idx' = [idx EXCEPT ![r] = TakenIndex(n)]
    /\ UNCHANGED <<nextIndex, log, commitIndex, appliedIndex, hist, half, isLeader,
                   lastSent, acks, replied, netVars>>

\* A write reaches a leader and takes the next index (fetch_add in
\* ConsensusLog::append).  Any other node answers 307 and changes nothing.
AssignIndex(r, n) ==
    /\ pc[r] = "idle"
    /\ isLeader[n]
    /\ nextIndex[n] <= MaxIndex
    /\ pc' = [pc EXCEPT ![r] = "indexed"]
    /\ at' = [at EXCEPT ![r] = n]
    /\ idx' = [idx EXCEPT ![r] = TakenIndex(n)]
    /\ nextIndex' = [nextIndex EXCEPT ![n] = @ + 1]
    /\ UNCHANGED <<log, commitIndex, appliedIndex, hist, half, isLeader,
                   lastSent, acks, replied, netVars>>

\* The rest of ConsensusLog::append, once the write lock on entries is held:
\* handlers may come here in another order than they took their indices.
InsertEntry(r) ==
    /\ pc[r] = "indexed"
    /\ log' = [log EXCEPT ![at[r]][idx[r]] = Append(@, r)]
    /\ pc' = [pc EXCEPT ![r] = "inserted"]
    /\ UNCHANGED <<nextIndex, commitIndex, appliedIndex, hist, half, isLeader,
                   at, idx, lastSent, acks, replied, netVars>>

\* queue_entry: the background replication task will send the entry, too.
QueueEntry(r) ==
    /\ pc[r] = "inserted"
    /\ batch' = [batch EXCEPT ![at[r]] = @ \cup {r}]
    /\ pc' = [pc EXCEPT ![r] = "queued"]
    /\ UNCHANGED <<nodeVars, at, idx, lastSent, acks, replied,
                   msgs, handling, notices, sends>>

\* All entries of the log go to every follower, with this request's index as
\* leader_commit: followers may apply the entry before any of them answers.
StartReplication(r) ==
    LET n == at[r] IN
    /\ pc[r] = "queued"
    /\ msgs' = msgs \cup
         {[req |-> r, from |-> n, to |-> p, entries |-> log[n], commit |-> idx[r]] :
             p \in Peers(n)}
    /\ \E k \in 0..MaxIndex : /\ IsLast(log[n], k)
                             /\ lastSent' = [lastSent EXCEPT ![r] = k]
    /\ pc' = [pc EXCEPT ![r] = "replicating"]
    /\ UNCHANGED <<nodeVars, at, idx, acks, replied, handling, notices, batch, sends>>

\* A call to a follower fails or times out on the leader's side; the request
\* may still arrive later.  A follower skipped as desynced counts as failed.
CallFails(r, p) ==
    /\ "net" \in Faults
    /\ pc[r] = "replicating"
    /\ p \in Peers(at[r]) \ replied[r]
    /\ replied' = [replied EXCEPT ![r] = @ \cup {p}]
    /\ UNCHANGED <<nodeVars, pc, at, idx, lastSent, acks, netVars>>

ReplicationReturned(r) == pc[r] = "replicating" /\ replied[r] = Peers(at[r])
MajorityReached(r) == Cardinality(acks[r]) >= NeededFromFollowers

\* Both futures of the join! are done, the WAL write succeeded and a majority
\* answered: commit up to the last entry that was sent, spawn the notification.
Commit(r) ==
    LET n == at[r] IN
    /\ ReplicationReturned(r)
    /\ MajorityReached(r)
    /\ commitIndex' = [commitIndex EXCEPT ![n] = Larger(@, lastSent[r])]
    /\ notices' = notices \cup {r}
    /\ pc' = [pc EXCEPT ![r] = "committed"]
    /\ UNCHANGED <<log, nextIndex, appliedIndex, hist, half, isLeader,
                   at, idx, lastSent, acks, replied, msgs, handling, batch, sends>>

\* 503: no majority answered with success.
ReplicationFails(r) ==
    /\ ReplicationReturned(r)
    /\ ~MajorityReached(r)
    /\ pc' = [pc EXCEPT ![r] = "failed"]
    /\ UNCHANGED <<nodeVars, at, idx, lastSent, acks, replied, netVars>>

\* A failed flush drops its batch without notifying the waiters, so the WAL
\* half of the join! never ends: the handler hangs (WriteAheadLog::flush).  The
\* 503 for a WAL error needs group commit to be off, which no caller asks for.
WalFlushFails(r) ==
    /\ "wal" \in Faults
    /\ pc[r] = "replicating"
    /\ pc' = [pc EXCEPT ![r] = "gone"]
    /\ UNCHANGED <<nodeVars, at, idx, lastSent, acks, replied, netVars>>

\* The client closes its connection: hyper drops the handler's future at the
\* await it stands at.  The calls to the followers are spawned and go on.
ClientDisconnects(r) ==
    /\ "client" \in Faults
    /\ pc[r] \in {"indexed", "inserted", "queued", "replicating", "committed"}
    /\ pc' = [pc EXCEPT ![r] = "gone"]
    /\ UNCHANGED <<nodeVars, at, idx, lastSent, acks, replied, netVars>>

\* The spawned task reads the log when it runs, not when it is spawned.
SendNotice(r) ==
    LET n == at[r] IN
    /\ r \in notices
    /\ notices' = notices \ {r}
    /\ msgs' = msgs \cup
         {[req |-> NoReq, from |-> n, to |-> p, entries |-> log[n],
           commit |-> lastSent[r]] : p \in Peers(n)}
    /\ UNCHANGED <<nodeVars, reqVars, handling, batch, sends>>

(* The leader's background replication task. *)

\* Catch-up: follower p gets the entries after the index k that it is believed
\* to have, with a commit index c that may be older than the entries.
After(entries, k) == [i \in Idx |-> IF i > k THEN entries[i] ELSE <<>>]

CatchUp(n, p, k, c) ==
    /\ sends < MaxSends
    /\ isLeader[n] /\ p \in Peers(n)
    /\ k > 0 => Present(log[p], k)
    /\ k < c /\ c <= commitIndex[n]
    /\ After(log[n], k) # NoEntries
    /\ msgs' = msgs \cup {[req |-> NoReq, from |-> n, to |-> p,
                           entries |-> After(log[n], k), commit |-> c]}
    /\ sends' = sends + 1
    /\ UNCHANGED <<nodeVars, reqVars, handling, notices, batch>>

\* The queued entries go to every follower, with the largest index among them
\* as leader_commit, whether or not a majority has them.
QueuedEntries(n) ==
    [i \in Idx |-> IF \E r \in batch[n] : idx[r] = i THEN log[n][i] ELSE <<>>]

SendBatch(n, c) ==
    /\ sends < MaxSends
    /\ isLeader[n]
    /\ \E r \in batch[n] : idx[r] = c
    /\ \A r \in batch[n] : idx[r] <= c
    /\ msgs' = msgs \cup
         {[req |-> NoReq, from |-> n, to |-> p, entries |-> QueuedEntries(n),
           commit |-> c] : p \in Peers(n)}
    /\ batch' = [batch EXCEPT ![n] = {}]
    /\ sends' = sends + 1
    /\ UNCHANGED <<nodeVars, reqVars, handling, notices>>

Background(n, c) ==
    \/ SendBatch(n, c)
    \/ \E p \in Node, k \in 0..MaxIndex : CatchUp(n, p, k, c)

\* The handler waits, without a timeout, until every earlier entry is applied,
\* then applies its own operation under the apply lock.  An operation that
\* fails answers 500 and leaves applied_index alone.
NoWait(r) == TRUE
WaitForOwn(r) == appliedIndex[at[r]] >= idx[r]
EarlierApplied(r) == appliedIndex[at[r]] >= idx[r] - 1

ApplyOwnUnmarked(r) ==
    /\ pc[r] = "committed"
    /\ EarlierApplied(r)
    /\ pc' = [pc EXCEPT ![r] = IF r \in Bad THEN "failed" ELSE "ok"]
    /\ hist' = [hist EXCEPT ![at[r]] = IF r \in Bad THEN @ ELSE Append(@, r)]
    /\ UNCHANGED <<appliedIndex, half, log, nextIndex, commitIndex, isLeader,
                   at, idx, lastSent, acks, replied, netVars>>

ApplyOwn(r) ==
    LET n == at[r] IN
    /\ pc[r] = "committed"
    /\ EarlierApplied(r)
    /\ IF r \in Bad
       THEN /\ pc' = [pc EXCEPT ![r] = "failed"]
            /\ UNCHANGED <<hist, appliedIndex>>
       ELSE /\ pc' = [pc EXCEPT ![r] = "ok"]
            /\ hist' = [hist EXCEPT ![n] = Append(@, r)]
            /\ appliedIndex' = [appliedIndex EXCEPT ![n] = Larger(@, idx[r])]
    /\ UNCHANGED <<log, nextIndex, commitIndex, half, isLeader,
                   at, idx, lastSent, acks, replied, netVars>>

\* The client closes its connection while the handler, its operation already in
\* the model's storage, waits for the lock of the event store.
ApplyOwnCut(r) ==
    /\ "client" \in Faults
    /\ pc[r] = "committed" /\ r \notin Bad
    /\ EarlierApplied(r)
    /\ pc' = [pc EXCEPT ![r] = "gone"]
    /\ half' = [half EXCEPT ![at[r]] = r]
    /\ UNCHANGED <<log, nextIndex, commitIndex, appliedIndex, hist, isLeader,
                   at, idx, lastSent, acks, replied, netVars>>

(* The follower's handler of POST /_raft/append. *)

\* append_entries, under the write lock on entries.
HandleAppend(m) ==
    LET n == m.to IN
    /\ m \in msgs
    /\ log' = [log EXCEPT ![n] = Merge(@, m.entries)]
    /\ commitIndex' = [commitIndex EXCEPT ![n] = Larger(@, m.commit)]
    /\ msgs' = msgs \ {m}
    /\ handling' = handling \cup {m}
    /\ UNCHANGED <<nextIndex, appliedIndex, hist, half, isLeader, reqVars, notices, batch, sends>>

\* The apply loop, under the apply lock: the entries up to k are applied and
\* marked.  Applying again what was left unmarked changes nothing in the models.
ApplyLoop(n, k) ==
    /\ appliedIndex' = [appliedIndex EXCEPT ![n] = k]
    /\ hist' = [hist EXCEPT ![n] =
                  @ \o [i \in 1..(k - appliedIndex[n]) |->
                          Head(log[n][appliedIndex[n] + i])]]

\* The whole loop, and the answer, which the leader counts unless its call has
\* already failed.
HandleApply(m) ==
    LET n == m.to IN
    /\ m \in handling
    /\ handling' = handling \ {m}
    /\ \E end, k \in appliedIndex[n]..MaxIndex :
         /\ UnappliedUpTo(log[n], appliedIndex[n], commitIndex[n], end)
         /\ AppliesUpTo(log[n], appliedIndex[n], end, k)
         /\ ApplyLoop(n, k)
         /\ half' = [half EXCEPT ![n] = IF k > appliedIndex[n] THEN NoReq ELSE @]
         /\ IF m.req = NoReq \/ n \in replied[m.req]
            THEN UNCHANGED <<replied, acks>>
            ELSE /\ replied' = [replied EXCEPT ![m.req] = @ \cup {n}]
                 /\ acks' = [acks EXCEPT ![m.req] = IF k = end THEN @ \cup {n} ELSE @]
    /\ UNCHANGED <<log, nextIndex, commitIndex, isLeader,
                   pc, at, idx, lastSent, msgs, notices, batch, sends>>

\* The caller has timed out and closed the connection: hyper drops the handler
\* while entry k + 1 is in the model's storage and not yet marked.
HandleApplyCut(m) ==
    LET n == m.to IN
    /\ "net" \in Faults
    /\ m \in handling
    /\ m.req # NoReq => n \in replied[m.req]
    /\ handling' = handling \ {m}
    /\ \E end, k \in appliedIndex[n]..MaxIndex :
         /\ UnappliedUpTo(log[n], appliedIndex[n], commitIndex[n], end)
         /\ k < end /\ \A i \in (appliedIndex[n] + 1)..(k + 1) : Head(log[n][i]) \notin Bad
         /\ ApplyLoop(n, k)
         /\ half' = [half EXCEPT ![n] = Head(log[n][k + 1])]
    /\ UNCHANGED <<log, nextIndex, commitIndex, isLeader, reqVars,
                   msgs, notices, batch, sends>>

RequestStep(r) ==
    \/ InsertEntry(r)
    \/ QueueEntry(r)
    \/ StartReplication(r)
    \/ Commit(r)
    \/ ReplicationFails(r)
    \/ ApplyOwn(r)
    \/ SendNotice(r)

Fault(r) ==
    \/ WalFlushFails(r)
    \/ ClientDisconnects(r)
    \/ ApplyOwnCut(r)
    \/ \E p \in Node : CallFails(r, p)

Next ==
    \/ \E r \in Req, n \in Node : AssignIndex(r, n)
    \/ \E r \in Req : RequestStep(r) \/ Fault(r)
    \/ \E n \in Node, c \in Idx : Background(n, c)
    \/ \E m \in msgs : HandleAppend(m)
    \/ \E m \in handling : HandleApply(m) \/ HandleApplyCut(m)

Spec == Init /\ [][Next]_vars

\* A handler is a tokio task: it takes its next step when it can.  So does the
\* transport with a request that is under way.  Clients and faults owe nothing.
Fairness ==
    /\ \A r \in Req : WF_vars(RequestStep(r))
    /\ WF_vars(\E m \in msgs : HandleAppend(m))
    /\ WF_vars(\E m \in handling : HandleApply(m))

FairSpec == Spec /\ Fairness

----------------------------------------------------------------------------
(* Properties. *)

TypeOK ==
    /\ log \in [Node -> Log]
    /\ nextIndex \in [Node -> 1..(MaxIndex + 1)]
    /\ commitIndex \in [Node -> 0..MaxIndex]
    /\ appliedIndex \in [Node -> 0..MaxIndex]
    /\ hist \in [Node -> Seq(Req)]
    /\ half \in [Node -> Req \cup {NoReq}]
    /\ isLeader \in [Node -> BOOLEAN]
    /\ pc \in [Req -> PC]
    /\ at \in [Req -> Node]
    /\ idx \in [Req -> 0..MaxIndex]
    /\ lastSent \in [Req -> 0..MaxIndex]
    /\ acks \in [Req -> SUBSET Node]
    /\ replied \in [Req -> SUBSET Node]
    /\ msgs \subseteq AppendRequest
    /\ handling \subseteq AppendRequest
    /\ notices \subseteq Req
    /\ batch \in [Node -> SUBSET Req]
    /\ sends \in 0..MaxSends

\* State machine safety: no two nodes' models have applied different operations
\* at the same place, whatever the order in which handlers took the locks and
\* /_raft/append requests arrived, and an operation that a dropped handler left
\* in the models is the one that is applied next, if any is.
AppliedAt(n, i, r) ==
    \/ i <= Len(hist[n]) /\ hist[n][i] = r
    \/ i = Len(hist[n]) + 1 /\ half[n] = r

Agreement ==
    \A m, n \in Node, i \in Idx, r, s \in Req :
        AppliedAt(m, i, r) /\ AppliedAt(n, i, s) => r = s

\* A write that was answered 200 or 201 is in the logs of a majority, under the
\* index its client was given, and the leader has applied it at that place.
Holders(r) == {n \in Node : log[n][idx[r]] = <<r>>}

AckedIsReplicated ==
    \A r \in Req : pc[r] = "ok" =>
        /\ 2 * Cardinality(Holders(r)) > Cardinality(Node)
        /\ idx[r] <= Len(hist[at[r]])
        /\ hist[at[r]][idx[r]] = r

\* The loop that waits for earlier entries to be committed never waits, and the
\* 503 it gives after five seconds is never sent: a handler that gets there has
\* just raised commit_index to its own entry or beyond.
CommitWaitIsVacuous ==
    \A r \in Req : pc[r] = "committed" => commitIndex[at[r]] >= idx[r]

\* Nobody waits for nobody, and no two handlers for each other, although a handler
\* waits for followers and for earlier writes: a write under way can go on, or its
\* calls to the followers that have not answered are on their way or being handled,
\* or it waits for the write whose turn it is to be applied.  That one is before it,
\* and is not waiting itself; or it ended without being applied, and then the wait
\* has no end (CommittedWillApply).
Ended(r) == pc[r] \in {"failed", "gone"}

Unblocked(r) ==
    \/ pc[r] \in {"indexed", "inserted", "queued"}
    \/ /\ pc[r] = "replicating"
       /\ \A p \in Peers(at[r]) \ replied[r] :
            \E m \in msgs \cup handling : m.req = r /\ m.to = p
    \/ pc[r] = "committed" /\ EarlierApplied(r)

NoCircularWait ==
    \A r \in Req : pc[r] \notin {"idle", "ok"} =>
        \/ Ended(r) \/ Unblocked(r)
        \/ \E q \in Req : /\ idx[q] = appliedIndex[at[r]] + 1 /\ idx[q] < idx[r]
                          /\ Ended(q) \/ Unblocked(q)

\* No node's applied_index passes an operation that fails to apply, although
\* mark_applied takes the maximum and every handler of a later entry calls it:
\* the models never silently miss a write that others may yet depend on.
FailedStaysUnmarked ==
    \A n \in Node, r \in Bad : pc[r] # "idle" => appliedIndex[n] < idx[r]

\* The refinement mapping: the order is the leader's log, and a client that got
\* an error, or nothing, was refused.
LeaderOrder ==
    [i \in Idx |-> IF Present(log[Boot], i) THEN Head(log[Boot][i]) ELSE NoReq]

Told == [r \in Req |-> CASE pc[r] = "ok" -> "ok"
                         [] pc[r] \in {"failed", "gone"} -> "refused"
                         [] OTHER -> "pending"]

Order == INSTANCE TotalOrder WITH
    Leader <- Boot, order <- LeaderOrder, applied <- hist, status <- Told

\* The write path implements TotalOrder: whatever copies of its log are on
\* their way or in the followers, all nodes apply the leader's order.
RefinesTotalOrder == Order!Spec

\* Without faults every write that took an index is applied and confirmed, even
\* when handlers overtake each other between taking an index and the log's lock.
EveryWriteConfirmed == \A r \in Req : pc[r] = "indexed" ~> pc[r] = "ok"

\* Without faults every confirmed write reaches the models of every node.
FollowersConverge ==
    \A r \in Req : pc[r] = "ok" ~> \A n \in Node : appliedIndex[n] >= idx[r]

\* What the handler's apply wait relies on: "Once it's committed, its handler
\* will apply it (no timeout - it WILL apply)".
CommittedWillApply == \A r \in Req : pc[r] = "committed" ~> pc[r] = "ok"

\* A follower that answered a write and every earlier one with success has applied
\* it, in whatever order the requests came and their handlers took the two locks.
AcksMeanApplied ==
    \A r \in Req, n \in Node :
        (/\ pc[r] # "idle"
         /\ \A q \in Req : pc[q] # "idle" /\ idx[q] <= idx[r] => n \in acks[q])
            => appliedIndex[n] >= idx[r]

\* What the leader concludes from an answer: "Apply happens synchronously before
\* response, so success means applied".
SuccessMeansApplied ==
    \A r \in Req : \A p \in acks[r] : appliedIndex[p] >= idx[r]
=============================================================================
