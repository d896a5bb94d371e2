---------------------------- MODULE FollowerSync ----------------------------
(***************************************************************************)
(* How the leader keeps track of its followers and brings those that fell  *)
(* behind up to date: follower health (cluster/replication_batcher.rs),    *)
(* incremental catch-up, queued batches and snapshots for desynced         *)
(* followers (the background task and the snapshot handlers of             *)
(* app/mod.rs).                                                            *)
(*                                                                         *)
(* The write path is kept coarse here, ReplicatedLog has its detail: the   *)
(* leader's log has no gaps, a handler sends its entry as it inserts it,   *)
(* an entry may be committed at any time after that (the rest of the       *)
(* cluster may be the majority), and the leader applies committed entries  *)
(* in order or, after a failed write, not at all.                          *)
(*                                                                         *)
(* Entries create or update items.  The models of a node are a function    *)
(* from items to the index of the entry that last wrote them, 0 if none    *)
(* did.                                                                    *)
(***************************************************************************)
EXTENDS Integers, Sequences, FiniteSets

CONSTANTS
    Follower,       \* the followers looked at
    Item,           \* ids of items
    MaxIndex,       \* bound: entries of the log
    DesyncAfter,    \* failures in a row that desync a follower (3)
    MaxResyncGap,   \* entries a follower may be behind (1000)
    MaxFaults,      \* bound: append calls that fail
    MaxLostInstalls,    \* bound: sends of a snapshot that fail
    MaxRestarts,    \* bound: restarts of followers
    MaxInFlight     \* bound: append requests on their way to a follower

ASSUME BoundAssumption ==
    /\ MaxIndex \in Nat /\ DesyncAfter \in Nat \ {0} /\ MaxResyncGap \in Nat
    /\ MaxFaults \in Nat /\ MaxLostInstalls \in Nat /\ MaxRestarts \in Nat
    /\ MaxInFlight \in Nat

Idx == 1..MaxIndex

\* FollowerHealth: replication treats all followers alike that are not desynced.
Health == {"in", "desynced"}

\* POST /_raft/append: entries lo..hi, and who waits for the answer: the handler
\* of a write, the background task, or nobody (any more).
Call == [lo : 1..(MaxIndex + 1), hi : 0..MaxIndex, commit : 0..MaxIndex,
         by : {"handler", "task", "nobody"}]
NoCall == [lo |-> 1, hi |-> 0, commit |-> 0, by |-> "nobody"]

\* The apply loop of a handler: what is left of its list.  No list, no lock.
Loop == [next : 1..(MaxIndex + 1), end : 0..MaxIndex, call : Call]
NoLoop == [next |-> 1, end |-> 0, call |-> NoCall]

\* POST /_raft/snapshot: the index a snapshot is labelled with, and the entry up
\* to which the leader had applied its log when the models were collected.
Snapshot == [label : 0..MaxIndex, upto : 0..MaxIndex]
Install == [label : 0..MaxIndex, upto : 0..MaxIndex,
            stage : {"none", "sent", "upserted"}, waits : BOOLEAN]
NoInstall == [label |-> 0, upto |-> 0, stage |-> "none", waits |-> FALSE]

\* An answer or a failure that the caller has yet to record.
Note == [ok : BOOLEAN, idx : 0..MaxIndex]

VARIABLES
    log, commit, applied,               \* the leader's log, as the items its entries write
    batched,                            \* entries up to here were taken from immediate_batch
    tick,                               \* commit index and targets of a resync being prepared
    believed, failures, health,         \* FollowerState of each follower
    notes,                              \* answers not yet recorded there
    calls, install,                     \* requests on their way or being handled
    has, fcommit, fapplied, model, loop,    \* each follower
    spoilt,                             \* history: a snapshot did harm there
    faults, restarts

leaderVars == <<log, commit, applied, batched>>
viewVars == <<believed, failures, health>>
followerVars == <<has, fcommit, fapplied, model, loop>>
vars == <<leaderVars, tick, viewVars, notes, calls, install, followerVars, spoilt,
          faults, restarts>>

Larger(a, b) == IF a >= b THEN a ELSE b     \* AtomicU64::fetch_max
NoTick == [commit |-> 0, targets |-> {}]

Init ==
    /\ log = <<>> /\ commit = 0 /\ applied = 0 /\ batched = 0
    /\ tick = NoTick
    /\ believed = [f \in Follower |-> 0]
    /\ failures = [f \in Follower |-> 0]
    /\ health = [f \in Follower |-> "in"]
    /\ notes = [f \in Follower |-> {}]
    /\ calls = [f \in Follower |-> {}]
    /\ install = [f \in Follower |-> NoInstall]
    /\ has = [f \in Follower |-> {}]
    /\ fcommit = [f \in Follower |-> 0]
    /\ fapplied = [f \in Follower |-> 0]
    /\ model = [f \in Follower |-> [k \in Item |-> 0]]
    /\ loop = [f \in Follower |-> NoLoop]
    /\ spoilt = [f \in Follower |-> FALSE]
    /\ faults = [calls |-> 0, installs |-> 0] /\ restarts = 0

Room(f) == Cardinality(calls[f]) < MaxInFlight

\* The calls on their way once entries lo..hi go to f.
Send(f, lo, hi, c, who) ==
    calls[f] \cup {[lo |-> lo, hi |-> hi, commit |-> c, by |-> who]}

----------------------------------------------------------------------------
(* The leader's write handlers. *)

\* The entry goes into the log and the queue of the batcher (queue_entry); then
\* all entries go to the followers that are not desynced, with this entry's index
\* as leader_commit.
Write(k) ==
    LET i == Len(log) + 1 IN
    /\ i <= MaxIndex
    /\ \A f \in Follower : health[f] # "desynced" => Room(f)
    /\ log' = Append(log, k)
    /\ calls' = [f \in Follower |-> IF health[f] = "desynced" THEN calls[f]
                                    ELSE Send(f, 1, i, i, "handler")]
    /\ UNCHANGED <<commit, applied, batched, tick, viewVars, notes, install, followerVars,
                   spoilt, faults, restarts>>

\* A majority answered the handler of an entry; it commits and notifies every
\* follower, desynced or not.  Nobody waits for the answers.
Commit(k) ==
    /\ k \in (commit + 1)..Len(log)
    /\ \A f \in Follower : Room(f)
    /\ commit' = k
    /\ calls' = [f \in Follower |-> Send(f, 1, Len(log), k, "nobody")]
    /\ UNCHANGED <<log, applied, batched, tick, viewVars, notes, install, followerVars,
                   spoilt, faults, restarts>>

LeaderApplies ==
    /\ applied < commit
    /\ applied' = applied + 1
    /\ UNCHANGED <<log, commit, batched, tick, viewVars, notes, calls, install,
                   followerVars, spoilt, faults, restarts>>

----------------------------------------------------------------------------
(* The background replication task. *)

\* needs_resync.  (That a follower with pending entries was silent for 30
\* seconds leads to the same resync of a follower that is not desynced.)
TooFarBehind(f) == commit - believed[f] > MaxResyncGap
NeedsResync(f) == health[f] = "desynced" \/ TooFarBehind(f)

\* A tick reads commit_index and finds followers to resync; the cooldown and
\* max_concurrent_resyncs may leave some of them out.
BeginResync(targets) ==
    /\ tick.targets = {} /\ targets # {}
    /\ \A f \in targets : NeedsResync(f) /\ install[f] = NoInstall
    /\ tick' = [commit |-> commit, targets |-> targets]
    /\ UNCHANGED <<leaderVars, viewVars, notes, calls, install, followerVars, spoilt, faults,
                   restarts>>

\* create_snapshot_from_models: the models as they are now, labelled with the
\* commit index read before; then it is sent to the targets.
Collect ==
    /\ tick.targets # {}
    /\ install' = [f \in Follower |->
                     IF f \in tick.targets
                     THEN [label |-> tick.commit, upto |-> applied, stage |-> "sent", waits |-> TRUE]
                     ELSE install[f]]
    /\ tick' = NoTick
    /\ UNCHANGED <<leaderVars, viewVars, notes, calls, followerVars, spoilt, faults, restarts>>

\* As a bug would have it: one entry less will do.
AlmostCaughtUp(f) == believed[f] + 1 >= commit

\* Incremental catch-up: a follower believed to be behind gets the entries after
\* the one it is believed to have; one believed desynced gets nothing.
IsCaughtUp(f) == believed[f] >= commit

CatchUp(f) ==
    /\ tick.targets = {}
    /\ health[f] # "desynced"
    /\ ~IsCaughtUp(f)
    /\ Room(f)
    /\ calls' = [calls EXCEPT ![f] = Send(f, believed[f] + 1, Len(log), commit, "task")]
    /\ UNCHANGED <<leaderVars, tick, viewVars, notes, install, followerVars, spoilt, faults,
                   restarts>>

\* The queued entries go to every follower, with the last of them as
\* leader_commit, committed or not.
SendBatch ==
    /\ tick.targets = {}
    /\ batched < Len(log)
    /\ \A f \in Follower : Room(f)
    /\ calls' = [f \in Follower |-> Send(f, batched + 1, Len(log), Len(log), "task")]
    /\ batched' = Len(log)
    /\ UNCHANGED <<log, commit, applied, tick, viewVars, notes, install, followerVars,
                   spoilt, faults, restarts>>

(* Recording answers.  The callers run concurrently, so an answer may be      *)
(* recorded after later ones.                                                 *)

\* As a bug would have it: health is left as it is.
RecordSuccessOnly(f, n) ==
    /\ n \in notes[f] /\ n.ok
    /\ believed' = [believed EXCEPT ![f] = n.idx]
    /\ failures' = [failures EXCEPT ![f] = 0]
    /\ notes' = [notes EXCEPT ![f] = @ \ {n}]
    /\ UNCHANGED <<leaderVars, tick, health, calls, install, followerVars, spoilt, faults,
                   restarts>>

\* record_success; the index may be lower than the one recorded before.
RecordSuccess(f, n) ==
    /\ n \in notes[f] /\ n.ok
    /\ believed' = [believed EXCEPT ![f] = n.idx]
    /\ failures' = [failures EXCEPT ![f] = 0]
    /\ health' = [health EXCEPT ![f] = "in"]
    /\ notes' = [notes EXCEPT ![f] = @ \ {n}]
    /\ UNCHANGED <<leaderVars, tick, calls, install, followerVars, spoilt, faults, restarts>>

\* record_failure; the counter matters up to DesyncAfter only.
RecordFailure(f, n) ==
    LET count == IF failures[f] < DesyncAfter THEN failures[f] + 1 ELSE failures[f] IN
    /\ n \in notes[f] /\ ~n.ok
    /\ failures' = [failures EXCEPT ![f] = count]
    /\ health' = [health EXCEPT ![f] = IF count >= DesyncAfter THEN "desynced" ELSE "in"]
    /\ notes' = [notes EXCEPT ![f] = @ \ {n}]
    /\ UNCHANGED <<leaderVars, tick, believed, calls, install, followerVars, spoilt, faults,
                   restarts>>

Record(f) == \E n \in notes[f] : RecordSuccess(f, n) \/ RecordFailure(f, n)

Success(k) == [ok |-> TRUE, idx |-> k]
Failure == [ok |-> FALSE, idx |-> 0]

----------------------------------------------------------------------------
(* The follower. *)

\* get_unapplied_entries: the entries after applied_index up to the commit
\* index c or the first gap.
IsUnapplied(f, entries, c, end) ==
    /\ \A i \in (fapplied[f] + 1)..end : i <= c /\ i \in entries
    /\ end < c => (end + 1) \notin entries

\* What the caller records: for a handler last_log_index of the answer; the
\* background task takes the last entry it sent and does not look at the answer.
Answers(f, c, entries) ==
    IF c.by = "nobody" THEN {notes[f]}
    ELSE {notes[f] \cup {Success(k)} :
            k \in {i \in entries : IF c.by = "task" THEN i = c.hi
                                   ELSE \A j \in entries : j <= i}}

\* POST /_raft/append: append_entries, the apply lock and the list of what to
\* apply.  (ReplicatedLog has the wait for the lock.  A list made while a
\* snapshot is half installed rewinds items that the snapshot has set.)
HandleAppend(f, c) ==
    /\ c \in calls[f] /\ loop[f] = NoLoop
    /\ calls' = [calls EXCEPT ![f] = @ \ {c}]
    /\ has' = [has EXCEPT ![f] = @ \cup c.lo..c.hi]
    /\ fcommit' = [fcommit EXCEPT ![f] = Larger(@, c.commit)]
    /\ \E end \in fapplied[f]..MaxIndex :
         /\ IsUnapplied(f, has'[f], fcommit'[f], end)
         /\ IF end = fapplied[f]
            THEN /\ \E a \in Answers(f, c, has'[f]) : notes' = [notes EXCEPT ![f] = a]
                 /\ UNCHANGED <<loop, spoilt>>
            ELSE /\ loop' = [loop EXCEPT ![f] =
                                [next |-> fapplied[f] + 1, end |-> end, call |-> c]]
                 /\ spoilt' = [spoilt EXCEPT ![f] = @ \/ install[f].stage = "upserted"]
                 /\ UNCHANGED notes
    /\ UNCHANGED <<leaderVars, tick, viewVars, install, fapplied, model, faults, restarts>>

\* One round of the apply loop; the answer is sent after the last one.
ApplyNext(f) ==
    LET i == loop[f].next IN
    /\ loop[f] # NoLoop
    /\ model' = [model EXCEPT ![f][log[i]] = i]
    /\ fapplied' = [fapplied EXCEPT ![f] = Larger(@, i)]
    /\ IF i < loop[f].end
       THEN loop' = [loop EXCEPT ![f].next = i + 1] /\ UNCHANGED notes
       ELSE /\ loop' = [loop EXCEPT ![f] = NoLoop]
            /\ \E a \in Answers(f, loop[f].call, has[f]) : notes' = [notes EXCEPT ![f] = a]
    /\ UNCHANGED <<leaderVars, tick, viewVars, calls, install, has, fcommit, spoilt, faults,
                   restarts>>

\* The models after the first n entries.
IsModelAt(n, m) ==
    \A k \in Item : /\ m[k] > 0 => m[k] <= n /\ log[m[k]] = k
                    /\ \A i \in (m[k] + 1)..n : log[i] # k

\* A snapshot does harm if it lacks entries up to its label, if it is older than
\* what is there, and while the apply loop has a list.
Harmful(f) ==
    \/ install[f].upto < install[f].label
    \/ install[f].upto < fapplied[f]
    \/ loop[f] # NoLoop

\* As a bug would have it: items that are there are kept.
UpsertNewOnly(f) ==
    /\ install[f].stage = "sent"
    /\ \E items \in [Item -> 0..MaxIndex] :
         /\ IsModelAt(install[f].upto, items)
         /\ model' = [model EXCEPT ![f] = [k \in Item |-> IF @[k] # 0 THEN @[k] ELSE items[k]]]
    /\ install' = [install EXCEPT ![f].stage = "upserted"]
    /\ spoilt' = [spoilt EXCEPT ![f] = @ \/ Harmful(f)]
    /\ UNCHANGED <<leaderVars, tick, viewVars, notes, calls, has, fcommit, fapplied, loop,
                   faults, restarts>>

\* POST /_raft/snapshot: the items of the snapshot are upserted, without the
\* apply lock.
Upsert(f) ==
    /\ install[f].stage = "sent"
    /\ \E items \in [Item -> 0..MaxIndex] :
         /\ IsModelAt(install[f].upto, items)
         /\ model' = [model EXCEPT ![f] = [k \in Item |-> IF items[k] = 0 THEN @[k] ELSE items[k]]]
    /\ install' = [install EXCEPT ![f].stage = "upserted"]
    /\ spoilt' = [spoilt EXCEPT ![f] = @ \/ Harmful(f)]
    /\ UNCHANGED <<leaderVars, tick, viewVars, notes, calls, has, fcommit, fapplied, loop,
                   faults, restarts>>

\* As a bug would have it: the follower is recorded at the snapshot's label.
MarkInstalledAtLabel(f) ==
    /\ install[f].stage = "upserted"
    /\ fapplied' = [fapplied EXCEPT ![f] = Larger(@, install[f].label)]
    /\ notes' = [notes EXCEPT ![f] =
                   IF install[f].waits THEN @ \cup {Success(install[f].label)} ELSE @]
    /\ install' = [install EXCEPT ![f] = NoInstall]
    /\ UNCHANGED <<leaderVars, tick, viewVars, calls, has, fcommit, model, loop, spoilt,
                   faults, restarts>>

\* mark_applied(last_included_index), and the answer: the background task resets
\* the follower with record_success(0, 0).
MarkInstalled(f) ==
    /\ install[f].stage = "upserted"
    /\ fapplied' = [fapplied EXCEPT ![f] = Larger(@, install[f].label)]
    /\ notes' = [notes EXCEPT ![f] = IF install[f].waits THEN @ \cup {Success(0)} ELSE @]
    /\ install' = [install EXCEPT ![f] = NoInstall]
    /\ UNCHANGED <<leaderVars, tick, viewVars, calls, has, fcommit, model, loop, spoilt,
                   faults, restarts>>

Handle(f) ==
    \/ \E c \in calls[f] : HandleAppend(f, c)
    \/ ApplyNext(f)

HandleInstall(f) == Upsert(f) \/ MarkInstalled(f)

----------------------------------------------------------------------------
(* Faults. *)

\* A call fails: the request is lost, or it arrives after its caller gave up.
CallFails(f, c) ==
    /\ faults.calls < MaxFaults
    /\ c \in calls[f]
    /\ \/ calls' = [calls EXCEPT ![f] = @ \ {c}]
       \/ calls' = [calls EXCEPT ![f] = (@ \ {c}) \cup {[c EXCEPT !.by = "nobody"]}]
    /\ notes' = [notes EXCEPT ![f] = IF c.by = "nobody" THEN @ ELSE @ \cup {Failure}]
    /\ faults' = [faults EXCEPT !.calls = @ + 1]
    /\ UNCHANGED <<leaderVars, tick, viewVars, install, followerVars, spoilt, restarts>>

\* The send of a snapshot fails: it is lost, or installed without an answer.  No
\* failure is recorded for the follower.
InstallFails(f) ==
    /\ faults.installs < MaxLostInstalls
    /\ install[f].waits
    /\ \/ /\ install[f].stage = "sent"
          /\ install' = [install EXCEPT ![f] = NoInstall]
       \/ install' = [install EXCEPT ![f].waits = FALSE]
    /\ faults' = [faults EXCEPT !.installs = @ + 1]
    /\ UNCHANGED <<leaderVars, tick, viewVars, notes, calls, followerVars, spoilt, restarts>>

\* A follower restarts: its consensus log is empty, its models come back from the
\* event store.  What it was handling fails.
Restart(f) ==
    /\ restarts < MaxRestarts
    /\ restarts' = restarts + 1
    /\ has' = [has EXCEPT ![f] = {}]
    /\ fcommit' = [fcommit EXCEPT ![f] = 0]
    /\ fapplied' = [fapplied EXCEPT ![f] = 0]
    /\ loop' = [loop EXCEPT ![f] = NoLoop]
    /\ install' = [install EXCEPT ![f] = IF @.stage = "upserted" THEN NoInstall ELSE @]
    /\ notes' = [notes EXCEPT ![f] = IF loop[f].call.by = "nobody" THEN @ ELSE @ \cup {Failure}]
    /\ UNCHANGED <<leaderVars, tick, viewVars, calls, model, spoilt, faults>>

Fault(f) ==
    \/ \E c \in calls[f] : CallFails(f, c)
    \/ InstallFails(f)

LeaderStep ==
    \/ \E k \in Item : Write(k)
    \/ \E i \in Idx : Commit(i)
    \/ LeaderApplies

TaskStep ==
    \/ \E targets \in SUBSET Follower : BeginResync(targets)
    \/ Collect
    \/ \E f \in Follower : CatchUp(f)
    \/ SendBatch

Next ==
    \/ LeaderStep
    \/ TaskStep
    \/ \E f \in Follower : Record(f) \/ Handle(f) \/ HandleInstall(f) \/ Fault(f)

NextWithRestarts == Next \/ \E f \in Follower : Restart(f)

\* The task ticks for ever, cooldowns end, and what is sent is handled or fails.
Fairness ==
    /\ WF_vars(Collect) /\ SF_vars(SendBatch)
    /\ \A f \in Follower :
         /\ WF_vars(Record(f)) /\ WF_vars(Handle(f)) /\ WF_vars(HandleInstall(f))
         /\ SF_vars(CatchUp(f))
         /\ SF_vars(\E targets \in SUBSET Follower : f \in targets /\ BeginResync(targets))

Spec == Init /\ [][NextWithRestarts]_vars
FairSpec == Init /\ [][Next]_vars /\ Fairness

----------------------------------------------------------------------------
(* Properties. *)

TypeOK ==
    /\ log \in Seq(Item) /\ Len(log) <= MaxIndex
    /\ commit \in 0..Len(log) /\ applied \in 0..commit /\ batched \in 0..Len(log)
    /\ tick \in [commit : 0..MaxIndex, targets : SUBSET Follower]
    /\ believed \in [Follower -> 0..MaxIndex]
    /\ failures \in [Follower -> 0..DesyncAfter]
    /\ health \in [Follower -> Health]
    /\ notes \in [Follower -> SUBSET Note]
    /\ calls \in [Follower -> SUBSET Call]
    /\ install \in [Follower -> Install]
    /\ has \in [Follower -> SUBSET (1..Len(log))]
    /\ fcommit \in [Follower -> 0..MaxIndex]
    /\ fapplied \in [Follower -> 0..MaxIndex]
    /\ model \in [Follower -> [Item -> 0..MaxIndex]]
    /\ loop \in [Follower -> Loop]
    /\ spoilt \in [Follower -> BOOLEAN]
    /\ faults \in [calls : 0..MaxFaults, installs : 0..MaxLostInstalls]
    /\ restarts \in 0..MaxRestarts

\* The index the leader believes a follower to have (last_replicated_index) is
\* one the follower really has in its log, however answers, timeouts and resyncs
\* interleave, until a follower restarts.
BelievedIsThere ==
    restarts = 0 => \A f \in Follower : believed[f] > 0 => believed[f] \in has[f]

\* What a follower has marked as applied is in its models: every item is at the
\* last entry up to applied_index that wrote it, or at a later one.  The
\* exceptions are the ways in which a snapshot does harm (Harmful, and a list
\* made in the middle of an installation).
NothingSkipped ==
    \A f \in Follower : \A i \in 1..Len(log) :
        ~spoilt[f] /\ i <= fapplied[f] => model[f][log[i]] >= i

\* A follower that was declared desynced, and so is left out of replication, is
\* taken back.
DesyncedReturns ==
    \A f \in Follower : health[f] = "desynced" ~> health[f] # "desynced"

\* In the end, a follower has applied everything that is committed or the
\* leader believes that it has: one that is known to be behind is brought up to
\* date.
BehindIsServed ==
    \A f \in Follower : <>[](fapplied[f] >= commit \/ believed[f] >= commit)

\* In the end every follower has applied everything that is committed ("Slow
\* nodes don't block the commit - they'll catch up later", app/mod.rs:4450).
\* One that has the entries, and answered so, but lost the call that told it of
\* their commit, does not: catch-up takes it to be in sync (app/mod.rs:964).
TheyCatchUp == \A f \in Follower : <>[](fapplied[f] >= commit)
=============================================================================
