# TLA+ models of Lithair

Lithair (`lithair-core`) is a declarative server framework: models become HTTP
resources, every change is an event in an event store, and a set of servers can
form a cluster in which one leader takes the writes. This directory holds the
specifications of the parts where concurrency and failure decide whether the
system is right, the TLC runs that check them on small instances and the TLAPS
proofs that extend the safety results to every instance.

    tlc -workers 2 -config ReplicatedLog_safety.cfg MCReplicatedLog
    tlc -workers 2 -config Node.cfg MCNode
    tlapm ReplicatedLogProofs.tla

Paths below are relative to `lithair-core/src/`.

## 1. The system

| Component | State | Operations | What makes it correct |
|---|---|---|---|
| Write path, `app/mod.rs` `handle_model_request` | one task per request: index, replication result, position in the apply order | append, queue, replicate joined with WAL, commit, notify, wait, apply | a confirmed write is on a majority and applied in its place; nodes apply one order |
| Consensus log, `cluster/consensus_log.rs` | `entries`, `next_index`, `commit_index`, `applied_index`, apply lock | `append`, `append_entries`, `commit`, `get_unapplied_entries`, `mark_applied` | indices unique, indexes only grow, nothing applied across a gap |
| Follower handler `/_raft/append` | the follower's log and models | merge, apply loop, answer | histories are prefixes of the leader's log |
| Replication batcher and background task, `cluster/replication_batcher.rs`, `app/mod.rs` | queued entries, believed index and health of each follower | queue, send batch, catch up, mark desynced, resync | lagging followers get what they miss, once more at worst |
| Snapshot resync, `app/mod.rs`, `cluster/snapshot.rs` | targets of a resync, snapshots on their way | label, collect, send, install | what a follower marks as applied it has; a desynced follower returns |
| Write-ahead log, `cluster/wal.rs` | file, buffer, write lock | `append_buffered`, `flush`, `append`, `append_batch`, `read_all` | acknowledged means durable and readable; no waiter forgotten |
| Leadership, `cluster/mod.rs`, `app/mod.rs` | atomics of `RaftLeadershipState` | heartbeat, election, redirect | one leader, everybody finds it |
| Migration, `cluster/upgrade.rs`, `app/mod.rs` | active migrations, version | begin, step, commit, rollback, through the log | every manager is where the leader's was after the same entries |
| Event store, `engine/events.rs`, `engine/persistence.rs` | event batch, buffer, segments, hash chain | append, flush, rotate, replay | replay gives what was acknowledged; the chain has no gap |
| Aggregate files, `engine/multi_file_store.rs`, `engine/snapshot.rs` | a file, a count and a snapshot per aggregate | append, snapshot, recover | the lines recovery skips are in the snapshot |
| State engine, `engine/scc2_engine.rs`, `engine/async_writer.rs` | entries, indexes, channel and buffer of the writer | apply, flush, replay | memory, index and log agree; uniqueness |
| Model handlers, `http/declarative.rs` | items, event store | CRUD, bulk, admin edits, `apply_replicated_*` | items and events agree |
| Sessions, `session/`, `rbac/auth_handlers.rs` | map of sessions, log of session events | login, middleware, logout, cleanup, replay | who logged out stays out; valid sessions survive |
| Schema changes, `schema/sync.rs`, `app/schema_handlers.rs` | stored schema, pending changes, votes, lock | propose, vote, approve, reject, lock, revalidate, restart | only what was accepted is in force; majorities decide |
| Cache, `cache/lru.rs` | map, linked list through slots, free list | get, put, remove, clear | the least recently used entry goes |
| Anti-DDoS, RBAC, MFA, proxy, frontend, logging, macros | see section 6 | | |

How they interact. A write enters a handler on the leader. The handler appends to
the consensus log, queues the entry in the batcher, writes it to the WAL and calls
`/_raft/append` on all followers at once; followers merge and apply under their
apply lock before they answer. With a majority the handler commits, spawns a
notification, waits for earlier entries and applies its own. The background task
sends queued and missing entries independently of the handlers. Leadership decides
which node's handlers accept writes, and where the others redirect. A follower that
fails three calls in a row, or is too far behind, gets a snapshot of the models
instead. On every node the operation ends in a model handler, which changes the
items in memory under one lock and appends an event to the model's event store
under another. Migrations take the way of the writes through the log; schema
changes have their own requests between nodes. Sessions, engines and caches are
used by handlers of one node and share no state with the rest. Handlers are
futures that hyper drops when their connection closes; spawned tasks go on.

What is hard: handlers overtake each other between taking an index and taking the
lock on the log; copies of the log travel in any order; a handler may fail, hang
or be dropped at each await; the WAL notifies after an fsync that may fail or be
cut by a crash; leadership fields are stored one by one by two tasks; answers of
followers are recorded in any order, and snapshots are installed beside the apply
loop; memory and event log change under two locks, and a failed flush keeps what it
may have written. The list, with lines, is `hazards` in `PROJECT.json`.

## 2. Modules

| Module | Part | Runs | Proofs |
|---|---|---|---|
| `ReplicatedLog` | write path, consensus log, follower handler, what the background task sends | `repl_safety`, `repl_live`, `repl_willapply`, `repl_ack` (through `MCReplicatedLog`) | `ReplicatedLogProofs` |
| `TotalOrder` | abstract specification of the write path | refined by `ReplicatedLog` | `Refinement` |
| `WriteAheadLog` | write-ahead log of a node | `wal`, `wal_torn` | `WriteAheadLogProofs` |
| `DurableLog` | abstract specification of a durable log | refined by `WriteAheadLog` | `LogRefinement` |
| `LeaderElection` | leadership, heartbeats, election | `election`, `election_redirect` | `LeaderElectionProofs` |
| `FollowerSync` | follower health, catch-up, snapshot resync, restarts of followers | `sync`, `sync_behind`, `node` | `ClusterProofs` |
| `ModelStore` | items of a model and their event log | `node` | `StoreProofs` |
| `StateEngine` | state engine and asynchronous writer | `node` | `MemoryProofs` |
| `AggregateStore` | one file per aggregate, snapshots, recovery | `node` | `StoreProofs` |
| `SessionStore` | persistent sessions | `node` | `StoreProofs` |
| `SchemaChange` | validation, votes, approval and lock of schema changes | `node`, `schema_lock` | `ClusterProofs` |
| `RollingMigration` | migrations through the log | `node` | `ClusterProofs` |
| `LruCache` | the LRU cache | `node` | `MemoryProofs` |
| `RecencyCache` | abstract specification of a cache | refined by `LruCache` | `CacheRefinement` |
| `MCNode` | the parts from `FollowerSync` on, one at a time | `node` | `NodeProofs` |
| `Induction` | lemmas of the proofs: induction over the naturals, the last of finitely many positions | | itself |

### ReplicatedLog

State: `log`, `nextIndex`, `commitIndex`, `appliedIndex` are the fields of
`ConsensusLog` per node; `hist` is what a node's models have applied and marked,
`half` an operation that a dropped handler left in the models but not marked;
`pc`, `at`, `idx`, `lastSent`, `acks`, `replied` are the locals of each request's
handler; `msgs`, `handling`, `notices` are the requests under way, the follower
handlers between their two locks, and the spawned notifications; `batch` is the
batcher's `immediate_batch`. A log is a function from indices to slots; a slot is
the sequence of the entries that carry the index, since `append` does not look for
an existing id. An operation is the request that carries it.

Actions, in the order of the code: `AssignIndex` (leader check and `fetch_add`),
`InsertEntry` (the rest of `append`, under the lock), `QueueEntry`,
`StartReplication`, `HandleAppend` and `HandleApply` on the follower (two locks,
two steps), `CallFails`, `Commit` or `ReplicationFails`, `SendNotice`, `ApplyOwn`;
`CatchUp` and `SendBatch` of the background task; `WalFlushFails`,
`ClientDisconnects`, `ApplyOwnCut` and `HandleApplyCut` for what may be cut short.

Not in it: changes of leader (the module is about a stable leader), restarts of
followers and snapshot resync (both in `FollowerSync`), terms (nothing raises one),
the five-second limit of the commit wait (which is shown never to be reached).
`CatchUp` lets the leader believe any index that the follower's log contains, which
covers every value that answers can leave in the batcher while no snapshot is
installed.

Abstract specification: `TotalOrder` has one order, a history per node and what
each client was told. The mapping takes the leader's log as the order.

### WriteAheadLog and DurableLog

The file is a sequence of frames, whole or `Torn`, of which a prefix is synced.
`AppendBuffered`, `TakeBatch`, `LockBatch`, `WriteFrame`, `Sync`, `Notify` are the
path of group commit; `LockDirect` is `append`, used by the migration handler;
`IoFails` is the `?` in `flush` and `append`; `Crash` keeps the synced prefix and
any part of the rest, and opens the file the way `with_config` does. `Readable` is
what `read_all` returns at best. `truncate_after` and `shutdown` have no caller and
are left out, and so are `write_position` and `last_synced_index`, which nothing
that is modelled reads.

`DurableLog` is what callers are promised: a log on disk that only grows, that holds
an entry once and none that was not handed in, and answers that come after their
entries are in it. The mapping takes the synced prefix of the file for that log; a
caller that got an error, waits for ever or died with its process has given up. Torn
frames are the junk that `DurableLog` allows, so the refinement says what is on disk,
not what `read_all` gives back (`wal_torn`).

### LeaderElection

`leading`, `leader`, `port`, `fresh` are `is_leader`, `current_leader_id`,
`leader_port` and "`last_heartbeat` is recent". `become_leader` and
`become_follower` are four stores, taken one by one by the monitor task (`monitor`)
and by the heartbeat handler (`handler`). An append of any node that leads makes
`last_heartbeat` recent, too, and changes nothing else (`HandleAppend`). An election
asks one peer after the other (`Probe`) and ends with the lowest id that answered.
`Crash`, `Restart`, `LateHeartbeat`, `LateAppend` (of a sender that has died or leads
no more) and `ProbeTimeout` are the faults. Assumed: the heartbeat interval is below
the five seconds that `RaftLeadershipState::new` fixes (the configured election
timeout is not read), and the heartbeats of one sender to one node that are under way
at the same time are not told apart.

So a follower whose leader died may be kept from noticing by the appends of the one
that was elected, as long as writes come often enough, and redirects its clients to
the dead node meanwhile. `Settles` has the premise `WritesPause` for that: without it
TLC finds this behaviour.

### FollowerSync

The leader's log, commit and applied index, and per follower what the batcher
believes (`believed`, `failures`, `health`), the calls and the snapshot on their way,
answers not yet recorded (`notes`), and the follower's own log, indexes, models and
apply loop. The write path is coarse here: a leader's log without gaps, commits at
any time. The models map an item to the entry that wrote it last.

`CatchUp` and `SendBatch` are the background task; `BeginResync` reads the commit
index, `Collect` takes the models later, as `create_snapshot_from_models` does.
`RecordSuccess` and `RecordFailure` take answers in any order. `Upsert` and
`MarkInstalled` are the two halves of `/_raft/snapshot`, beside `HandleAppend` and
`ApplyNext`, which hold the apply lock. `CallFails`, `InstallFails` and `Restart` are
the faults. `spoilt` remembers that a snapshot did harm (`Harmful`): it was labelled
with more than the leader had applied, it was older than the follower's models, or
the apply loop was at work. These cases are possible in the code; the properties say
that nothing else goes wrong.

### ModelStore

`storage` and the operations between their change in memory and their event
(`handling`); `batch`, `buffered`, `lines`, `oldLines` are `event_batch`, the
`BufWriter`, `events.raftlog` and its rotated segment; `torn` and `half` tell of half
lines. Items change in `CreateItem`, `UpdateItem`, `DeleteItem`, `OverwriteItem`;
`PersistEvent` takes the hash of the event before, appends and flushes; `FlushTick` is
the background flusher. A flush may fail behind any line (`FlushFails`): the batch and
the rest of the buffer stay and are written again. `CrashAndReplay` kills the process
and replays. History: `answered`, `gone` (rotated away or glued to a torn line) and
`apart` (items whose memory and log were separated by overlapping handlers, by a
dropped handler or by a loss). What the module shows besides its properties: a
deleted item is back after a replay, since `replay_events` inserts the item of every
event.

### StateEngine

A thread in `apply_event` checks uniqueness (`BeginCheck`, `EndCheck`), locks the entry
and applies (`LockAndApply`), brings the index up to date under that lock (`TakeIndex`,
then `RemoveOld` and `AddNew`), lets go (`Unlock`) and sends the event (`SendEvent`). Both
maps are read and changed through `try_entry`, which gives nothing while another thread
has the entry, even if it only looks. The map of indexes has one entry per field, so
whoever checks a value, or changes the index, keeps all others from the field's index: a
check that finds it taken reads it as empty and passes, a change that finds it taken is
left out without an error. A thread between its look whether there is an index and taking
it counts as one that may have it (`IndexTouched`). An entry that is taken is an error
(`LockFails`).

The writer task buffers (`TakeEvent`), flushes on request (`TakeFlush`) or by its timer,
and acknowledges a flush even when the write failed. `EngineCrash` replays the log, which
fills no index. `racedKeys` remembers the entries at which two threads overlapped;
`racedValues` the values that somebody checked or indexed while kept from the index, and
those that two threads had found free at once. What happens to them is what the code lets
happen; the properties say that nothing else goes wrong.

### AggregateStore

`eventCount` counts the events since the process started, `SaveSnapshot` labels with
it, and recovery skips as many lines of the file (`Recovered`). Only aggregates
opened in this process are read (`opened`).

### SessionStore

A request reads a session (`Get`), decides (`Decide`), changes the map (`Apply`) and
appends the event (`Persist`): others may come between. All three events have the
fields of `SessionCreated` and are replayed as one (`ReplayLine`): a deletion brings
the session back as one that expires at the time of the replay, and does so at each
replay. `CollectExpired` and `DeleteExpired` are the cleanup.

### SchemaChange

One node's `SchemaSyncState`, its spec file and its lock file; a handler is one step
under the state's lock, except revalidation, which looks at the lock
(`BeginRevalidate`), reads the stored spec (`ReadSpec`) and saves (`Revalidate`). Saving
opens and writes a file: it may fail or be cut off, which leaves a spec that cannot be
read (`Saved`). `Deploy` is a restart with any binary: pending changes are lost, files
stay; a start that finds no spec it can read counts as the first one and saves the
binary's, whatever mode and lock say. Revalidation in Auto mode stores the binary's schema
without a vote; both are in the model, and `OnlyAccepted` is stated accordingly.

Proposals, votes and approvals do not look at the lock, although
`app/schema_handlers.rs:1051` says that all changes are rejected while it holds
(`schema_lock`).

### RollingMigration

The log of a leader and a follower holds migration operations only. The leader's
handler appends, sends, commits and applies without the apply lock and does not mark
its entry; if the operation is refused it answers 500, and later handlers go on. The
follower applies in its loop (`FollowerRuns`), which stops at a gap and before an
operation that is refused: that one is not marked, so the follower applies nothing any
more. A snapshot brings no migrations but marks entries as applied (`FollowerInstalls`,
`skipped`). `manager` is a `MigrationManager` per member.

### LruCache and RecencyCache

`LruCache` is the code's data structure: a map to slots, a list linked through them,
a free list, every operation as the code's sequence of pointer changes.
`RecencyCache` is a sequence of keys from the last to the least recently used one,
with values. `LruCache` refines it: the mapping reads the sequence off the list.

### MCNode

In the program the parts from `FollowerSync` on share no state in memory. `MCNode`
starts with all of them and takes the steps of one: the run is the union of the
parts' behaviours, not their product, and every property is checked in each. That
keeps the state space a sum; interaction between the parts is inside the modules
(`RollingMigration` has its own log, `FollowerSync` its own models).

## 3. Runs

| Run | Instance | Shows |
|---|---|---|
| `repl_safety` | 3 nodes, 3 writes, one of which cannot be applied, for 2 indices, all faults, no background sends | types, `Agreement`, `AckedIsReplicated`, `CommitWaitIsVacuous`, `AcksMeanApplied`; no `applied_index` passes a failing write (`FailedStaysUnmarked`); nobody waits in a circle (`NoCircularWait`); refinement of `TotalOrder` |
| `repl_live` | 3 nodes, 2 writes, 1 background round, no faults | every write is confirmed, every follower converges |
| `wal` | 3 buffered, 1 direct append, 1 crash, 1 error | types, no duplicate frame, no lost waiter, every append returns, refinement of `DurableLog` (acknowledged means durable) |
| `election` | 3 nodes, 2 crashes, 1 restart, 1 delay | types, one live leader while nothing is late; if writes pause, everybody settles on the lowest |
| `sync` | 1 follower, 2 entries, 3 failing calls, 1 lost snapshot or answer, 1 call on its way, no restart | `BelievedIsThere`, a desynced follower returns, one known to be behind is served |
| `node` | each part with the bounds of `Node.cfg` | the other parts, one at a time: types, 15 safety invariants, an action property, a refinement |
| `repl_willapply` (violated) | 2 nodes, 2 writes, failing calls | a committed write may never be applied |
| `repl_ack` (violated) | 3 nodes, 2 writes | a follower's success does not mean applied |
| `wal_torn` (violated) | 2 buffered, 1 direct append, 1 crash | an acknowledged entry may not be readable |
| `election_redirect` (violated) | 3 nodes, 1 crash, 1 restart | a follower may redirect to the wrong node for ever |
| `sync_behind` (violated) | as `sync`, no snapshot lost | a follower that has all entries but lost the call with the commit index may never catch up |
| `schema_lock` (violated) | 3 nodes, 2 schemas, 1 change, 1 restart, 2 proposals or lock requests | schema changes go through while they are locked |

What the properties of `node` are about:

| Part | Instance | Properties |
|---|---|---|
| `FollowerSync` | 1 follower, 1 restart, no failing call | `NothingSkipped` |
| `ModelStore` | 2 items, 3 operations, a failing flush, a crash, segments of 2 lines | `ConfirmedIsLogged`, `LogFollowsMemory`, `ChainHolds` |
| `StateEngine` | 2 threads, 2 entries, 2 values, 2 events, a failing flush, a crash, a buffer of 2 | `ValuesAreUnique`, `IndexMatches`, `LogTellsAll`, `FlushIsComplete` |
| `AggregateStore` | 4 events, 2 snapshots, a failing append, 2 restarts | `RecoverySkipsNothing` |
| `SessionStore` | 1 token, 2 requests and the cleanup, 3 points in time, a restart, requests begin until 4 events are logged | `LoggedOutStaysOut`, `SessionsSurvive`, `CleanupSparesTheValid` |
| `SchemaChange` | 3 nodes, 2 schemas, 1 change at a time, 2 restarts, 2 proposals or lock requests | `MajorityDecides`, `OnlyAccepted` |
| `RollingMigration` | leader and follower, 1 migration id, 3 operations, 2 handlers at a time | `MigrationsAgree` |
| `LruCache` | 4 keys, 1 value, capacity 3 | `WellLinked`, `RefinesRecency` |

Why the bounds are enough to be interesting. Two requests on two
indices give overtaking between index and insertion, gaps on followers, an entry
that is refused before or after one that is confirmed, and one that cannot be applied,
in either place. Three nodes give a majority that leaves one
follower out. Symmetry permutes followers, and requests that apply cleanly, in
`repl_safety` only, which checks no liveness. Three
buffered entries give a batch of two with a third that arrives during the flush.
Two crashes of three nodes lead to an election won by the last node, and a restart
to a returning node 0. Three failing calls are what desyncs a follower
(`DesyncAfter` is the code's 3); two entries give a gap, an answer overtaken by
another, and a snapshot between two applied entries. A failed flush of three
operations leaves lines that are written twice, and segments of two lines are rotated
within them. Four events with two snapshots and two restarts give a count that
starts at 0 in the middle of a file twice. One token is enough for sessions, which do
not interact; two requests and the cleanup work on it. Three operations are the
shortest migration with a second one refused or reordered. Four keys in a cache of
three evict, reuse a freed slot, and move an inner node of the list; that they share
one value leaves stale values to the proof (`CacheRefinement`). Symmetry in
`node` permutes voters and schemas; the run has no property that needs fairness. Its
constraint `NoneSkipped` ends a behaviour of the migrations where a snapshot has marked
entries that were not applied, since `MigrationsAgree` says nothing of what comes after.

`CHECK_DEADLOCK FALSE` is stated everywhere: clients run out of requests, and a
cluster of which all but one node are down has nothing to do.

Fairness. Every handler is a tokio task: if it can take its next step it does
(`WF` on `RequestStep(r)`, on the delivery of a request under way and on the
follower's apply). The flush task has a timer (`WF` on `Writing`). The monitor and
the heartbeat sender have timers, and the heartbeats of a live sender arrive (`WF`
per node and pair). A timeout is owed only to a node that no live leader could send an
append (`Unattended`), since clients write when they like. In `FollowerSync` the background task ticks for ever, so a
resync that was begun goes on (`WF` on `Collect`), and catch-up, batches and the
beginning of a resync come about although cooldown, the limit of resyncs and calls
under way may keep them off again and again (`SF`); answers are recorded and calls
handled unless they fail (`WF`). Its liveness run is without restarts: a restarted
follower is still believed to be in sync, and nothing in the code repairs that
before the next entries. Faults and clients are owed nothing, nor is the background
task in `ReplicatedLog`.

## 4. Findings

1. `app/mod.rs:3932` says of an earlier entry "Once it's committed, its handler
   will apply it (no timeout - it WILL apply)". The commit covers all entries that
   were sent, those of refused requests included; nobody on the leader applies
   those, and later writes wait for ever (`repl_willapply`). The same wait follows
   a hung WAL write, a failed apply and a closed connection. It is the only wait
   without an end: handlers never wait in a circle (`NoCircularWait`), and what ended
   without being applied blocks all that is later (`EndedBlocksLater`).
2. `app/mod.rs:4535` says "Apply happens synchronously before response, so success
   means applied". A follower with a gap answers success and applies nothing
   (`repl_ack`). Writes are still safe: the vote stands for the log, not for the
   models (`AckedIsReplicated`). What does follow from answers: a follower that
   answered a write *and every earlier one* with success has applied it
   (`AcksMeanApplied`).
3. `cluster/wal.rs:525` "Read all entries from the WAL (for recovery)": opening does
   not cut a torn frame, later frames go behind it, and `read_all` ends there
   (`wal_torn`).
4. `app/mod.rs:1595` "Redirect writes to leader if we're a follower": interleaved
   stores leave the id of one leader with the port of another, and heartbeats of
   the stored id do not repair it (`election_redirect`).
5. `app/mod.rs:4450` says "Slow nodes don't block the commit - they'll catch up
   later". A follower may have all entries and have answered so before their commit; it
   learns of the commit from a notification that is sent once (`app/mod.rs:3847`). If
   that is lost, catch-up skips the follower, since its believed last index is at least
   the commit index (`app/mod.rs:964`), and the last entries are not applied until
   somebody writes again (`sync_behind`).
6. `app/schema_handlers.rs:1051` says "When locked, ALL schema changes are rejected until
   unlocked.", and so does the answer to a lock request. Proposals that the policy
   accepts, votes and approvals change the schema all the same (`schema_lock`).

Not reported as findings, because the docs say so: no protection against two
leaders (`docs/features/clustering/overview.md`), which `OneLiveLeader` excludes by
its premise that nothing was late and nobody came back. Met while modelling, and in
the models, without a line of the repository that promises otherwise in so many
words: a resync that installs an older or a mislabelled snapshot (`Harmful`);
deleted items that return at a replay; flushes acknowledged although the write failed;
an aggregate that is not read before its first append after a restart; migration
entries that are applied and never marked.

## 5. Proofs

All are for arbitrary constants under the named assumptions of the modules (a
finite cluster of at least two nodes, `NoReq` not a request, a cache of at least one
slot, tokens and values that stand for nothing not among the real ones, natural
bounds).

Much of what is proved is about data of any length: what a replay makes of a log, how
many entries a manager has applied, where following the pointers of a list leads. The
library's induction theorems take an operator as a parameter, which the provers cannot
instantiate, so `Induction` derives a principle for sets (`SetInduction`: a set with 0
and every successor holds all naturals) from the least element of a well-founded order,
and from it `LastPosition`. A recursive function in a model is then reasoned about
through the sequence of its values, which exists (`ReplayExists`, `OpsRunExists`,
`WayExists`) and is unique.

*ReplicatedLogProofs.* `IInv` = types, one leader (`OneLeader`), unique indices and
slots with at most their own request (`Slots`), all copies equal to the leader's
entry (`Copies`), histories equal to the log up to `applied_index` (`Applied`), the
leader has applied exactly what it confirmed (`LeaderApplied`), acknowledgements
come from nodes that hold the entry and commits have a majority (`Votes`), a commit
covers its own entry (`Committed`). `Agreement` alone is not inductive: it needs to
know that what a follower will apply next is the leader's entry, hence `Copies` and
`Slots`; and it needs the apply order of the leader, hence `LeaderApplied`. `Half`
adds that an unmarked operation is the next entry of its node's log. From these:
`TypeCorrect`, `Invariance`, `StateMachineSafety`, `AckedDurability`, `CommitWait`,
`FailuresBlock` (with `NoneFailed`: no history holds an operation that fails)
and `Refinement` (initial states map to initial states; insertion maps to `Place`,
`ApplyOwn` to `Confirm`, a follower's loop to `Follow`, a handler that ends without
success to `Refuse`, the rest to stuttering). The proofs allow any number of
background sends together with all faults, which the safety runs do not.

What handlers wait for needs `WaitInv`: every index that was handed out is some
request's (`Taken`), a call that has not returned is on its way or being handled
(`CallsKept`), and a follower that answered knows the entry's index as committed
(`Learned`). A success alone says nothing of the models, as a gap stops the apply
loop; but with successes for all writes up to one there is no gap, whence
`SuccessesMeanApplied` (`AcksMeanApplied`). `Taken` gives the write whose turn it is,
and with it `WaitsEndSomewhere` (`NoCircularWait`); `EndedBlocksLater` generalises
finding 1 to every cluster. For a run without faults and with operations that all can
be applied, `NoneEnded` (no handler has ended without success, and every call that
returned succeeded) is an invariant too. Then every follower has answered what is
confirmed and all before it, which gives `ConfirmedIsEverywhere` and, as what leads to
is what already holds, `Convergence` (`FollowersConverge`). That a write is confirmed
at all is `EveryWriteConfirmed`, and left to TLC.

*WriteAheadLogProofs.* `WInv` = types, who holds the lock and in which state
(`Holder`), what the batch under way has on disk (`Durable`), where the entry of
each caller can be (`Places`), `OneFrameEach`, `NoLostWaiter`. Needed because an
acknowledgement comes one step after the sync and the lock changes hands between.
From it `Durability`, `NoDuplicates`, `NoWaiterForgotten`, `TypeCorrect`, and
`LogRefinement` (`RefinesDurableLog`): `AppendBuffered` and `LockDirect` map to
`Submit`; `Sync` to `Store`, for a direct append with `Confirm`, where `OneFrameEach` and
`Places` give that what becomes durable was handed in and is nowhere else in the log;
`Notify` to `Confirm`, by `Durable`; errors and a crash, which may leave more of the file
on disk, to `Store` and `GiveUp`; the other steps to stuttering.

*LeaderElectionProofs.* `EInv` = types, heartbeat handlers only ever follow
(`HandlersFollow`), and, while nothing was late and nobody came back, `Quiet`: a
node that leads or is about to has every lower node dead, and an election under way
has seen every live lower node among those it asked. From it `ElectionInvariance`,
`OneLeader`, `ElectionTypeCorrect`.

*ClusterProofs, FollowerSync.* `TypeOK` needs `Bounded`: calls, labels and loops are about
entries of the log. `BelievedHolds` needs `Heard`: answers on their way, too, name
entries that are there, until a restart. `NothingIsSkipped` needs `Applied`: while no
snapshot did harm, the models cover `applied_index`, the apply loop goes on right
behind it, and a snapshot is half installed only when no loop is at work, with the
models covering its label. The proof is for any number of restarts and faults
together; `node` has a restart only.

*StoreProofs, ModelStore.* Types with `Numbered` (no item, event or hash of an
operation yet to come). `ConfirmedStays` (`ConfirmedIsLogged`) follows from where the
event of an answered operation can be; `ChainUnbroken` (`ChainHolds`) from `ChainEnds`:
without a failed flush, the last readable line has the hash that the next event will
carry. `MemoryIsLogged` (`LogFollowsMemory`) needs `MemoryInv`: an item whose memory and
log did not go separate ways has at most one change whose event is still to come, and
that one is in memory; without one, the last event in the batch tells the memory, or
else the last one that can be read (`MemoryTold`). A failed flush writes lines twice and
a crash may glue one to a torn one, so it also needs that what is buffered is still in
the batch (`KeptInBatch`), that an operation has one event (`OneEventPerOp`), and that
nothing that waits is in the file while that ends in half a line (`TornIsFresh`).

*StoreProofs, AggregateStore.* Types with `CountsInFile` (a count never exceeds the
lines of the file). `RecoveryIsComplete` (`RecoverySkipsNothing`) from `Behind`: an event
of the application's state is in the snapshot or behind the lines that recovery skips.

*StoreProofs, SessionStore.* `SessionInv`: a request's event is of the kind its purpose
asks for (`SessionKinds`); a token that a login has not stored yet is nowhere else
(`LoginIsFresh`), and any other token in use is in the log or in the hands of a request
that will write it there (`AllKnown`); all that deal with a session since the last
restart know the same expiry, and the clean-up collects none that is not over
(`SameExpiry`); as long as no deletion met another request, whoever deletes a session is
the last to have it (`Undisturbed`), map and log agree but for a login or a deletion
between the two (`MapAgrees`), and nobody writes a session after its logout
(`LoggedOutIsGone`). Each is needed for another: the log is read with every line as a
creation, so that map and log agree only because an update carries the expiry the map
already has. What the log says is the expiry of a replay at time 0; `ReplayTime` says
how a replay at another time differs from it: only in sessions that were deleted, which
it lets live until now. From the invariant `LogoutIsFinal` (`LoggedOutStaysOut`), `RestartsKeepSessions`
(`SessionsSurvive`), `CleanupIsSafe` (`CleanupSparesTheValid`, an action property).

*MemoryProofs, StateEngine.* Types with `Tagged`: the channel holds at most one flush request,
of a thread that waits. `IndexIsRight` (`IndexMatches`) and `ValuesUnique`
(`ValuesAreUnique`) from `IndexInv`: one thread at a time has a key's entry, and the
entry holds that thread's event (`OneAtATime`); while an entry is changed the index goes
from the old value to none to the new one, and follows it otherwise (`IndexFollows`); and a
value that did not race is claimed by one key, in the index or by an event that passed its
check (`OneHolds`). Needed together: that a check finds no other key in the index says
something of the threads on their way only through `OneHolds`, and of the entries only
through `IndexFollows`. `LogIsComplete`
(`LogTellsAll`) from `LogInv`: where threads did not overlap, at most one has an event of
an entry in hand, the entry holds it, and without one the last event on its way is what
the entry holds; taking an event from the channel and writing, once or twice, leave that
last event the last. `FlushWaitsForAll` (`FlushIsComplete`) from `FlushInv`, which counts
the events: until a write fails, all that were sent are kept by the writer or in the
channel, and those that a flush waits for are before it.

*ClusterProofs, SchemaChange.* `VotesDecide` (`MajorityDecides`) and `AcceptedOnly`
(`OnlyAccepted`), for any finite set of voters and any bounds. The latter needs
`AcceptedInv`: what a revalidation is about to save outside of Auto mode is what it took
for the first schema.

*ClusterProofs, RollingMigration.* `MigrationInv`: until a snapshot skips some, the
follower's manager is what the entries it applied make of a new one
(`FollowerIsAPrefix`), the leader's too while its handlers keep to the order of the log
(`LeaderIsAPrefix`), no request carries a commit index that the leader has not reached.
From it `SameEntriesSameManager` (`MigrationsAgree`).

*MemoryProofs, LruCache.* `CacheInv`: there is a sequence of slots without repetition (a path)
whose nodes point to each other in its order, with head and tail at its ends; the map
has just its keys, and the free list just the other slots (`Chain`). On it, what the
pointer changes of each call do is to take an element out (`Drop`) or to put one in
front (`Push`). `WellLinked` alone is not inductive in a form to reason with, as it
reads the list by following pointers; `ListIs` proves that following them gives the path.
From the invariant `CacheIsLinked` (`WellLinked`) and `CacheRefinement`
(`RefinesRecency`): initial states map to initial states and each call of the cache to
the call of `RecencyCache` with the same answer.

*NodeProofs.* What `node` checks of an instance, for every value of the constants:
`PartsKeepTheirSpecs` says that each part of `MCNode` behaves as its own module
specifies, since a step of another part leaves its variables alone. With the theorems
above it gives `NodeTypeCorrect` (`NodeTypeOK`) and `NodeSafety`, which collects the
invariants, the action property and the refinement that the run checks.

Only model-checked: liveness (`EveryWriteConfirmed`, `EveryAppendReturns`, `Settles`,
`DesyncedReturns`, `BehindIsServed`: liveness under fairness is out of the prover's
reach) and the six violations. Every invariant and action property of a passing run,
and the three refinements, are proved; so is `FollowersConverge`, which needs no
fairness.

## 6. Not modelled

The `map` covers a few percent of the repository's implementation lines. Most of the
rest is not part of what runs in a node (examples, test worlds, benchmark clients,
procedural macros, a CLI), or is HTTP routing, parsing, formatting, file serving and
configuration without a state of its own that steps of several actors could break.

- *Failover of the write path.* A new leader starts from its own `next_index`, without
  terms or repair of the log. `ReplicatedLog` with elections and restarts does not
  finish at the bounds where its cases occur. What a lost log means for a follower is
  in `FollowerSync`.
- *Simple, optimized and Raft replication adapters.* Older paths that `serve()` does
  not start in cluster mode.
- *Anti-DDoS and firewall.* Best-effort counters that no other part reads.
- *RBAC, MFA, passwords.* Decision tables and cryptography. That the role check of a
  model handler (`http/declarative.rs:253`) reads a session without looking at its expiry
  is covered by no property; a deleted session that a replay brings back has no data,
  hence no role.
- *Proxy, frontend assets, SSE, admin UI.* Forwarding and serving of bytes.
- *Configuration and logging.* Values of settings are constants of the models.
- *Macros, CLI, examples.* Code generation and scaffolding.

Left out of modelled parts: the binary event format and the de-duplication file,
power failures, the lock-free engine and state snapshots (which `Engine` writes but
never loads), the files of the `SnapshotManager`, admin-forced resync (the same steps
on request), Strict and Manual modes and the rollback handler of schema changes (it
looks for ids where they never are), restarts of the migration manager,
`reconcile_replace_all`, `truncate_after` and `shutdown` of the WAL.

What could come next: an abstract event store that `ModelStore` and `StateEngine`
both refine, and the failover composition with a coarser write path (that of
`FollowerSync`).
