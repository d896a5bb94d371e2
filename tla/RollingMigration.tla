--------------------------- MODULE RollingMigration ---------------------------
(***************************************************************************)
(* Schema migrations of a cluster: the operations of POST /_raft/migrate   *)
(* on the leader (handle_migrate_operation of app/mod.rs), their way       *)
(* through the consensus log to a follower, and the MigrationManager of    *)
(* each node (cluster/upgrade.rs) that they are applied to.                *)
(*                                                                         *)
(* The log holds migration operations only; a migration is between         *)
(* versions 0..MaxVersion.  A step changes nothing but the rollback log    *)
(* (apply_schema_change is a stub that logs and returns the inverse).      *)
(* The leader stays the leader; restarts, which reset the manager to the   *)
(* initial version, are left out.  A snapshot of the models brings no      *)
(* migrations with it, but marks the entries up to its index as applied.   *)
(***************************************************************************)
EXTENDS Integers, Sequences, FiniteSets

CONSTANTS
    MigrationId,        \* ids of migrations
    MaxVersion,         \* bound: versions 0..MaxVersion
    MaxMigrationOps,    \* bound: operations
    MaxHandlers         \* bound: handlers under way at a time

ASSUME MigrationAssumption == MaxVersion \in Nat /\ MaxMigrationOps \in Nat

Version == 0..MaxVersion
Member == {"leader", "follower"}
LogIndex == 1..MaxMigrationOps

\* CrudOperation; only MigrationBegin has versions, here of a step to the next.
MigrationOp ==
    [kind : {"begin"}, id : MigrationId, from : 0..(MaxVersion - 1)]
    \cup [kind : {"step", "commit", "rollback"}, id : MigrationId, from : {0}]

\* MigrationContext; the rollback log is counted.
Context == [id : MigrationId, to : Version, steps : Nat]
Ended == [id : MigrationId, status : {"Committed", "RolledBack"}]
Manager == [version : Version, active : SUBSET Context, completed : Seq(Ended)]

VARIABLES
    migrationLog,       \* entries, in the order append gave them their indexes
    migrating,          \* handlers of the leader under way
    onTheWay,           \* append requests to the follower; one that stays there is lost
    leaderCommit, followerHas, followerCommit, followerApplied,
    manager,            \* MigrationManager of each member
    leaderApplied,      \* history: entries the leader applied, in order
    skipped             \* history: a snapshot marked entries that were not applied

migrationVars == <<migrationLog, migrating, onTheWay, leaderCommit, followerHas, followerCommit,
                   followerApplied, manager, leaderApplied, skipped>>

MigrationInit ==
    /\ migrationLog = <<>> /\ migrating = {} /\ onTheWay = {}
    /\ leaderCommit = 0 /\ followerHas = {} /\ followerCommit = 0 /\ followerApplied = 0
    /\ manager = [n \in Member |-> [version |-> 0, active |-> {}, completed |-> <<>>]]
    /\ leaderApplied = <<>> /\ skipped = FALSE

Highest(a, b) == IF a >= b THEN a ELSE b

(* MigrationManager. *)

\* begin_migration: one at a time, and from the current version.
BeginMigration(m, op) ==
    IF m.active = {} /\ m.version = op.from
    THEN [m EXCEPT !.active = {[id |-> op.id, to |-> op.from + 1, steps |-> 0]}]
    ELSE m

\* record_step; an unknown migration is only logged.
RecordStep(m, op) ==
    [m EXCEPT !.active = {IF c.id = op.id THEN [c EXCEPT !.steps = @ + 1] ELSE c : c \in @}]

\* commit_migration and rollback_migration of an active migration.
EndMigration(m, op) ==
    LET mine == {c \in m.active : c.id = op.id}
        ended(status) == [m EXCEPT !.active = @ \ mine,
                                   !.completed = Append(@, [id |-> op.id, status |-> status])]
    IN
    CASE mine = {} -> m
      [] mine # {} /\ op.kind = "commit" ->
            [ended("Committed") EXCEPT !.version = (CHOOSE c \in mine : TRUE).to]
      [] mine # {} /\ op.kind = "rollback" -> ended("RolledBack")

\* Err: a migration is under way or begins elsewhere, or none has that id.
Refused(m, op) ==
    \/ op.kind = "begin" /\ (m.active # {} \/ m.version # op.from)
    \/ op.kind \in {"commit", "rollback"} /\ \A c \in m.active : c.id # op.id

\* The migration operations of apply_crud_operation; one that is refused changes
\* nothing.
ApplyMigration(m, op) ==
    CASE op.kind = "begin" -> BeginMigration(m, op)
      [] op.kind = "step" -> RecordStep(m, op)
      [] OTHER -> EndMigration(m, op)

(* The leader. *)

\* The entry is appended and sent alone, with the commit index of this moment.
SubmitMigration(op) ==
    LET i == Len(migrationLog) + 1 IN
    /\ i <= MaxMigrationOps /\ Cardinality(migrating) < MaxHandlers
    /\ migrationLog' = Append(migrationLog, op)
    /\ migrating' = migrating \cup {[idx |-> i, stage |-> "sent"]}
    /\ onTheWay' = onTheWay \cup {[idx |-> i, commit |-> leaderCommit]}
    /\ UNCHANGED <<leaderCommit, followerHas, followerCommit, followerApplied, manager,
                   leaderApplied, skipped>>

\* A majority has it (this follower or others): commit.
MigrationCommits(h) ==
    /\ h \in migrating /\ h.stage = "sent"
    /\ migrating' = (migrating \ {h}) \cup {[h EXCEPT !.stage = "committed"]}
    /\ leaderCommit' = Highest(leaderCommit, h.idx)
    /\ UNCHANGED <<migrationLog, onTheWay, followerHas, followerCommit, followerApplied, manager,
                   leaderApplied, skipped>>

\* 503; the entry stays in the log.
MigrationFails(h) ==
    /\ h \in migrating /\ h.stage = "sent"
    /\ migrating' = migrating \ {h}
    /\ UNCHANGED <<migrationLog, onTheWay, leaderCommit, followerHas, followerCommit,
                   followerApplied, manager, leaderApplied, skipped>>

\* The handler applies its own operation, without the apply lock; it answers 500
\* if that is refused, and goes on all the same.
LeaderAppliesMigration(h) ==
    /\ h \in migrating /\ h.stage = "committed"
    /\ migrating' = migrating \ {h}
    /\ manager' = [manager EXCEPT !["leader"] = ApplyMigration(@, migrationLog[h.idx])]
    /\ leaderApplied' = Append(leaderApplied, h.idx)
    /\ UNCHANGED <<migrationLog, onTheWay, leaderCommit, followerHas, followerCommit,
                   followerApplied, skipped>>

(* The follower. *)

\* The apply loop: get_unapplied_entries gives the entries up to the commit index
\* or the first gap, and the loop stops before the first that is refused.
FollowerRuns(has, c, last) ==
    LET m[i \in followerApplied..last] ==
            IF i = followerApplied THEN manager["follower"]
            ELSE ApplyMigration(m[i - 1], migrationLog[i])
    IN
    /\ \A i \in (followerApplied + 1)..last :
          i <= c /\ i \in has /\ ~Refused(m[i - 1], migrationLog[i])
    /\ last < c /\ last + 1 \in has => Refused(m[last], migrationLog[last + 1])
    /\ manager' = [manager EXCEPT !["follower"] = m[last]]

\* As a bug would have it: what was applied is not marked.
FollowerTakesUnmarked(has, c) ==
    /\ followerHas' = has
    /\ followerCommit' = c
    /\ \E last \in followerApplied..MaxMigrationOps : FollowerRuns(has, c, last)
    /\ UNCHANGED followerApplied

\* append_entries, then the entries that became applicable, in order, under the
\* apply lock.  One that is refused is not marked, nor is anything behind it: the
\* follower answers success = false from then on.
FollowerTakes(has, c) ==
    /\ followerHas' = has
    /\ followerCommit' = c
    /\ \E last \in followerApplied..MaxMigrationOps :
         /\ FollowerRuns(has, c, last)
         /\ followerApplied' = last

FollowerAppends(r) ==
    /\ r \in onTheWay
    /\ onTheWay' = onTheWay \ {r}
    /\ FollowerTakes(followerHas \cup {r.idx}, Highest(followerCommit, r.commit))
    /\ UNCHANGED <<migrationLog, migrating, leaderCommit, leaderApplied, skipped>>

\* Incremental catch-up by the background task of the leader.
FollowerCatchesUp ==
    /\ FollowerTakes(1..Len(migrationLog), Highest(followerCommit, leaderCommit))
    /\ UNCHANGED <<migrationLog, migrating, onTheWay, leaderCommit, leaderApplied, skipped>>

\* A snapshot that the background task sent to a desynced follower, with the
\* leader's commit index of that moment, is installed.
FollowerInstalls(label) ==
    /\ followerApplied < label
    /\ followerApplied' = label
    /\ skipped' = TRUE
    /\ UNCHANGED <<migrationLog, migrating, onTheWay, leaderCommit, followerHas, followerCommit,
                   manager, leaderApplied>>

MigrationNext ==
    \/ \E op \in MigrationOp : SubmitMigration(op)
    \/ \E h \in migrating : MigrationCommits(h) \/ MigrationFails(h) \/ LeaderAppliesMigration(h)
    \/ \E r \in onTheWay : FollowerAppends(r)
    \/ FollowerCatchesUp
    \/ \E label \in 1..leaderCommit : FollowerInstalls(label)

MigrationSpec == MigrationInit /\ [][MigrationNext]_migrationVars

----------------------------------------------------------------------------
(* Properties. *)

MigrationTypeOK ==
    /\ migrationLog \in Seq(MigrationOp) /\ Len(migrationLog) <= MaxMigrationOps
    /\ migrating \in SUBSET [idx : 1..Len(migrationLog), stage : {"sent", "committed"}]
    /\ onTheWay \in SUBSET [idx : 1..Len(migrationLog), commit : 0..Len(migrationLog)]
    /\ leaderCommit \in 0..Len(migrationLog) /\ followerCommit \in 0..leaderCommit
    /\ followerHas \in SUBSET (1..Len(migrationLog))
    /\ followerApplied \in 0..leaderCommit
    /\ manager \in [Member -> Manager]
    /\ leaderApplied \in Seq(LogIndex)
    /\ skipped \in BOOLEAN

\* As long as handlers of the leader applied their operations in log order and
\* none was left out, the follower's manager is where the leader's was after the
\* same entries: same version, same active migration, same outcomes.  Lost,
\* delayed and reordered requests do not change that.  An operation that the
\* managers refuse stops the follower, not the leader, so that it never has as
\* many entries as the leader again, until a snapshot marks them unseen.
\* (Handlers that overlap, one that answers 503, and a snapshot do break it:
\* nothing orders handlers on the leader, and a snapshot has no migrations.)
MigrationsAgree ==
    (/\ ~skipped
     /\ leaderApplied = [i \in 1..Len(leaderApplied) |-> i]
     /\ followerApplied = Len(leaderApplied)) =>
        manager["follower"] = manager["leader"]
=============================================================================
