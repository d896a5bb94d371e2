-------------------------------- MODULE MCNode --------------------------------
(***************************************************************************)
(* The parts of a node beside the write path, the write-ahead log and the  *)
(* elections, in one run: followers kept up to date by the background      *)
(* task, a model's items and event log, the state of an Engine, aggregate  *)
(* files, sessions, schema changes, migrations and the LRU cache.          *)
(*                                                                         *)
(* In the program they share no state, so the run takes one part at a      *)
(* time: every behaviour is one of the part it begins with.                *)
(***************************************************************************)
EXTENDS FollowerSync, ModelStore, StateEngine, AggregateStore, SessionStore, SchemaChange,
        RollingMigration, LruCache, TLC

VARIABLE part

nodeVars == <<part, vars, storeVars, engineVars, aggregateVars, sessionVars, schemaVars,
              migrationVars, cacheVars>>

Part == {"sync", "store", "engine", "aggregate", "session", "schema", "migration", "cache"}

NodeInit ==
    /\ part \in Part
    /\ Init /\ StoreInit /\ EngineInit /\ AggregateInit /\ SessionInit /\ MigrationInit
    /\ CacheInit
    /\ SchemaInit
    /\ part # "schema" => /\ mode = "Warn" /\ binarySchema = CHOOSE s \in Schema : TRUE
                          /\ storedSchema = binarySchema

\* Only the variables of one part change.
Rest(p) ==
    /\ part = p /\ UNCHANGED part
    /\ p # "sync" => UNCHANGED vars
    /\ p # "store" => UNCHANGED storeVars
    /\ p # "engine" => UNCHANGED engineVars
    /\ p # "aggregate" => UNCHANGED aggregateVars
    /\ p # "session" => UNCHANGED sessionVars
    /\ p # "schema" => UNCHANGED schemaVars
    /\ p # "migration" => UNCHANGED migrationVars
    /\ p # "cache" => UNCHANGED cacheVars

NodeNext ==
    \/ Rest("sync") /\ NextWithRestarts
    \/ Rest("store") /\ StoreNext
    \/ Rest("engine") /\ EngineNext
    \/ Rest("aggregate") /\ AggregateNext
    \/ Rest("session") /\ SessionNext
    \/ Rest("schema") /\ SchemaNext
    \/ Rest("migration") /\ MigrationNext
    \/ Rest("cache") /\ CacheNext

NodeSpec == NodeInit /\ [][NodeNext]_nodeVars

\* Every part's variables have their types.
NodeTypeOK ==
    /\ part \in Part
    /\ part = "sync" => TypeOK
    /\ part = "store" => StoreTypeOK
    /\ part = "engine" => EngineTypeOK
    /\ part = "aggregate" => AggregateTypeOK
    /\ part = "session" => SessionTypeOK
    /\ part = "schema" => SchemaTypeOK
    /\ part = "migration" => MigrationTypeOK

\* Bound: what follows the snapshot that left the follower without migrations is
\* not explored (MigrationsAgree says nothing of it).
NoneSkipped == ~skipped

Interchangeable == Permutations(Voter) \cup Permutations(Schema)
=============================================================================
