------------------------------- MODULE NodeProofs -------------------------------
(***************************************************************************)
(* What the run of MCNode checks on one instance, for every value of the   *)
(* constants: each part of the node behaves as its own specification says, *)
(* and so has the properties proved of it in ClusterProofs, StoreProofs    *)
(* and MemoryProofs.                                                       *)
(***************************************************************************)
EXTENDS MCNode, ClusterProofs, StoreProofs, MemoryProofs

\* A step of the node is a step of one part, and the others stay as they are.
LEMMA StepOfOnePart ==
    ASSUME [NodeNext]_nodeVars
    PROVE  /\ [NextWithRestarts]_vars
           /\ [StoreNext]_storeVars
           /\ [EngineNext]_engineVars
           /\ [AggregateNext]_aggregateVars
           /\ [SessionNext]_sessionVars
           /\ [SchemaNext]_schemaVars
           /\ [MigrationNext]_migrationVars
           /\ [CacheNext]_cacheVars
<1>1. CASE UNCHANGED nodeVars
  BY <1>1 DEF nodeVars
<1>2. CASE Rest("sync") /\ NextWithRestarts
  BY <1>2 DEF Rest
<1>3. CASE Rest("store") /\ StoreNext
  BY <1>3 DEF Rest
<1>4. CASE Rest("engine") /\ EngineNext
  BY <1>4 DEF Rest
<1>5. CASE Rest("aggregate") /\ AggregateNext
  BY <1>5 DEF Rest
<1>6. CASE Rest("session") /\ SessionNext
  BY <1>6 DEF Rest
<1>7. CASE Rest("schema") /\ SchemaNext
  BY <1>7 DEF Rest
<1>8. CASE Rest("migration") /\ MigrationNext
  BY <1>8 DEF Rest
<1>9. CASE Rest("cache") /\ CacheNext
  BY <1>9 DEF Rest
<1> QED BY <1>1, <1>2, <1>3, <1>4, <1>5, <1>6, <1>7, <1>8, <1>9 DEF NodeNext

\* Every part of the node behaves as its own module specifies, whatever the
\* others do in between: what is proved of a part alone holds in the node.
THEOREM PartsKeepTheirSpecs ==
    NodeSpec => /\ Spec /\ StoreSpec /\ EngineSpec /\ AggregateSpec
                /\ SessionSpec /\ SchemaSpec /\ MigrationSpec /\ CacheSpec
<1>1. NodeInit => /\ Init /\ StoreInit /\ EngineInit /\ AggregateInit
                  /\ SessionInit /\ SchemaInit /\ MigrationInit /\ CacheInit
  BY DEF NodeInit
<1> QED BY <1>1, StepOfOnePart, PTL DEF NodeSpec, Spec, StoreSpec, EngineSpec, AggregateSpec,
           SessionSpec, SchemaSpec, MigrationSpec, CacheSpec

\* The run stays with the part it began with.
LEMMA OnePart == NodeSpec => [](part \in Part)
<1>1. NodeInit => part \in Part
  BY DEF NodeInit
<1>2. ASSUME NEW p, Rest(p) PROVE part' = part
  BY <1>2 DEF Rest
<1>3. ASSUME part \in Part, [NodeNext]_nodeVars PROVE (part \in Part)'
  <2>1. CASE NodeNext
    BY <1>2, <1>3, <2>1 DEF NodeNext
  <2>2. CASE UNCHANGED nodeVars
    BY <1>3, <2>2 DEF nodeVars
  <2> QED BY <1>3, <2>1, <2>2
<1> QED BY <1>1, <1>3, PTL DEF NodeSpec

\* Type correctness of the node: the variables of every part have their types.
THEOREM NodeTypeCorrect == NodeSpec => []NodeTypeOK
<1>1. ASSUME part \in Part, TypeOK, StoreTypeOK, EngineTypeOK, AggregateTypeOK, SessionTypeOK,
             SchemaTypeOK, MigrationTypeOK
      PROVE  NodeTypeOK
  BY <1>1 DEF NodeTypeOK
<1> QED BY <1>1, OnePart, PartsKeepTheirSpecs, SyncTypeCorrect, StoreTypeCorrect,
           EngineTypeCorrect, AggregateTypeCorrect, SessionTypeCorrect, SchemaTypeCorrect,
           MigrationTypeCorrect, PTL

\* The safety of a node: what a follower marks as applied it has, events tell
\* what is in memory and on file, unique values are unique, who logged out stays
\* out, only accepted schemas are in force, managers of migrations agree, and the
\* list of a cache tells what its map holds.
THEOREM NodeSafety ==
    NodeSpec => /\ [](BelievedIsThere /\ NothingSkipped)
                /\ [](ConfirmedIsLogged /\ LogFollowsMemory /\ ChainHolds)
                /\ [](ValuesAreUnique /\ IndexMatches /\ LogTellsAll /\ FlushIsComplete)
                /\ []RecoverySkipsNothing
                /\ [](LoggedOutStaysOut /\ SessionsSurvive) /\ CleanupSparesTheValid
                /\ [](MajorityDecides /\ OnlyAccepted)
                /\ []MigrationsAgree
                /\ []WellLinked /\ RefinesRecency
<1>1. NodeSpec => [](BelievedIsThere /\ NothingSkipped)
  BY PartsKeepTheirSpecs, BelievedHolds, NothingIsSkipped, PTL
<1>2. NodeSpec => [](ConfirmedIsLogged /\ LogFollowsMemory /\ ChainHolds)
  BY PartsKeepTheirSpecs, ConfirmedStays, MemoryIsLogged, ChainUnbroken, PTL
<1>3. NodeSpec => [](ValuesAreUnique /\ IndexMatches /\ LogTellsAll /\ FlushIsComplete)
  BY PartsKeepTheirSpecs, ValuesUnique, IndexIsRight, LogIsComplete, FlushWaitsForAll, PTL
<1>4. NodeSpec => []RecoverySkipsNothing
  BY PartsKeepTheirSpecs, RecoveryIsComplete, PTL
<1>5. NodeSpec => [](LoggedOutStaysOut /\ SessionsSurvive) /\ CleanupSparesTheValid
  BY PartsKeepTheirSpecs, LogoutIsFinal, RestartsKeepSessions, CleanupIsSafe, PTL
<1>6. NodeSpec => [](MajorityDecides /\ OnlyAccepted)
  BY PartsKeepTheirSpecs, VotesDecide, AcceptedOnly, PTL
<1>7. NodeSpec => []MigrationsAgree /\ []WellLinked /\ RefinesRecency
  BY PartsKeepTheirSpecs, SameEntriesSameManager, CacheIsLinked, CacheRefinement, PTL
<1> QED BY <1>1, <1>2, <1>3, <1>4, <1>5, <1>6, <1>7, PTL
===============================================================================
