------------------------ MODULE LeaderElectionProofs ------------------------
(***************************************************************************)
(* Proofs about LeaderElection for any number of nodes and faults: type    *)
(* correctness, and no two live leaders while nothing is late and no node  *)
(* comes back.                                                             *)
(***************************************************************************)
EXTENDS LeaderElection, TLAPS

LowerAreDown(n) == \A m \in Node : m < n => ~up[m]

\* While nothing was late and nobody came back, a peer that did not answer its
\* probe is dead, and who leads or is about to has found all lower ids dead.
Quiet ==
    /\ \A n \in Node : \A m \in probed[n] \ alive[n] : ~up[m]
    /\ \A n \in Node : monitor[n].left > 0 /\ monitor[n].to = n => LowerAreDown(n)
    /\ \A n \in Node : leading[n] => LowerAreDown(n)

\* A heartbeat handler never promotes its node.
HandlersFollow ==
    /\ \A n \in Node : <<n, n>> \notin beats
    /\ \A n \in Node : handler[n].left > 0 => handler[n].to # n

EInv == TypeOK /\ HandlersFollow /\ (restarts = 0 /\ delays = 0 => Quiet)

----------------------------------------------------------------------------
Task == [to : Node, left : 0..4]

\* Node 0 is a node, and the tasks that stores start from and end in are tasks.
LEMMA TaskFacts ==
    /\ 0 \in Node /\ Idle \in Task
    /\ \A w \in Node : Become(w) \in Task
    /\ \A t \in Task : t.left > 0 => Done(t) \in Task
<1>1. 0 \in Node
  BY SizeAssumption DEF Node
<1>2. \A t \in Task : t.left > 0 => [t EXCEPT !.left = @ - 1] \in Task
  BY DEF Task
<1> QED BY <1>1, <1>2 DEF Task, Idle, Become, Done

\* One store of a task keeps the types of the fields.
LEMMA StoreType ==
    ASSUME TypeOK, NEW n \in Node, NEW t \in Task, Store(n, t)
    PROVE  /\ leading' \in [Node -> BOOLEAN] /\ leader' \in [Node -> Node]
           /\ port' \in [Node -> Node] /\ fresh' \in [Node -> BOOLEAN]
<1>1. t.to \in Node
  BY DEF Task
<1>2. leading' \in [Node -> BOOLEAN]
  BY DEF Store, TypeOK
<1>3. leader' \in [Node -> Node]
  BY <1>1 DEF Store, TypeOK
<1>4. port' \in [Node -> Node]
  BY <1>1 DEF Store, TypeOK
<1>5. fresh' \in [Node -> BOOLEAN]
  BY DEF Store, TypeOK
<1> QED BY <1>2, <1>3, <1>4, <1>5

\* The initial state has the types.
LEMMA ElectionTypeInit == Init => TypeOK
  BY TaskFacts, BoundsAssumption DEF Init, TypeOK, Task, FirstLeader, StartsAsLeader

\* Every step keeps the types.
LEMMA ElectionTypeNext == ASSUME TypeOK, [Next]_vars PROVE TypeOK'
<1> USE BoundsAssumption
<1>1. ASSUME NEW n \in Node, NEW p \in Node, SendHeartbeat(n, p) PROVE TypeOK'
  BY <1>1 DEF SendHeartbeat, TypeOK, fields, tasks, counts
<1>2. ASSUME NEW n \in Node, NEW p \in Node, HandleHeartbeat(p, n) PROVE TypeOK'
  <2>1. handler' \in [Node -> Task]
    BY <1>2, TaskFacts DEF HandleHeartbeat, TypeOK, Task
  <2>2. fresh' \in [Node -> BOOLEAN] /\ beats' \subseteq Node \X Node
    BY <1>2 DEF HandleHeartbeat, TypeOK
  <2> QED BY <1>2, <2>1, <2>2 DEF HandleHeartbeat, TypeOK, Task, counts
<1>3. ASSUME NEW n \in Node, HandlerStore(n) PROVE TypeOK'
  <2>1. handler[n] \in Task /\ handler[n].left > 0 /\ Store(n, handler[n])
    BY <1>3 DEF HandlerStore, TypeOK, Task
  <2>2. handler' \in [Node -> Task]
    BY <1>3, <2>1, TaskFacts DEF HandlerStore, TypeOK, Task
  <2>3. /\ leading' \in [Node -> BOOLEAN] /\ leader' \in [Node -> Node]
        /\ port' \in [Node -> Node] /\ fresh' \in [Node -> BOOLEAN]
    BY <2>1, StoreType
  <2> QED BY <1>3, <2>2, <2>3 DEF HandlerStore, TypeOK, Task, counts
<1>4. ASSUME NEW n \in Node, HeartbeatTimeout(n) PROVE TypeOK'
  BY <1>4 DEF HeartbeatTimeout, TypeOK, tasks, counts
<1>5. ASSUME NEW n \in Node, StartElection(n) PROVE TypeOK'
  BY <1>5 DEF StartElection, TypeOK, fields, counts
<1>6. ASSUME NEW n \in Node, NEW p \in Node, Probe(n, p) PROVE TypeOK'
  BY <1>6 DEF Probe, TypeOK, fields, counts
<1>7. ASSUME NEW n \in Node, ElectionEnds(n) PROVE TypeOK'
  <2>1. monitor' \in [Node -> Task]
    BY <1>7, TaskFacts DEF ElectionEnds, TypeOK, Task
  <2> QED BY <1>7, <2>1 DEF ElectionEnds, TypeOK, Task, fields, counts
<1>8. ASSUME NEW n \in Node, MonitorStore(n) PROVE TypeOK'
  <2>1. monitor[n] \in Task /\ monitor[n].left > 0 /\ Store(n, monitor[n])
    BY <1>8 DEF MonitorStore, TypeOK, Task
  <2>2. monitor' \in [Node -> Task]
    BY <1>8, <2>1, TaskFacts DEF MonitorStore, TypeOK, Task
  <2>3. /\ leading' \in [Node -> BOOLEAN] /\ leader' \in [Node -> Node]
        /\ port' \in [Node -> Node] /\ fresh' \in [Node -> BOOLEAN]
    BY <2>1, StoreType
  <2> QED BY <1>8, <2>2, <2>3 DEF MonitorStore, TypeOK, Task, counts
<1>9. ASSUME NEW n \in Node, LateHeartbeat(n) PROVE TypeOK'
  BY <1>9 DEF LateHeartbeat, TypeOK, tasks
<1>10. ASSUME NEW n \in Node, NEW p \in Node, ProbeTimeout(n, p) PROVE TypeOK'
  BY <1>10 DEF ProbeTimeout, TypeOK, fields
<1>11. ASSUME NEW n \in Node, Crash(n) PROVE TypeOK'
  <2>1. monitor' \in [Node -> Task] /\ handler' \in [Node -> Task]
    BY <1>11, TaskFacts DEF Crash, TypeOK, Task
  <2>2. /\ up' \in [Node -> BOOLEAN] /\ electing' \in [Node -> BOOLEAN]
        /\ probed' \in [Node -> SUBSET Node] /\ alive' \in [Node -> SUBSET Node]
    BY <1>11 DEF Crash, TypeOK
  <2>3. beats' \subseteq Node \X Node /\ crashes' \in 0..MaxCrashes
    BY <1>11 DEF Crash, TypeOK
  <2> QED BY <1>11, <2>1, <2>2, <2>3 DEF Crash, TypeOK, Task, fields
<1>12. ASSUME NEW n \in Node, Restart(n) PROVE TypeOK'
  <2>1. /\ up' \in [Node -> BOOLEAN] /\ leading' \in [Node -> BOOLEAN]
        /\ fresh' \in [Node -> BOOLEAN]
    BY <1>12 DEF Restart, TypeOK, StartsAsLeader
  <2>2. /\ leader' \in [Node -> Node] /\ port' \in [Node -> Node]
        /\ restarts' \in 0..MaxRestarts
    BY <1>12, TaskFacts DEF Restart, TypeOK, FirstLeader
  <2> QED BY <1>12, <2>1, <2>2 DEF Restart, TypeOK, tasks
<1>13. ASSUME NEW n \in Node, NEW p \in Node, HandleAppend(n, p) PROVE TypeOK'
  BY <1>13 DEF HandleAppend, TypeOK, tasks, counts
<1>14. ASSUME NEW n \in Node, LateAppend(n) PROVE TypeOK'
  BY <1>14 DEF LateAppend, TypeOK, tasks
<1>15. CASE UNCHANGED vars
  BY <1>15 DEF vars, fields, tasks, counts, TypeOK
<1> QED
  BY <1>1, <1>2, <1>3, <1>4, <1>5, <1>6, <1>7, <1>8, <1>9, <1>10, <1>11, <1>12, <1>13,
     <1>14, <1>15
  DEF Next, MonitorStep, Fault

----------------------------------------------------------------------------
(* The invariant. *)

\* Initially only node 0 leads, and no id is lower.
LEMMA ElectionInit == Init => EInv
<1> SUFFICES ASSUME Init PROVE EInv
  OBVIOUS
<1>1. TypeOK
  BY ElectionTypeInit
<1>2. HandlersFollow
  BY DEF Init, HandlersFollow, Idle
<1>3. Quiet
  <2>1. \A n \in Node : leading[n] => n = 0
    BY DEF Init, StartsAsLeader
  <2>2. LowerAreDown(0)
    BY SizeAssumption DEF LowerAreDown, Node
  <2>3. \A n \in Node : monitor[n].left = 0 /\ probed[n] = {}
    BY DEF Init, Idle
  <2> QED BY <2>1, <2>2, <2>3 DEF Quiet
<1> QED BY <1>1, <1>2, <1>3 DEF EInv

\* A heartbeat handler only ever follows another node.
LEMMA FollowNext == ASSUME EInv, [Next]_vars PROVE HandlersFollow'
<1> USE DEF EInv, HandlersFollow
<1>1. ASSUME NEW n \in Node, NEW p \in Node, SendHeartbeat(n, p) PROVE HandlersFollow'
  BY <1>1 DEF SendHeartbeat, Peers, tasks
<1>2. ASSUME NEW n \in Node, NEW p \in Node, HandleHeartbeat(p, n) PROVE HandlersFollow'
  <2>1. p # n
    BY <1>2 DEF HandleHeartbeat
  <2>2. \A m \in Node : m # n => handler'[m] = handler[m]
    BY <1>2 DEF HandleHeartbeat, TypeOK
  <2>3. handler'[n] = Become(p) \/ handler'[n] = handler[n]
    BY <1>2 DEF HandleHeartbeat, TypeOK
  <2> QED BY <1>2, <2>1, <2>2, <2>3 DEF HandleHeartbeat, Become
<1>3. ASSUME NEW n \in Node, HandlerStore(n) PROVE HandlersFollow'
  <2>1. \A m \in Node : m # n => handler'[m] = handler[m]
    BY <1>3 DEF HandlerStore, TypeOK
  <2>2. handler'[n] = Done(handler[n]) /\ handler[n] \in Task /\ handler[n].left > 0
    BY <1>3 DEF HandlerStore, TypeOK, Task
  <2>3. handler'[n].left > 0 => handler'[n].to = handler[n].to
    BY <2>2 DEF Done, Idle, Task
  <2> QED BY <1>3, <2>1, <2>2, <2>3 DEF HandlerStore
<1>4. ASSUME NEW n \in Node, NEW p \in Node,
             MonitorStep(n) \/ HeartbeatTimeout(n) \/ HandleAppend(n, p)
      PROVE  HandlersFollow'
  BY <1>4 DEF MonitorStep, HeartbeatTimeout, HandleAppend, StartElection, Probe,
              ElectionEnds, MonitorStore, tasks
<1>5. ASSUME NEW n \in Node, Crash(n) PROVE HandlersFollow'
  <2>1. \A m \in Node : m # n => handler'[m] = handler[m]
    BY <1>5 DEF Crash, TypeOK
  <2>2. handler'[n].left = 0
    BY <1>5 DEF Crash, TypeOK, Idle
  <2> QED BY <1>5, <2>1, <2>2 DEF Crash
<1>6. ASSUME NEW n \in Node, NEW p \in Node,
             LateHeartbeat(n) \/ LateAppend(n) \/ ProbeTimeout(n, p) \/ Restart(n)
      PROVE  HandlersFollow'
  BY <1>6 DEF LateHeartbeat, LateAppend, ProbeTimeout, Restart, tasks
<1>7. CASE UNCHANGED vars
  BY <1>7 DEF vars, tasks
<1> QED
  BY <1>1, <1>2, <1>3, <1>4, <1>5, <1>6, <1>7 DEF Next, Fault

\* A store makes a node lead only if it is of the monitor's election of itself.
LEMMA StoreQuiet ==
    ASSUME EInv, Quiet, NEW n \in Node, NEW t \in Task, Store(n, t), t.left > 0,
           t.to = n => LowerAreDown(n)
    PROVE  \A m \in Node : leading'[m] => LowerAreDown(m)
<1>1. \A m \in Node : m # n => leading'[m] = leading[m]
  BY DEF Store, EInv, TypeOK
<1>2. leading'[n] => leading[n] \/ t.to = n
  BY DEF Store, EInv, TypeOK
<1> QED BY <1>1, <1>2 DEF Quiet

\* No step but a restart or a delay disturbs what is known of the dead.
LEMMA QuietNext ==
    ASSUME EInv, [Next]_vars, restarts' = 0, delays' = 0 PROVE Quiet'
<1>1. restarts = 0 /\ delays = 0
  <2>1. restarts \in Nat /\ delays \in Nat
    BY BoundsAssumption DEF EInv, TypeOK
  <2>2. restarts' = restarts \/ restarts' = restarts + 1
    BY DEF Next, MonitorStep, Fault, SendHeartbeat, HandleHeartbeat, HandlerStore,
           HandleAppend, HeartbeatTimeout, StartElection, Probe, ElectionEnds,
           MonitorStore, LateHeartbeat, LateAppend, ProbeTimeout, Crash, Restart, vars, counts
  <2>3. delays' = delays \/ delays' = delays + 1
    BY DEF Next, MonitorStep, Fault, SendHeartbeat, HandleHeartbeat, HandlerStore,
           HandleAppend, HeartbeatTimeout, StartElection, Probe, ElectionEnds,
           MonitorStore, LateHeartbeat, LateAppend, ProbeTimeout, Crash, Restart, vars, counts
  <2> QED BY <2>1, <2>2, <2>3
<1>2. Quiet
  BY <1>1 DEF EInv
<1>3. ASSUME NEW n \in Node, NEW p \in Node,
             \/ SendHeartbeat(n, p) \/ HandleHeartbeat(p, n) \/ HandleAppend(n, p)
             \/ HeartbeatTimeout(n) \/ StartElection(n) \/ UNCHANGED vars
      PROVE  Quiet'
  <2>1. UNCHANGED <<up, leading, probed, alive, monitor>>
    BY <1>3 DEF SendHeartbeat, HandleHeartbeat, HandleAppend, HeartbeatTimeout,
                StartElection, fields, tasks, vars
  <2> QED BY <1>2, <2>1 DEF Quiet, LowerAreDown
<1>4. ASSUME NEW n \in Node, HandlerStore(n) PROVE Quiet'
  <2>1. UNCHANGED <<up, probed, alive, monitor>>
    BY <1>4 DEF HandlerStore
  <2>2. \A m \in Node : leading'[m] => LowerAreDown(m)
    <3>1. handler[n] \in Task /\ handler[n].left > 0 /\ handler[n].to # n
      BY <1>4 DEF HandlerStore, EInv, TypeOK, Task, HandlersFollow
    <3>2. Store(n, handler[n])
      BY <1>4 DEF HandlerStore
    <3> QED BY <1>2, <3>1, <3>2, StoreQuiet
  <2> QED BY <1>2, <2>1, <2>2 DEF Quiet, LowerAreDown
<1>5. ASSUME NEW n \in Node, NEW p \in Node, Probe(n, p) PROVE Quiet'
  <2>1. UNCHANGED <<up, leading, monitor>>
    BY <1>5 DEF Probe, fields
  <2>2. \A m \in Node : m # n => probed'[m] = probed[m] /\ alive'[m] = alive[m]
    BY <1>5 DEF Probe, EInv, TypeOK
  <2>3. /\ probed'[n] = probed[n] \cup {p}
        /\ alive'[n] = IF up[p] THEN alive[n] \cup {p} ELSE alive[n]
    BY <1>5 DEF Probe, EInv, TypeOK
  <2>4. \A q \in probed'[n] \ alive'[n] : ~up[q]
    BY <1>2, <2>3 DEF Quiet
  <2>5. \A m \in Node : \A q \in probed'[m] \ alive'[m] : ~up[q]
    BY <1>2, <2>2, <2>4 DEF Quiet
  <2> QED BY <1>2, <2>1, <2>5 DEF Quiet, LowerAreDown
<1>6. ASSUME NEW n \in Node, ElectionEnds(n) PROVE Quiet'
  <2>1. UNCHANGED <<up, leading>> /\ probed[n] = Peers(n)
    BY <1>6 DEF ElectionEnds, AllProbed, fields
  <2>2. PICK w \in Node : IsWinner(n, w) /\ monitor' = [monitor EXCEPT ![n] = Become(w)]
    BY <1>6 DEF ElectionEnds
  <2>3. w = n => LowerAreDown(n)
    <3> SUFFICES ASSUME w = n, NEW m \in Node, m < n PROVE ~up[m]
      BY DEF LowerAreDown
    <3>1. m \notin alive[n] /\ m # n
      BY <2>2 DEF IsWinner, Node
    <3>2. m \in probed[n]
      BY <2>1, <3>1 DEF Peers
    <3> QED BY <1>2, <3>1, <3>2 DEF Quiet
  <2>4. \A m \in Node : monitor'[m] = IF m = n THEN Become(w) ELSE monitor[m]
    BY <2>2 DEF EInv, TypeOK
  <2>5. \A m \in Node : monitor'[m].left > 0 /\ monitor'[m].to = m => LowerAreDown(m)
    <3>1. ASSUME NEW m \in Node, m # n, monitor'[m].left > 0, monitor'[m].to = m
          PROVE  LowerAreDown(m)
      BY <1>2, <2>4, <3>1 DEF Quiet
    <3>2. monitor'[n].to = n => LowerAreDown(n)
      BY <2>3, <2>4 DEF Become
    <3> QED BY <3>1, <3>2
  <2>6. \A m \in Node : /\ m # n => probed'[m] = probed[m] /\ alive'[m] = alive[m]
                        /\ m = n => probed'[m] = {}
    BY <1>6 DEF ElectionEnds, EInv, TypeOK
  <2>7. \A m \in Node : \A q \in probed'[m] \ alive'[m] : ~up[q]
    BY <1>2, <2>6 DEF Quiet
  <2> QED BY <1>2, <2>1, <2>5, <2>7 DEF Quiet, LowerAreDown
<1>7. ASSUME NEW n \in Node, MonitorStore(n) PROVE Quiet'
  <2>1. UNCHANGED <<up, probed, alive>>
    BY <1>7 DEF MonitorStore
  <2>2. monitor[n] \in Task /\ monitor[n].left > 0 /\ Store(n, monitor[n])
    BY <1>7 DEF MonitorStore, EInv, TypeOK, Task
  <2>3. \A m \in Node : leading'[m] => LowerAreDown(m)
    BY <1>2, <2>2, StoreQuiet DEF Quiet
  <2>4. /\ \A m \in Node : m # n => monitor'[m] = monitor[m]
        /\ monitor'[n] = Done(monitor[n])
    BY <1>7 DEF MonitorStore, EInv, TypeOK
  <2>5. monitor'[n].left > 0 => monitor'[n].to = monitor[n].to
    BY <2>2, <2>4 DEF Done, Idle, Task
  <2>6. \A m \in Node : monitor'[m].left > 0 /\ monitor'[m].to = m => LowerAreDown(m)
    BY <1>2, <2>2, <2>4, <2>5 DEF Quiet
  <2> QED BY <1>2, <2>1, <2>3, <2>6 DEF Quiet, LowerAreDown
<1>8. ASSUME NEW n \in Node, Crash(n) PROVE Quiet'
  <2>1. leading' = leading /\ \A m \in Node : up'[m] => up[m]
    BY <1>8 DEF Crash, EInv, TypeOK, fields
  <2>2. \A m \in Node : LowerAreDown(m) => LowerAreDown(m)'
    BY <2>1 DEF LowerAreDown
  <2>3. \A m \in Node : m # n => /\ probed'[m] = probed[m] /\ alive'[m] = alive[m]
                                 /\ monitor'[m] = monitor[m]
    BY <1>8 DEF Crash, EInv, TypeOK
  <2>4. probed'[n] = {} /\ monitor'[n].left = 0
    BY <1>8 DEF Crash, EInv, TypeOK, Idle
  <2>5. \A m \in Node : \A q \in probed'[m] \ alive'[m] : ~up'[q]
    <3>1. \A m \in Node : probed[m] \subseteq Node
      BY DEF EInv, TypeOK
    <3> QED BY <1>2, <2>1, <2>3, <2>4, <3>1 DEF Quiet
  <2>6. \A m \in Node : monitor'[m].left > 0 /\ monitor'[m].to = m => LowerAreDown(m)
    BY <1>2, <2>3, <2>4 DEF Quiet
  <2> QED BY <1>2, <2>1, <2>2, <2>5, <2>6 DEF Quiet
<1>9. ASSUME NEW n \in Node, NEW p \in Node,
             LateHeartbeat(n) \/ LateAppend(n) \/ ProbeTimeout(n, p) \/ Restart(n)
      PROVE  FALSE
  BY <1>1, <1>9 DEF LateHeartbeat, LateAppend, ProbeTimeout, Restart
<1> QED
  BY <1>3, <1>4, <1>5, <1>6, <1>7, <1>8, <1>9, TaskFacts DEF Next, MonitorStep, Fault

----------------------------------------------------------------------------
(* The theorems. *)

\* The invariant: while no node came back and nothing was late, whoever leads, or
\* has won and is still storing it, has only dead nodes below it.
THEOREM ElectionInvariance == Spec => []EInv
<1>1. Init => EInv
  BY ElectionInit
<1>2. EInv /\ [Next]_vars => EInv'
  BY ElectionTypeNext, FollowNext, QuietNext DEF EInv
<1> QED BY <1>1, <1>2, PTL DEF Spec

\* Elections after crashes never leave two live leaders, in a cluster of any
\* size, as long as nothing is late and no crashed node comes back.
THEOREM OneLeader == Spec => []OneLiveLeader
<1>1. EInv => OneLiveLeader
  <2> SUFFICES ASSUME EInv, restarts = 0, delays = 0, NEW m \in Node, NEW n \in Node,
                      up[m], leading[m], up[n], leading[n]
               PROVE  m = n
    BY DEF OneLiveLeader
  <2>1. LowerAreDown(m) /\ LowerAreDown(n)
    BY DEF EInv, Quiet
  <2>2. ~(m < n) /\ ~(n < m)
    BY <2>1 DEF LowerAreDown
  <2> QED BY <2>2, SizeAssumption DEF Node
<1> QED BY <1>1, ElectionInvariance, PTL

\* The variables keep their types.
THEOREM ElectionTypeCorrect == Spec => []TypeOK
<1>1. EInv => TypeOK
  BY DEF EInv
<1> QED BY <1>1, ElectionInvariance, PTL
=============================================================================
