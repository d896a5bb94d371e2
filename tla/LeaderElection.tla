--------------------------- MODULE LeaderElection ---------------------------
(***************************************************************************)
(* Who leads: RaftLeadershipState (cluster/mod.rs), the heartbeat sender   *)
(* and the election monitor that serve() starts, and the heartbeat handler *)
(* (app/mod.rs).                                                           *)
(*                                                                         *)
(* A node is its node_id, and so is its port: ports are allocated in the   *)
(* order of the ids.  The fields of RaftLeadershipState are atomics that   *)
(* become_leader and become_follower store one after the other; the        *)
(* monitor task and a heartbeat handler of one node may do so at the same  *)
(* time.  current_state is left out: nothing reads it but the status page. *)
(*                                                                         *)
(* Time is a flag, fresh: last_heartbeat was set within election_timeout.  *)
(* A heartbeat sets it, and so does an append of log entries, whoever      *)
(* leads and sends it.  Heartbeats come on time while their sender lives;  *)
(* appends come when there is something to replicate, which may be never.  *)
(***************************************************************************)
EXTENDS Integers, Sequences

CONSTANTS
    N,              \* nodes of the cluster, node_id 0 to N - 1
    MaxCrashes,     \* bound: crashes
    MaxRestarts,    \* bound: restarts
    MaxDelays       \* bound: heartbeats, appends or probes that take too long

ASSUME SizeAssumption == N \in Nat /\ N > 1
ASSUME BoundsAssumption == MaxCrashes \in Nat /\ MaxRestarts \in Nat /\ MaxDelays \in Nat

Node == 0..(N - 1)
Peers(n) == Node \ {n}

VARIABLES
    up,         \* the process runs
    leading,    \* is_leader
    leader,     \* current_leader_id
    port,       \* leader_port
    fresh,      \* last_heartbeat is less than election_timeout ago
    electing,   \* the monitor task is in start_election
    probed,     \* the peers it has asked for their /status
    alive,      \* those that answered
    monitor,    \* what the monitor task has still to store
    handler,    \* what the heartbeat handler has still to store
    beats,      \* heartbeats under way, as <<from, to>>
    crashes, restarts, delays

fields == <<leading, leader, port, fresh>>
tasks  == <<electing, probed, alive, monitor, handler>>
counts == <<crashes, restarts, delays>>
vars   == <<up, fields, tasks, beats, counts>>

----------------------------------------------------------------------------
(* RaftLeadershipState. *)

\* RaftLeadershipState::new: node 0 leads, and the smallest port among the
\* peers of the others is that of node 0.
StartsAsLeader(n) == n = 0
NoneYet == N
FirstLeader == 0

\* become_leader (w = n) and become_follower (w # n) are four stores; left counts
\* the ones to come.
Idle == [to |-> 0, left |-> 0]
Become(w) == [to |-> w, left |-> 4]
Done(task) == IF task.left = 1 THEN Idle ELSE [task EXCEPT !.left = @ - 1]

Store(n, task) ==
    /\ leading' = IF task.left = 4 THEN [leading EXCEPT ![n] = task.to = n] ELSE leading
    /\ leader'  = IF task.left = 3 THEN [leader EXCEPT ![n] = task.to] ELSE leader
    /\ port'    = IF task.left = 2 THEN [port EXCEPT ![n] = task.to] ELSE port
    /\ fresh'   = IF task.left = 1 THEN [fresh EXCEPT ![n] = TRUE] ELSE fresh

Busy(n) == electing[n] \/ monitor[n].left > 0

----------------------------------------------------------------------------
Init ==
    /\ up = [n \in Node |-> TRUE]
    /\ leading = [n \in Node |-> StartsAsLeader(n)]
    /\ leader = [n \in Node |-> FirstLeader]
    /\ port = [n \in Node |-> FirstLeader]
    /\ fresh = [n \in Node |-> TRUE]
    /\ electing = [n \in Node |-> FALSE]
    /\ probed = [n \in Node |-> {}]
    /\ alive = [n \in Node |-> {}]
    /\ monitor = [n \in Node |-> Idle]
    /\ handler = [n \in Node |-> Idle]
    /\ beats = {}
    /\ crashes = 0 /\ restarts = 0 /\ delays = 0

(* The heartbeat sender, which only a node that starts as leader runs. *)

Sends(n) == up[n] /\ StartsAsLeader(n) /\ leading[n]

SendHeartbeat(n, p) ==
    /\ Sends(n) /\ p \in Peers(n)
    /\ beats' = beats \cup {<<n, p>>}
    /\ UNCHANGED <<up, fields, tasks, counts>>

(* The handler of POST {raft path}/heartbeat. *)

FollowsHeartbeat(n, from) == ~leading[n] /\ from # leader[n]

\* update_heartbeat, and what become_follower will store if the heartbeat is of
\* another leader than the one this node knows.
HandleHeartbeat(from, n) ==
    /\ <<from, n>> \in beats
    /\ up[n] /\ handler[n].left = 0
    /\ beats' = beats \ {<<from, n>>}
    /\ fresh' = [fresh EXCEPT ![n] = TRUE]
    /\ handler' = [handler EXCEPT ![n] = IF FollowsHeartbeat(n, from) THEN Become(from) ELSE @]
    /\ UNCHANGED <<up, leading, leader, port, electing, probed, alive, monitor, counts>>

HandlerStore(n) ==
    /\ up[n] /\ handler[n].left > 0
    /\ Store(n, handler[n])
    /\ handler' = [handler EXCEPT ![n] = Done(@)]
    /\ UNCHANGED <<up, electing, probed, alive, monitor, beats, counts>>

(* The handler of POST /_raft/append. *)

\* A write handler or the background task of any node that leads may replicate
\* to any peer.
Replicates(p, n) == up[p] /\ leading[p] /\ p \in Peers(n)

\* update_heartbeat, whatever leader this node knows; the append does not make
\* it follow its sender.  (What is appended is the matter of ReplicatedLog.)
HandleAppend(p, n) ==
    /\ Replicates(p, n) /\ up[n]
    /\ fresh' = [fresh EXCEPT ![n] = TRUE]
    /\ UNCHANGED <<up, leading, leader, port, tasks, beats, counts>>

(* The election monitor, which the other nodes run. *)

\* A beat is on its way or will be: the five seconds do not pass without one.
BeatDue(n) == (\E s \in Peers(n) : Sends(s)) \/ \E s \in Node : <<s, n>> \in beats

\* last_heartbeat gets too old, if no append comes either.  (That of node 0 is
\* never read.)
HeartbeatTimeout(n) ==
    /\ up[n] /\ ~StartsAsLeader(n) /\ fresh[n] /\ ~BeatDue(n)
    /\ fresh' = [fresh EXCEPT ![n] = FALSE]
    /\ UNCHANGED <<up, leading, leader, port, tasks, beats, counts>>

ShouldStartElection(n) == ~leading[n] /\ ~fresh[n]

StartElection(n) ==
    /\ up[n] /\ ~StartsAsLeader(n) /\ ~Busy(n)
    /\ ShouldStartElection(n)
    /\ electing' = [electing EXCEPT ![n] = TRUE]
    /\ UNCHANGED <<up, fields, probed, alive, monitor, handler, beats, counts>>

\* GET /status of one peer after the other, in the order of the configuration.
Probe(n, p) ==
    /\ up[n] /\ electing[n] /\ p \in Peers(n) \ probed[n]
    /\ probed' = [probed EXCEPT ![n] = @ \cup {p}]
    /\ alive' = [alive EXCEPT ![n] = IF up[p] THEN @ \cup {p} ELSE @]
    /\ UNCHANGED <<up, fields, electing, monitor, handler, beats, counts>>

HighestIsWinner(n, w) == w \in alive[n] \cup {n} /\ \A p \in alive[n] \cup {n} : p <= w
IsWinner(n, w) == w \in alive[n] \cup {n} /\ \A p \in alive[n] \cup {n} : w <= p

AnyProbed(n) == probed[n] # {}
AllProbed(n) == probed[n] = Peers(n)

\* The lowest id wins, and the monitor acts on what it found, whatever it has
\* heard in the meantime.
ElectionEnds(n) ==
    /\ up[n] /\ electing[n] /\ AllProbed(n)
    /\ electing' = [electing EXCEPT ![n] = FALSE]
    /\ probed' = [probed EXCEPT ![n] = {}]
    /\ alive' = [alive EXCEPT ![n] = {}]
    /\ \E w \in Node : IsWinner(n, w) /\ monitor' = [monitor EXCEPT ![n] = Become(w)]
    /\ UNCHANGED <<up, fields, handler, beats, counts>>

MonitorStore(n) ==
    /\ up[n] /\ monitor[n].left > 0
    /\ Store(n, monitor[n])
    /\ monitor' = [monitor EXCEPT ![n] = Done(@)]
    /\ UNCHANGED <<up, electing, probed, alive, handler, beats, counts>>

(* Faults. *)

\* Heartbeats come too late, because the sender, which awaits one peer after the
\* other, or the network is slow.
LateHeartbeat(n) ==
    /\ delays < MaxDelays
    /\ up[n] /\ ~StartsAsLeader(n) /\ fresh[n]
    /\ fresh' = [fresh EXCEPT ![n] = FALSE]
    /\ delays' = delays + 1
    /\ UNCHANGED <<up, leading, leader, port, tasks, beats, crashes, restarts>>

\* An append arrives when its sender is dead or leads no more.  (Node 0 has led.)
LateAppend(n) ==
    /\ delays < MaxDelays
    /\ up[n] /\ ~StartsAsLeader(n) /\ ~fresh[n]
    /\ fresh' = [fresh EXCEPT ![n] = TRUE]
    /\ delays' = delays + 1
    /\ UNCHANGED <<up, leading, leader, port, tasks, beats, crashes, restarts>>

\* A live peer does not answer within the two seconds of the client.
ProbeTimeout(n, p) ==
    /\ delays < MaxDelays
    /\ up[n] /\ electing[n] /\ p \in Peers(n) \ probed[n] /\ up[p]
    /\ probed' = [probed EXCEPT ![n] = @ \cup {p}]
    /\ delays' = delays + 1
    /\ UNCHANGED <<up, fields, electing, alive, monitor, handler, beats, crashes, restarts>>

\* The process of a node dies with its tasks and the requests it was to read.
Crash(n) ==
    /\ crashes < MaxCrashes /\ up[n]
    /\ up' = [up EXCEPT ![n] = FALSE]
    /\ electing' = [electing EXCEPT ![n] = FALSE]
    /\ probed' = [probed EXCEPT ![n] = {}]
    /\ alive' = [alive EXCEPT ![n] = {}]
    /\ monitor' = [monitor EXCEPT ![n] = Idle]
    /\ handler' = [handler EXCEPT ![n] = Idle]
    /\ beats' = {b \in beats : b[2] # n}
    /\ crashes' = crashes + 1
    /\ UNCHANGED <<fields, restarts, delays>>

\* It starts again from RaftLeadershipState::new: nothing of it is stored.
Restart(n) ==
    /\ restarts < MaxRestarts /\ ~up[n]
    /\ up' = [up EXCEPT ![n] = TRUE]
    /\ leading' = [leading EXCEPT ![n] = StartsAsLeader(n)]
    /\ leader' = [leader EXCEPT ![n] = FirstLeader]
    /\ port' = [port EXCEPT ![n] = FirstLeader]
    /\ fresh' = [fresh EXCEPT ![n] = TRUE]
    /\ restarts' = restarts + 1
    /\ UNCHANGED <<tasks, beats, crashes, delays>>

MonitorStep(n) ==
    \/ StartElection(n)
    \/ \E p \in Node : Probe(n, p)
    \/ ElectionEnds(n)
    \/ MonitorStore(n)

Fault(n) ==
    \/ LateHeartbeat(n)
    \/ LateAppend(n)
    \/ \E p \in Node : ProbeTimeout(n, p)
    \/ Crash(n)
    \/ Restart(n)

Next ==
    \E n \in Node :
        \/ \E p \in Node : SendHeartbeat(n, p) \/ HandleHeartbeat(p, n) \/ HandleAppend(p, n)
        \/ HandlerStore(n)
        \/ HeartbeatTimeout(n)
        \/ MonitorStep(n)
        \/ Fault(n)

Spec == Init /\ [][Next]_vars

\* No live node leads that could keep n fresh by its appends.
Unattended(n) == \A p \in Node : ~Replicates(p, n)

\* The tasks of a live node go on, and the heartbeats of a live sender arrive.
\* Time runs out on a node that nobody sends anything; a node that a leader may
\* send appends to is owed no timeout.  Appends and faults owe nothing.
Fairness ==
    \A n \in Node :
        /\ WF_vars(MonitorStep(n))
        /\ WF_vars(HeartbeatTimeout(n) /\ Unattended(n))
        /\ WF_vars(HandlerStore(n))
        /\ \A p \in Node : WF_vars(SendHeartbeat(n, p)) /\ WF_vars(HandleHeartbeat(n, p))

FairSpec == Spec /\ Fairness

----------------------------------------------------------------------------
(* Properties. *)

TypeOK ==
    /\ up \in [Node -> BOOLEAN]
    /\ leading \in [Node -> BOOLEAN]
    /\ leader \in [Node -> Node]
    /\ port \in [Node -> Node]
    /\ fresh \in [Node -> BOOLEAN]
    /\ electing \in [Node -> BOOLEAN]
    /\ probed \in [Node -> SUBSET Node]
    /\ alive \in [Node -> SUBSET Node]
    /\ monitor \in [Node -> [to : Node, left : 0..4]]
    /\ handler \in [Node -> [to : Node, left : 0..4]]
    /\ beats \subseteq Node \X Node
    /\ crashes \in 0..MaxCrashes /\ restarts \in 0..MaxRestarts /\ delays \in 0..MaxDelays

\* As long as nothing was late and no node came back, no two live nodes lead: who
\* promotes itself has found every lower id dead.  (A restart or a delay breaks
\* it: no leader ever steps down for another one.)
OneLiveLeader ==
    restarts = 0 /\ delays = 0 =>
        \A m, n \in Node : up[m] /\ leading[m] /\ up[n] /\ leading[n] => m = n

\* Once the faults are over, the lowest live node leads, and every node that
\* follows knows it by its id: repeated elections, heartbeats of a restarted
\* node 0 and the stores they race on settle.  That is so if the writes pause
\* now and then, for election_timeout and until the monitor looks.  Else the
\* appends of a new leader may keep a node from ever noticing that the leader it
\* knows is dead: they set last_heartbeat and its handler reads no leader from
\* them.
Lowest(n) == up[n] /\ \A m \in Node : up[m] => n <= m
WritesPause == \A n \in Node : WF_vars(HeartbeatTimeout(n)) /\ SF_vars(StartElection(n))
Settles ==
    WritesPause =>
    <>[](\A n, w \in Node : up[n] /\ Lowest(w) =>
            IF n = w THEN leading[n] ELSE leading[n] \/ leader[n] = w)

\* "Redirect writes to leader if we're a follower": the port a follower sends
\* its clients to is in the end that of the leader it knows.
RedirectsSettle ==
    <>[](\A n \in Node : up[n] /\ ~leading[n] => port[n] = leader[n])
=============================================================================
