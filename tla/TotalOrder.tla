----------------------------- MODULE TotalOrder -----------------------------
(***************************************************************************)
(* What the replicated write path promises under a stable leader.  Every   *)
(* write has at most one place in one order that all nodes share; a node's *)
(* models are what the filled places 1, 2, 3, ... give, without a hole, a  *)
(* duplicate or a change of order; a client that is told its write is done *)
(* has it in the leader's models.  A write that was not confirmed may      *)
(* still be applied by other nodes, and the leader applies only writes it  *)
(* confirms.                                                               *)
(***************************************************************************)
EXTENDS Integers, Sequences

CONSTANTS Node, Leader, Req, NoReq, MaxIndex

VARIABLES
    order,      \* the operation at each place, NoReq while it has none
    applied,    \* the operations each node has applied, oldest first
    status      \* what the client of a request was told

vars == <<order, applied, status>>

Places == 1..MaxIndex

Init ==
    /\ order = [i \in Places |-> NoReq]
    /\ applied = [n \in Node |-> <<>>]
    /\ status = [r \in Req |-> "pending"]

\* A write gets a place nobody has, which need not be the next one.
Place(r, i) ==
    /\ \A j \in Places : order[j] # r
    /\ order[i] = NoReq
    /\ order' = [order EXCEPT ![i] = r]
    /\ UNCHANGED <<applied, status>>

\* Another node applies the operations that follow what it has applied.
Follow(n, k) ==
    LET done == Len(applied[n]) IN
    /\ n # Leader
    /\ \A i \in (done + 1)..k : order[i] # NoReq
    /\ applied' = [applied EXCEPT ![n] =
                     @ \o [i \in 1..(k - done) |-> order[done + i]]]
    /\ UNCHANGED <<order, status>>

\* The leader applies the next operation and confirms it to its client.
Confirm(r) ==
    /\ status[r] = "pending"
    /\ Len(applied[Leader]) < MaxIndex
    /\ order[Len(applied[Leader]) + 1] = r
    /\ applied' = [applied EXCEPT ![Leader] = Append(@, r)]
    /\ status' = [status EXCEPT ![r] = "ok"]
    /\ UNCHANGED order

\* The client gets an error, or no answer at all.
Refuse(r) ==
    /\ status[r] = "pending"
    /\ status' = [status EXCEPT ![r] = "refused"]
    /\ UNCHANGED <<order, applied>>

Next ==
    \/ \E r \in Req, i \in Places : Place(r, i)
    \/ \E n \in Node, k \in Places : Follow(n, k)
    \/ \E r \in Req : Confirm(r) \/ Refuse(r)

Spec == Init /\ [][Next]_vars
=============================================================================
