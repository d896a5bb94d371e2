----------------------------- MODULE RecencyCache -----------------------------
(***************************************************************************)
(* What an LRU cache promises: at most Capacity entries, the most recently *)
(* used first; a new entry pushes out the one at the end.                  *)
(***************************************************************************)
EXTENDS Naturals, Sequences

CONSTANTS CacheKey, CacheVal, Capacity, NoEntry

VARIABLES
    order,      \* entries, the most recently used first
    reply       \* the last call and what it returned

\* The entries but that of k: a key has at most one.
Without(k) ==
    IF \E i \in DOMAIN order : order[i].key = k
    THEN LET i == CHOOSE i \in DOMAIN order : order[i].key = k IN
         SubSeq(order, 1, i - 1) \o SubSeq(order, i + 1, Len(order))
    ELSE order

\* The value of a key, NoEntry if it has no entry.
ValueOf(k) ==
    IF \E i \in DOMAIN order : order[i].key = k
    THEN order[CHOOSE i \in DOMAIN order : order[i].key = k].val
    ELSE NoEntry

Answer(call, k) == reply' = [call |-> call, key |-> k, val |-> ValueOf(k)]

RecencyInit == order = <<>> /\ reply = [call |-> "new"]

\* A hit moves the entry to the front.
UseKey(k) ==
    /\ Answer("get", k)
    /\ order' = IF ValueOf(k) = NoEntry THEN order
                ELSE <<[key |-> k, val |-> ValueOf(k)]>> \o Without(k)

PutKey(k, v) ==
    LET kept == Without(k) IN
    /\ Answer("insert", k)
    /\ order' = <<[key |-> k, val |-> v]>>
                \o (IF Len(kept) = Capacity THEN SubSeq(kept, 1, Capacity - 1) ELSE kept)

DropKey(k) == Answer("remove", k) /\ order' = Without(k)

DropAll == order' = <<>> /\ reply' = [call |-> "clear"]

RecencyNext ==
    \/ \E k \in CacheKey : UseKey(k) \/ DropKey(k) \/ \E v \in CacheVal : PutKey(k, v)
    \/ DropAll

RecencySpec == RecencyInit /\ [][RecencyNext]_<<order, reply>>
=============================================================================
