------------------------------- MODULE LruCache -------------------------------
(***************************************************************************)
(* The LRU cache of cache/lru.rs: a map from keys to slots of a vector, a  *)
(* doubly linked list through the slots, and a free list.  It implements   *)
(* RecencyCache.                                                           *)
(*                                                                         *)
(* Every operation has the cache to itself (&mut self).  Slots are counted *)
(* from 1; the access counters of an entry are left out.                   *)
(***************************************************************************)
EXTENDS Integers, Sequences, FiniteSets

CONSTANTS CacheKey, CacheVal, Capacity, NoEntry

ASSUME CapacityAssumption == Capacity \in Nat \ {0}

ASSUME NoEntryAssumption == NoEntry \notin CacheVal

Nil == 0                        \* None of an Option<usize>
NoNode == [kind |-> "none"]

VARIABLES
    cache,
    reply           \* history: the last call and what it returned

cacheVars == <<cache, reply>>

NewCache == [map |-> <<>>, nodes |-> <<>>, head |-> Nil, tail |-> Nil, free |-> <<>>]

CacheInit == cache = NewCache /\ reply = [call |-> "new"]

Stored(k) == IF k \in DOMAIN cache.map THEN cache.nodes[cache.map[k]].val ELSE NoEntry

Returns(call, k) == reply' = [call |-> call, key |-> k, val |-> Stored(k)]

NodeOf(k, v, prev, next) ==
    [kind |-> "node", key |-> k, val |-> v, prev |-> prev, next |-> next]

\* Changes of one field of the node in slot i, if there is one.
SetPrev(nodes, i, p) == IF i = Nil THEN nodes ELSE [nodes EXCEPT ![i].prev = p]
SetNext(nodes, i, n) == IF i = Nil THEN nodes ELSE [nodes EXCEPT ![i].next = n]

\* The neighbours of slot i point past it.
Unlinked(nodes, i) ==
    SetPrev(SetNext(nodes, nodes[i].prev, nodes[i].next), nodes[i].next, nodes[i].prev)

\* move_to_front: unlink the node, then link it before the old head.
MoveToFront(c, i) ==
    LET placed == [Unlinked(c.nodes, i) EXCEPT ![i].prev = Nil, ![i].next = c.head]
        tail == IF c.tail = i THEN c.nodes[i].prev ELSE c.tail
    IN IF c.head = i THEN c
       ELSE [map |-> c.map, nodes |-> SetPrev(placed, c.head, i), head |-> i,
             tail |-> IF tail = Nil THEN i ELSE tail, free |-> c.free]

WithoutKey(map, k) == [x \in DOMAIN map \ {k} |-> map[x]]

\* evict_lru: the tail goes, its slot becomes free.
EvictLru(c) ==
    LET n == c.nodes[c.tail] IN
    IF c.tail = Nil THEN c
    ELSE [map |-> WithoutKey(c.map, n.key),
          nodes |-> [SetNext(c.nodes, n.prev, Nil) EXCEPT ![c.tail] = NoNode],
          head |-> IF n.prev = Nil THEN Nil ELSE c.head, tail |-> n.prev,
          free |-> Append(c.free, c.tail)]

\* get_node_index: the slot that was freed last, or a new one.
WithSlot(c) ==
    IF c.free # <<>>
    THEN [slot |-> c.free[Len(c.free)], nodes |-> c.nodes,
          free |-> SubSeq(c.free, 1, Len(c.free) - 1)]
    ELSE [slot |-> Len(c.nodes) + 1, nodes |-> Append(c.nodes, NoNode), free |-> c.free]

\* A new node before the old head.
InsertNew(c, k, v) ==
    LET s == WithSlot(c)
        placed == [s.nodes EXCEPT ![s.slot] = NodeOf(k, v, Nil, c.head)]
    IN [map |-> [x \in DOMAIN c.map \cup {k} |-> IF x = k THEN s.slot ELSE c.map[x]],
        nodes |-> SetPrev(placed, c.head, s.slot), head |-> s.slot,
        tail |-> IF c.tail = Nil THEN s.slot ELSE c.tail, free |-> s.free]

\* As a bug would have it: a hit is no use.
CacheGetInPlace(k) == Returns("get", k) /\ UNCHANGED cache

\* get: a miss changes nothing.
CacheGet(k) ==
    /\ Returns("get", k)
    /\ cache' = IF k \in DOMAIN cache.map THEN MoveToFront(cache, cache.map[k]) ELSE cache

\* insert: an entry that is there is overwritten and used; otherwise the least
\* recently used one makes room.
CacheInsert(k, v) ==
    /\ Returns("insert", k)
    /\ cache' =
         IF k \in DOMAIN cache.map
         THEN MoveToFront([cache EXCEPT !.nodes[cache.map[k]].val = v], cache.map[k])
         ELSE InsertNew(IF Cardinality(DOMAIN cache.map) >= Capacity THEN EvictLru(cache)
                        ELSE cache, k, v)

\* As a bug would have it: the tail stays.
RemoveKeepingTail(c, k, i) ==
    LET n == c.nodes[i] IN
    [map |-> WithoutKey(c.map, k), nodes |-> [Unlinked(c.nodes, i) EXCEPT ![i] = NoNode],
     head |-> IF n.prev = Nil THEN n.next ELSE c.head, tail |-> c.tail,
     free |-> Append(c.free, i)]

\* remove: the neighbours, or head and tail, take over.
RemoveAt(c, k, i) ==
    LET n == c.nodes[i] IN
    [map |-> WithoutKey(c.map, k), nodes |-> [Unlinked(c.nodes, i) EXCEPT ![i] = NoNode],
     head |-> IF n.prev = Nil THEN n.next ELSE c.head,
     tail |-> IF n.next = Nil THEN n.prev ELSE c.tail,
     free |-> Append(c.free, i)]

CacheRemove(k) ==
    /\ Returns("remove", k)
    /\ cache' = IF k \in DOMAIN cache.map THEN RemoveAt(cache, k, cache.map[k]) ELSE cache

CacheClear == cache' = NewCache /\ reply' = [call |-> "clear"]

CacheNext ==
    \/ \E k \in CacheKey : CacheGet(k) \/ CacheRemove(k) \/ \E v \in CacheVal : CacheInsert(k, v)
    \/ CacheClear

CacheSpec == CacheInit /\ [][CacheNext]_cacheVars

----------------------------------------------------------------------------
(* Properties. *)

\* The list, from the head, by following next; as long as there are slots if it runs
\* in a circle.
ListOf(c) ==
    LET reached[n \in Nat] ==
            IF n = 0 THEN c.head
            ELSE IF reached[n - 1] = Nil THEN Nil ELSE c.nodes[reached[n - 1]].next
        steps == {n \in 0..(Len(c.nodes) - 1) : reached[n] # Nil}
    IN [i \in 1..Cardinality(steps) |-> reached[i - 1]]

Listed == ListOf(cache)

\* Map, list, tail and free list tell the same: the list goes through exactly the
\* slots of the map, once each, backwards as forwards; all other slots are free,
\* and there are never more slots than the capacity.
WellLinked ==
    LET slots == {Listed[i] : i \in DOMAIN Listed} IN
    /\ Len(cache.nodes) <= Capacity
    /\ Cardinality(slots) = Len(Listed)
    /\ Cardinality(DOMAIN cache.map) = Len(Listed)
    /\ \A k \in DOMAIN cache.map : cache.map[k] \in slots /\ cache.nodes[cache.map[k]].key = k
    /\ cache.tail = (IF Listed = <<>> THEN Nil ELSE Listed[Len(Listed)])
    /\ \A i \in DOMAIN Listed :
         cache.nodes[Listed[i]].prev = (IF i = 1 THEN Nil ELSE Listed[i - 1])
    /\ {cache.free[i] : i \in DOMAIN cache.free} = DOMAIN cache.nodes \ slots
    /\ Len(cache.free) + Len(Listed) = Len(cache.nodes)

\* The entries along the list are the cache of RecencyCache.
Entries ==
    [i \in DOMAIN Listed |-> [key |-> cache.nodes[Listed[i]].key, val |-> cache.nodes[Listed[i]].val]]

Recency == INSTANCE RecencyCache WITH order <- Entries

\* Whatever is got, inserted and removed in between, every call returns what is
\* stored, a hit counts as a use, and an insertion into a full cache pushes out the
\* least recently used entry and no other.
RefinesRecency == Recency!RecencySpec
=============================================================================
