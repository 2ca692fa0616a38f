------------------------------ MODULE LRUCache ------------------------------
(***************************************************************************)
(* LRUCache of core/src/caches/caches.cpp.  list_ (the nodes) and map_ (the *)
(* iterators into it) are updated separately, as the code does: nodes is    *)
(* the key order of list_, map gives the value of the node that the         *)
(* iterator of each indexed key points to.                                  *)
(***************************************************************************)
EXTENDS RecencyLists, Integers

CONSTANTS Keys, Values, Capacities,
          StatMod       \* the counters are size_t: they wrap at StatMod

LRUAssumption ==
  /\ Capacities \subseteq Nat
  /\ StatMod \in Nat \ {0}

VARIABLES nodes,        \* list_, most recent first
          map,          \* map_: indexed key -> value of its node
          capacity,     \* capacity_
          stats         \* hits_, misses_, evictions_

vars == <<nodes, map, capacity, stats>>

NoStats == [hits |-> 0, misses |-> 0, evictions |-> 0]
Counted(field, n) == [stats EXCEPT ![field] = (@ + n) % StatMod]

(* Mutant: the loop that makes room takes one node too many. *)
OverflowTwice(l, c) ==
  IF Len(l) <= c THEN 0 ELSE IF c = 0 THEN Len(l) ELSE Len(l) - c + 1

(* evict_if_over(): how many tails the loop takes off l, and what is left.  *)
Overflow(l, c) == IF Len(l) > c THEN Len(l) - c ELSE 0
Kept(l, c) == SubSeq(l, 1, Len(l) - Overflow(l, c))
Dropped(l, c) == ToSet(SubSeq(l, Len(l) - Overflow(l, c) + 1, Len(l)))
EvictIfOver(l, m, c) ==
  /\ nodes' = Kept(l, c)
  /\ map' = [k \in DOMAIN m \ Dropped(l, c) |-> m[k]]
  /\ stats' = Counted("evictions", Overflow(l, c))

Get(k) ==
  /\ \/ /\ k \in DOMAIN map
        /\ nodes' = Touch(nodes, k)
        /\ stats' = Counted("hits", 1)
     \/ /\ k \notin DOMAIN map
        /\ stats' = Counted("misses", 1)
        /\ UNCHANGED nodes
  /\ UNCHANGED <<map, capacity>>

(* Mutant: overwriting a value does not refresh its node. *)
PutStale(k, v) ==
  /\ \/ /\ k \in DOMAIN map
        /\ map' = [map EXCEPT ![k] = v]
        /\ UNCHANGED <<nodes, stats>>
     \/ /\ k \notin DOMAIN map
        /\ EvictIfOver(PushFront(nodes, k),
                       [x \in DOMAIN map \cup {k} |-> IF x = k THEN v ELSE map[x]],
                       capacity)
  /\ UNCHANGED capacity

Put(k, v) ==
  /\ \/ /\ k \in DOMAIN map
        /\ map' = [map EXCEPT ![k] = v]
        /\ nodes' = Touch(nodes, k)
        /\ UNCHANGED stats
     \/ /\ k \notin DOMAIN map
        /\ EvictIfOver(PushFront(nodes, k),
                       [x \in DOMAIN map \cup {k} |-> IF x = k THEN v ELSE map[x]],
                       capacity)
  /\ UNCHANGED capacity

(* Mutant: the node is unlinked but its iterator stays in map_. *)
EraseNode(k) ==
  /\ nodes' = Unlink(nodes, k)
  /\ UNCHANGED <<map, capacity, stats>>

Erase(k) ==
  /\ nodes' = IF k \in DOMAIN map THEN Unlink(nodes, k) ELSE nodes
  /\ map' = [x \in DOMAIN map \ {k} |-> map[x]]
  /\ UNCHANGED <<capacity, stats>>

Resize(c) ==
  /\ capacity' = c
  /\ EvictIfOver(nodes, map, c)

Clear ==
  /\ nodes' = << >>
  /\ map' = [x \in {} |-> x]
  /\ stats' = NoStats
  /\ UNCHANGED capacity

Init ==
  /\ nodes = << >>
  /\ map = [x \in {} |-> x]
  /\ capacity \in Capacities
  /\ stats = NoStats

Next ==
  \/ \E k \in Keys : Get(k) \/ Erase(k) \/ \E v \in Values : Put(k, v)
  \/ \E c \in Capacities : Resize(c)
  \/ Clear

Spec == Init /\ [][Next]_vars

-----------------------------------------------------------------------------
(* Every node is indexed, once, and every iterator points to a node; there  *)
(* is never more than capacity_ of them, at capacity 0 either.              *)
Indexed ==
  /\ NoRepeats(nodes)
  /\ ToSet(nodes) = DOMAIN map
  /\ Len(nodes) <= capacity

(* The cache is the lossy map that AdaptiveCache promises, call by call:     *)
(* get() loses nothing, put() one other entry at most, resize() none that   *)
(* it need not.                                                             *)
Contract == INSTANCE CacheContract WITH contents <- map
ImplementsContract ==
  /\ Contract!Init
  /\ [][/\ \A k \in Keys :
            /\ Get(k) => Contract!Read
            /\ Erase(k) => Contract!Erase(k)
            /\ \A v \in Values : Put(k, v) => Contract!Put(k, v)
        /\ \A c \in Capacities : Resize(c) => Contract!Resize(c)
        /\ Clear => Contract!Clear]_vars
=============================================================================
